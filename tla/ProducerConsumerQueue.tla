------------------------ MODULE ProducerConsumerQueue ------------------------
(***************************************************************************)
(* Queue_Design/ProducerConsumerQueue.h: a std::queue behind one mutex,    *)
(* with a condition variable for the consumers that wait and a Cancel that *)
(* empties the queue and releases them.  Every method holds _queueLock     *)
(* from its first to its last statement, so a method, or the part of       *)
(* WaitAndPop between two waits, is one step.  Empty and Size only read.   *)
(***************************************************************************)
EXTENDS Naturals, Sequences, Functions

CONSTANTS Items,      \* the objects callers push
          Consumers,  \* threads that call WaitAndPop
          None

ASSUME PCQueueAssumption == None \notin Items

VARIABLES _queue,     \* oldest object first
          _shutdown,
          pc,         \* of every consumer: "idle", "wait", or "woken"
          out         \* the object last stored in a caller's val

vars == <<_queue, _shutdown, pc, out>>

Init ==
    /\ _queue = <<>>
    /\ _shutdown = FALSE
    /\ pc = [c \in Consumers |-> "idle"]
    /\ out = None

Waiting == {c \in Consumers : pc[c] = "wait"}
Woken == {c \in Consumers : pc[c] = "woken"}

\* The consumers an operation wakes: one of those that wait, if there are any;
\* none; all.
NotifyNone == {{}}
NotifyOne == IF Waiting = {} THEN {{}} ELSE {{c} : c \in Waiting}
NotifyAll == {Waiting}

Wake(notified) ==
    \E S \in notified : pc' = [c \in Consumers |-> IF c \in S THEN "woken" ELSE pc[c]]

\* A wait may also end by itself.
SpuriousWakeup(c) ==
    /\ pc[c] = "wait"
    /\ pc' = [pc EXCEPT ![c] = "woken"]
    /\ UNCHANGED <<_queue, _shutdown, out>>

\* Push does not look at _shutdown.
Push(v) ==
    /\ v \notin Range(_queue)
    /\ _queue' = Append(_queue, v)
    /\ Wake(NotifyOne)
    /\ UNCHANGED <<_shutdown, out>>

\* val = _queue.front(); _queue.pop().
TakeFront ==
    /\ out' = Head(_queue)
    /\ _queue' = Tail(_queue)

\* The test that makes Pop and WaitAndPop return without an object.
NothingToPop == _queue = <<>> \/ _shutdown

\* A Pop that returns false changes nothing.
Pop ==
    /\ ~ NothingToPop
    /\ TakeFront
    /\ UNCHANGED <<_shutdown, pc>>

\* A consumer inside WaitAndPop that can run: it has just locked the queue, or
\* it was woken and holds the lock again.
Running(c) == pc[c] \in {"idle", "woken"}

\* The loop test, and a test that looks once only.
MustWaitOnce(c) == _queue = <<>> /\ ~ _shutdown /\ pc[c] = "idle"
MustWaitForItem(c) == _queue = <<>>
MustWait(c) == _queue = <<>> /\ ~ _shutdown

WaitAndPopWaits(c) ==
    /\ Running(c)
    /\ MustWait(c)
    /\ pc' = [pc EXCEPT ![c] = "wait"]
    /\ UNCHANGED <<_queue, _shutdown, out>>

WaitAndPopReturns(c) ==
    /\ Running(c)
    /\ ~ MustWait(c)
    /\ NothingToPop
    /\ pc' = [pc EXCEPT ![c] = "idle"]
    /\ UNCHANGED <<_queue, _shutdown, out>>

WaitAndPopTakes(c) ==
    /\ Running(c)
    /\ ~ MustWait(c)
    /\ ~ NothingToPop
    /\ TakeFront
    /\ pc' = [pc EXCEPT ![c] = "idle"]
    /\ UNCHANGED _shutdown

WaitAndPop(c) == WaitAndPopWaits(c) \/ WaitAndPopReturns(c) \/ WaitAndPopTakes(c)

\* The consumers Cancel wakes.
CancelNotifies == NotifyAll

\* What Cancel leaves in the queue: it deletes every object.
AllButFirst == IF _queue = <<>> THEN <<>> ELSE <<Head(_queue)>>
Emptied == <<>>

Cancel ==
    /\ _queue' = Emptied
    /\ _shutdown' = TRUE
    /\ Wake(CancelNotifies)
    /\ UNCHANGED out

Next ==
    \/ \E v \in Items : Push(v)
    \/ Pop
    \/ \E c \in Consumers : WaitAndPop(c) \/ SpuriousWakeup(c)
    \/ Cancel

Spec == Init /\ [][Next]_vars

-----------------------------------------------------------------------------
(* Properties *)

\* Every variable holds a value of its declared type.
TypeOK ==
    /\ _queue \in Seq(Items)
    /\ _shutdown \in BOOLEAN
    /\ pc \in [Consumers -> {"idle", "wait", "woken"}]
    /\ out \in Items \union {None}

\* No notification is lost: while a consumer sleeps, every object has a consumer of its
\* own on the way to the lock, whoever takes objects meanwhile.
NoLostWakeup == Waiting # {} => ExistsInjection(1 .. Len(_queue), Woken)

\* Cancel reaches every consumer: nobody sleeps in a cancelled queue.
CancelReleases == _shutdown => Waiting = {}

\* In every state no notification is lost and Cancel has left nobody asleep.
Inv == TypeOK /\ NoLostWakeup /\ CancelReleases

\* WaitAndPop comes back without an object only from a cancelled queue, and such a
\* queue hands nothing out any more, not even what is pushed later.
HonoursCancel ==
    /\ \A c \in Consumers : WaitAndPopReturns(c) => _shutdown
    /\ _shutdown => UNCHANGED out
CancelHonoured == [][HonoursCancel]_vars

\* Push, Pop, WaitAndPop and Cancel are a FIFO queue that can be cancelled.
Fifo == INSTANCE FifoQueue WITH Items <- Items, None <- None, q <- _queue, out <- out
RefinesFifo == Fifo!CancellableSpec

\* With consumers that keep calling WaitAndPop every object leaves the queue, unless
\* the queue is cancelled (what is pushed after Cancel stays for ever); and after
\* Cancel every consumer inside WaitAndPop returns.
Delivered ==
    /\ \A v \in Items : v \in Range(_queue) ~> (v \notin Range(_queue) \/ _shutdown)
    /\ \A c \in Consumers : _shutdown ~> pc[c] = "idle"
=============================================================================
