-------------------------- MODULE MPSCQueueIntrusive --------------------------
(***************************************************************************)
(* MPSCQueueIntrusive of Queue_Design/MPSCQueue.h: the objects themselves  *)
(* carry the link, and a dummy object, embedded in the queue, is enqueued  *)
(* again by the consumer whenever it wants to take the last object.        *)
(* Every step is one access to shared memory.  An object returned by       *)
(* Dequeue belongs to the caller, who may enqueue it again at once.        *)
(***************************************************************************)
EXTENDS Naturals, Sequences, Functions

CONSTANTS Producers,  \* threads that call Enqueue
          Consumer,   \* the thread that calls Dequeue, none of the Producers
          Items,      \* the T objects callers own
          Dummy,      \* _dummyPtr, no item
          NULL        \* nullptr, no object

Threads == Producers \union {Consumer}
Objects == Items \union {Dummy}

VARIABLES
    head, tail,          \* _head, _tail
    link,                \* the IntrusiveLink of every object
    pc, input, preHead,  \* Enqueue: program counter and locals, by thread
    dpc, dtail, dnext,   \* Dequeue: program counter and locals
    result,              \* what the last successful Dequeue returned
    life,                \* "live", then "destructing" in the destructor, then "dead"
    chain,               \* history: the objects from _tail to _head, in exchange order
    excused              \* history: since this Dequeue began, the queue was empty
                         \* or an Enqueue was between its exchange and its link

enqueueVars == <<pc, input, preHead>>
dequeueVars == <<dpc, dtail, dnext, result>>
vars == <<head, tail, link, enqueueVars, dequeueVars, life, chain, excused>>

\* The objects in the queue: all of the list but the dummy.
queue == SelectSeq(chain, LAMBDA x : x # Dummy)

\* Objects the callers own and may enqueue.
Free == Items \ (Range(chain) \union {input[t] : t \in Threads})

\* There is a reason for Dequeue to return false at this moment.
Excuse == queue = <<>> \/ \E p \in Producers : pc[p] = "link"

Init ==
    /\ head = Dummy
    /\ tail = Dummy
    /\ link = [o \in Objects |-> NULL]
    /\ pc = [t \in Threads |-> "idle"]
    /\ input = [t \in Threads |-> NULL]
    /\ preHead = [t \in Threads |-> NULL]
    /\ dpc = "idle"
    /\ dtail = NULL
    /\ dnext = NULL
    /\ result = NULL
    /\ life = "live"
    /\ chain = <<Dummy>>
    /\ excused = FALSE
-----------------------------------------------------------------------------
(* Enqueue, by a producer on an object or by the consumer on the dummy *)

\* `(input->*IntrusiveLink).store(nullptr)`.
ClearedLink(o) == [link EXCEPT ![o] = NULL]

EnqueueClear(t, o) ==
    /\ pc[t] = "idle"
    /\ link' = ClearedLink(o)
    /\ input' = [input EXCEPT ![t] = o]
    /\ pc' = [pc EXCEPT ![t] = "exchange"]
    /\ UNCHANGED <<head, tail, preHead, dequeueVars, life, chain, excused>>

ProducerEnqueue(p) ==
    /\ life = "live"
    /\ \E o \in Free : EnqueueClear(p, o)

ConsumerEnqueueDummy ==
    /\ dpc = "enqueue"
    /\ EnqueueClear(Consumer, Dummy)

\* `_head.exchange(input)`: the operation takes effect here.
EnqueueExchange(t) ==
    /\ pc[t] = "exchange"
    /\ preHead' = [preHead EXCEPT ![t] = head]
    /\ head' = input[t]
    /\ chain' = Append(chain, input[t])
    /\ excused' = (excused \/ t \in Producers)
    /\ pc' = [pc EXCEPT ![t] = "link"]
    /\ UNCHANGED <<tail, link, input, dequeueVars, life>>

\* `(preHead->*IntrusiveLink).store(input)`; Enqueue returns, to its caller or,
\* for the dummy, to Dequeue.
LinkForgotten(t) == link
Linked(t) == [link EXCEPT ![preHead[t]] = input[t]]

EnqueueLink(t) ==
    /\ pc[t] = "link"
    /\ link' = Linked(t)
    /\ input' = [input EXCEPT ![t] = NULL]
    /\ preHead' = [preHead EXCEPT ![t] = NULL]
    /\ pc' = [pc EXCEPT ![t] = "idle"]
    /\ dpc' = IF t = Consumer THEN "reload" ELSE dpc
    /\ UNCHANGED <<head, tail, dtail, dnext, result, life, chain, excused>>
-----------------------------------------------------------------------------
(* Dequeue, by the consumer, and by the destructor *)

\* Dequeue returns false; in the destructor this ends the loop.
ReturnFalse ==
    /\ dpc' = "idle"
    /\ dtail' = NULL
    /\ dnext' = NULL
    /\ life' = IF life = "destructing" THEN "dead" ELSE life
    /\ UNCHANGED <<head, tail, link, enqueueVars, result, chain>>

\* The loads of _tail and of its link, and the `next == nullptr` exit when
\* _tail is the dummy.
DequeueEmpty ==
    /\ dpc = "idle"
    /\ life # "dead"
    /\ tail = Dummy /\ link[tail] = NULL
    /\ excused' = Excuse
    /\ ReturnFalse

DequeueLoad ==
    /\ dpc = "idle"
    /\ life # "dead"
    /\ ~ (tail = Dummy /\ link[tail] = NULL)
    /\ dtail' = tail
    /\ dnext' = link[tail]
    /\ dpc' = IF tail = Dummy THEN "skip" ELSE "take"
    /\ excused' = Excuse
    /\ UNCHANGED <<head, tail, link, enqueueVars, result, life, chain>>

\* _tail is the dummy and there is an object behind it: step over the dummy.
DequeueSkipDummy ==
    /\ dpc = "skip"
    /\ tail' = dnext
    /\ dtail' = dnext
    /\ dnext' = link[dnext]
    /\ chain' = Tail(chain)
    /\ dpc' = "take"
    /\ UNCHANGED <<head, link, enqueueVars, result, life, excused>>

\* The object to return, both times Dequeue succeeds.
ReturnsNext == dnext
ReturnsTail == dtail

\* `next != nullptr`: store _tail and return the old tail.  This is the last
\* access of Dequeue, on the path through the dummy as well.
DequeueTake ==
    /\ dpc = "take"
    /\ dnext # NULL
    /\ tail' = dnext
    /\ result' = ReturnsTail
    /\ chain' = Tail(chain)
    /\ dpc' = "idle"
    /\ dtail' = NULL
    /\ dnext' = NULL
    /\ UNCHANGED <<head, link, enqueueVars, life, excused>>

\* `tail != head`.
HeadUnchecked == FALSE
NoSuccessor == TRUE
HeadMoved == dtail # head

\* tail has no successor: if it is not _head either, an Enqueue is under way.
DequeueBusy ==
    /\ dpc = "take"
    /\ dnext = NULL
    /\ HeadMoved
    /\ UNCHANGED excused
    /\ ReturnFalse

\* tail is the last object: put the dummy behind it.
DequeueLast ==
    /\ dpc = "take"
    /\ dnext = NULL
    /\ ~ HeadMoved
    /\ dpc' = "enqueue"
    /\ UNCHANGED <<head, tail, link, enqueueVars, dtail, dnext, result, life, chain, excused>>

\* Enqueue(_dummyPtr) has returned: load the link of tail again.
DequeueReload ==
    /\ dpc = "reload"
    /\ link[dtail] # NULL
    /\ dnext' = link[dtail]
    /\ dpc' = "take"
    /\ UNCHANGED <<head, tail, link, enqueueVars, dtail, result, life, chain, excused>>

DequeueStillBusy ==
    /\ dpc = "reload"
    /\ link[dtail] = NULL
    /\ UNCHANGED excused
    /\ ReturnFalse

\* The destructor starts when no thread is inside the queue any more.
Destruct ==
    /\ life = "live"
    /\ dpc = "idle"
    /\ \A p \in Producers : pc[p] = "idle"
    /\ life' = "destructing"
    /\ UNCHANGED <<head, tail, link, enqueueVars, dequeueVars, chain, excused>>

Miss == DequeueEmpty \/ DequeueBusy \/ DequeueStillBusy

Dequeue ==
    \/ Miss
    \/ DequeueLoad
    \/ DequeueSkipDummy
    \/ DequeueTake
    \/ DequeueLast
    \/ DequeueReload
    \/ ConsumerEnqueueDummy

Next ==
    \/ \E p \in Producers : ProducerEnqueue(p)
    \/ \E t \in Threads : EnqueueExchange(t) \/ EnqueueLink(t)
    \/ Dequeue
    \/ Destruct

Spec == Init /\ [][Next]_vars

\* A started Enqueue finishes; the consumer keeps polling.
FairSpec ==
    /\ Spec
    /\ \A t \in Threads : WF_vars(EnqueueExchange(t) \/ EnqueueLink(t))
    /\ WF_vars(Dequeue)
-----------------------------------------------------------------------------
(* Properties *)

\* Every variable holds a value of its declared type.
TypeOK ==
    /\ head \in Objects /\ tail \in Objects
    /\ link \in [Objects -> Objects \union {NULL}]
    /\ pc \in [Threads -> {"idle", "exchange", "link"}]
    /\ input \in [Threads -> Objects \union {NULL}]
    /\ preHead \in [Threads -> Objects \union {NULL}]
    /\ dpc \in {"idle", "skip", "take", "enqueue", "reload"}
    /\ dtail \in Objects \union {NULL}
    /\ dnext \in Objects \union {NULL}
    /\ result \in Items \union {NULL}
    /\ life \in {"live", "destructing", "dead"}
    /\ chain \in Seq(Objects)
    /\ excused \in BOOLEAN

\* Thread t exchanged _head for chain[i + 1] and has not linked it yet.
Linking(t, i) == pc[t] = "link" /\ preHead[t] = chain[i] /\ input[t] = chain[i + 1]

\* From _tail to _head runs one list in which no object, and so not the dummy
\* either, occurs twice; a link is missing exactly where an Enqueue stands
\* between its exchange and its store, and the last object has none.
ListShape ==
    /\ chain # <<>>
    /\ tail = chain[1]
    /\ head = chain[Len(chain)]
    /\ IsInjective(chain)
    /\ link[head] = NULL
    /\ \A i \in 1 .. Len(chain) - 1 :
          link[chain[i]] = IF \E t \in Threads : Linking(t, i) THEN NULL ELSE chain[i + 1]

\* Whatever the queue is still going to read or write through a local pointer
\* is an object in the list: nothing is touched once Dequeue has returned it
\* and its new owner may have deleted it or enqueued it again.
NoTouchAfterReturn ==
    /\ \A t \in Threads : pc[t] = "link" => preHead[t] \in Range(chain)
    /\ dpc = "skip" => dtail = Dummy /\ dnext \in Range(chain)
    /\ dpc # "idle" => dtail = tail

\* The consumer puts the dummy into the list only when it is not there.
DummyOnce ==
    dpc = "enqueue" =>
       /\ Dummy # preHead[Consumer]
       /\ Dummy \in Range(chain) <=> pc[Consumer] = "link"

\* Dequeue returns false only if at some moment of the call the queue was
\* empty or some Enqueue had exchanged _head and not yet stored its link.
MissIsExcused == [][Miss => excused']_vars

\* The destructor leaves no object behind.
NoLeak == life = "dead" => queue = <<>>

\* In every state of Enqueue, Dequeue and the destructor the list with its travelling
\* dummy is well formed, no returned object is about to be touched, none is lost.
Inv == TypeOK /\ ListShape /\ NoTouchAfterReturn /\ DummyOnce /\ NoLeak

\* Enqueue and Dequeue are a FIFO queue of the callers' objects: the exchange
\* puts, the store of _tail takes, the dummy is never seen.
Fifo == INSTANCE FifoQueue WITH Items <- Items, None <- NULL, q <- queue, out <- result
RefinesFifo == Fifo!FifoSpec

\* A consumer that keeps calling Dequeue receives every enqueued object, as
\* long as a started Enqueue does not stall for ever.
Delivered == \A o \in Items : o \in Range(queue) ~> (o \notin Range(queue))
=============================================================================
