------------------------ MODULE MPSCQueueNonIntrusive ------------------------
(***************************************************************************)
(* MPSCQueueNonIntrusive of Queue_Design/MPSCQueue.h: a linked list of     *)
(* heap-allocated nodes, appended to by any number of producers and        *)
(* drained by one consumer.  Every step is one access to shared memory.    *)
(* Addresses are reused: `new Node` may return the address of any node     *)
(* that has been deleted.  The acquire/release pairs of the code publish a *)
(* node before its address, so the interleaving semantics used here is     *)
(* exact for the accesses of this class.                                   *)
(***************************************************************************)
EXTENDS Naturals, Sequences, Functions

CONSTANTS Producers,  \* threads that call Enqueue
          Items,      \* the T objects callers own
          Nodes,      \* the addresses `new Node` can return (bounds the heap)
          NULL        \* nullptr

ASSUME NullAssumption == NULL \notin Nodes \union Items

VARIABLES
    head, tail,       \* _head, _tail
    next, data,       \* Node::Next and Node::Data, by address
    allocated,        \* addresses that are live nodes
    pc, node, prevHead,      \* Enqueue: program counter and locals
    cpc, ctail, cnext,       \* Dequeue: program counter and locals
    result,           \* what the last successful Dequeue returned
    life,             \* "live", then "destructing" in the destructor, then "dead"
    chain             \* history: the nodes from _tail to _head, in exchange order

producerVars == <<pc, node, prevHead>>
consumerVars == <<cpc, ctail, cnext, result>>
vars == <<head, tail, next, data, allocated, producerVars, consumerVars, life, chain>>

\* The objects in the queue: the data of every node behind the front one.
DataBehindFront(c, d) == [i \in 1 .. Len(c) - 1 |-> d[c[i + 1]]]
queue == DataBehindFront(chain, data)

\* Only the front node is left, and its Data is not in the queue.
Empty == Len(chain) = 1

\* Objects that some producer is about to enqueue.
InHand == {data[node[p]] : p \in {r \in Producers : pc[r] = "exchange"}}

\* Objects nobody has passed to the queue: a caller may enqueue them.
Free == Items \ (Range(queue) \union InHand)

Init ==
    \E n \in Nodes :
        /\ head = n
        /\ tail = n
        /\ next = [m \in Nodes |-> NULL]
        /\ data = [m \in Nodes |-> NULL]
        /\ allocated = {n}
        /\ pc = [p \in Producers |-> "idle"]
        /\ node = [p \in Producers |-> NULL]
        /\ prevHead = [p \in Producers |-> NULL]
        /\ cpc = "idle"
        /\ ctail = NULL
        /\ cnext = NULL
        /\ result = NULL
        /\ life = "live"
        /\ chain = <<n>>
-----------------------------------------------------------------------------
(* Enqueue *)

\* Node(T*): `Next.store(nullptr)`.
NewNodeNext(n) == [next EXCEPT ![n] = NULL]

\* `new Node(input)`: a fresh address, Data set, Next stored as nullptr.
EnqueueNew(p) ==
    /\ life = "live"
    /\ pc[p] = "idle"
    /\ \E n \in Nodes \ allocated, v \in Free :
        /\ allocated' = allocated \union {n}
        /\ data' = [data EXCEPT ![n] = v]
        /\ next' = NewNodeNext(n)
        /\ node' = [node EXCEPT ![p] = n]
    /\ pc' = [pc EXCEPT ![p] = "exchange"]
    /\ UNCHANGED <<head, tail, prevHead, consumerVars, life, chain>>

\* `_head.exchange(node)`: the operation takes effect here.
EnqueueExchange(p) ==
    /\ pc[p] = "exchange"
    /\ prevHead' = [prevHead EXCEPT ![p] = head]
    /\ head' = node[p]
    /\ chain' = Append(chain, node[p])
    /\ pc' = [pc EXCEPT ![p] = "link"]
    /\ UNCHANGED <<tail, next, data, allocated, node, consumerVars, life>>

\* What `prevHead->Next.store(node)` leaves in memory.
LinkForgotten(p) == next
Link(p) == [next EXCEPT ![prevHead[p]] = node[p]]

\* `prevHead->Next.store(node)`; Enqueue returns and its locals are gone.
EnqueueLink(p) ==
    /\ pc[p] = "link"
    /\ next' = Link(p)
    /\ pc' = [pc EXCEPT ![p] = "idle"]
    /\ node' = [node EXCEPT ![p] = NULL]
    /\ prevHead' = [prevHead EXCEPT ![p] = NULL]
    /\ UNCHANGED <<head, tail, data, allocated, consumerVars, life, chain>>
-----------------------------------------------------------------------------
(* Dequeue, by the one consumer, and by the destructor *)

Consuming == life \in {"live", "destructing"} /\ cpc = "idle"

\* `next == nullptr`.
NothingToTakeByHead == tail = head
NothingToTakeButLast == next[tail] \in {NULL, head}
NothingToTake == next[tail] = NULL

\* Dequeue finds no next node and returns false.  In the destructor this ends
\* the loop, and the front node is deleted.
DequeueEmpty ==
    /\ Consuming
    /\ NothingToTake
    /\ IF life = "live"
       THEN UNCHANGED <<allocated, life>>
       ELSE /\ allocated' = allocated \ {head}
            /\ life' = "dead"
    /\ UNCHANGED <<head, tail, next, data, producerVars, consumerVars, chain>>

DequeueLoad ==
    /\ Consuming
    /\ ~ NothingToTake
    /\ ctail' = tail
    /\ cnext' = next[tail]
    /\ cpc' = "take"
    /\ UNCHANGED <<head, tail, next, data, allocated, producerVars, result, life, chain>>

\* `next->Data`.
DataOfTail == data[ctail]
DataOfNext == data[cnext]

\* `result = next->Data; _tail.store(next)`: the operation takes effect here.
DequeueTake ==
    /\ cpc = "take"
    /\ result' = DataOfNext
    /\ tail' = cnext
    /\ chain' = Tail(chain)
    /\ cpc' = "delete"
    /\ UNCHANGED <<head, next, data, allocated, producerVars, ctail, cnext, life>>

\* `delete tail`: the memory keeps its content until it is allocated again.
TailDeleted == allocated \ {ctail}

DequeueDelete ==
    /\ cpc = "delete"
    /\ allocated' = TailDeleted
    /\ cpc' = "idle"
    /\ ctail' = NULL
    /\ cnext' = NULL
    /\ UNCHANGED <<head, tail, next, data, producerVars, result, life, chain>>

\* The destructor starts when no thread is inside the queue any more.
Destruct ==
    /\ life = "live"
    /\ cpc = "idle"
    /\ \A p \in Producers : pc[p] = "idle"
    /\ life' = "destructing"
    /\ UNCHANGED <<head, tail, next, data, allocated, producerVars, consumerVars, chain>>

Enqueue(p) == EnqueueNew(p) \/ EnqueueExchange(p) \/ EnqueueLink(p)
Dequeue == DequeueEmpty \/ DequeueLoad \/ DequeueTake \/ DequeueDelete

Next == (\E p \in Producers : Enqueue(p)) \/ Dequeue \/ Destruct

Spec == Init /\ [][Next]_vars

\* A started Enqueue finishes; the consumer keeps polling.
FairSpec ==
    /\ Spec
    /\ \A p \in Producers : WF_vars(EnqueueExchange(p) \/ EnqueueLink(p))
    /\ WF_vars(Dequeue)
-----------------------------------------------------------------------------
(* Correctness *)

TypeOK ==
    /\ head \in Nodes
    /\ tail \in Nodes
    /\ next \in [Nodes -> Nodes \union {NULL}]
    /\ data \in [Nodes -> Items \union {NULL}]
    /\ allocated \in SUBSET Nodes
    /\ pc \in [Producers -> {"idle", "exchange", "link"}]
    /\ node \in [Producers -> Nodes \union {NULL}]
    /\ prevHead \in [Producers -> Nodes \union {NULL}]
    /\ cpc \in {"idle", "take", "delete"}
    /\ ctail \in Nodes \union {NULL}
    /\ cnext \in Nodes \union {NULL}
    /\ result \in Items \union {NULL}
    /\ life \in {"live", "destructing", "dead"}
    /\ chain \in Seq(Nodes)

\* Every address the next step of a thread dereferences, publishes or deletes
\* is a live node: a producer parked between the exchange and the store to
\* prevHead->Next never writes into a node that the consumer has deleted, and
\* the consumer never deletes a node twice.
NoUseAfterFree ==
    /\ life # "dead" => head \in allocated /\ tail \in allocated
    /\ \A p \in Producers : pc[p] = "exchange" => node[p] \in allocated
    /\ \A p \in Producers : pc[p] = "link" => {node[p], prevHead[p]} \subseteq allocated
    /\ cpc = "take" => cnext \in allocated
    /\ cpc = "delete" => ctail \in allocated /\ ctail # tail

\* The producer that is between its exchange and its link for the i-th gap.
Linking(i) ==
    \E p \in Producers :
        /\ pc[p] = "link"
        /\ prevHead[p] = chain[i]
        /\ node[p] = chain[i + 1]

\* From _tail to _head the nodes are those in exchange order; a Next pointer
\* that is still nullptr before _head is one a producer has yet to store.
ListShape ==
    /\ Len(chain) >= 1
    /\ chain[1] = tail
    /\ chain[Len(chain)] = head
    /\ \A i, j \in 1 .. Len(chain) : chain[i] = chain[j] => i = j
    /\ next[head] = NULL
    /\ \A i \in 1 .. Len(chain) - 1 :
          next[chain[i]] = chain[i + 1] \/ (next[chain[i]] = NULL /\ Linking(i))
    /\ \A i \in 2 .. Len(chain) : data[chain[i]] \in Items

\* A producer owns its node until the exchange, and the Next pointer of
\* prevHead from the exchange to the link; no two producers share either.
ProducersOwn ==
    /\ \A p \in Producers : pc[p] = "exchange" =>
          /\ node[p] \in Nodes \ Range(chain)
          /\ next[node[p]] = NULL
          /\ data[node[p]] \in Items
    /\ \A p \in Producers : pc[p] = "link" =>
          \E i \in 1 .. Len(chain) - 1 :
              /\ prevHead[p] = chain[i]
              /\ node[p] = chain[i + 1]
              /\ next[chain[i]] = NULL
    /\ \A p, r \in Producers :
          pc[p] # "idle" /\ pc[r] = pc[p] /\ node[p] = node[r] => p = r

\* What the consumer holds inside Dequeue: the first two nodes of the list,
\* then the node it has unlinked and alone still knows.
ConsumerOwns ==
    /\ cpc = "take" => /\ Len(chain) >= 2
                       /\ ctail = tail
                       /\ cnext = chain[2]
                       /\ next[tail] = cnext
    /\ cpc = "delete" => /\ ctail \in Nodes \ Range(chain)
                         /\ \A p \in Producers : pc[p] = "exchange" => node[p] # ctail

\* The destructor runs alone, and leaves the list empty.
Lifetime ==
    /\ life # "live" => \A p \in Producers : pc[p] = "idle"
    /\ life = "dead" => cpc = "idle" /\ Len(chain) = 1

\* Exactly the nodes in use are allocated: nothing leaks while the queue lives,
\* and after the destructor no node and no object is left behind.
NoLeak ==
    /\ life # "dead" =>
         allocated = Range(chain)
                     \union {node[p] : p \in {r \in Producers : pc[r] = "exchange"}}
                     \union (IF cpc = "delete" THEN {ctail} ELSE {})
    /\ life = "dead" => allocated = {} /\ Empty

\* The inductive invariant: the shape of the list and who owns which node.
\* It holds at every step of every interleaving of Enqueue and Dequeue.
ListInv == ListShape /\ ProducersOwn /\ ConsumerOwns /\ Lifetime

\* In every state of Enqueue, Dequeue and the destructor the list is well formed, no
\* deleted node is about to be touched, and no node is lost.
Inv == TypeOK /\ ListInv /\ NoUseAfterFree /\ NoLeak

\* Dequeue returns false only if there is nothing to return, or if the Enqueue
\* of the oldest object has not stored its link yet.
MissIsHonest ==
    [][DequeueEmpty => Empty \/ (life = "live" /\ Linking(1))]_vars

\* The list behaves as a FIFO queue whose Enqueue takes effect at the exchange
\* and whose Dequeue takes effect at the store to _tail.
Fifo == INSTANCE FifoQueue WITH q <- queue, out <- result, None <- NULL
RefinesFifo == Fifo!FifoSpec

\* Every enqueued object is eventually dequeued (or drained by the destructor).
Delivered == \A v \in Items : (v \in Range(queue)) ~> (v \notin Range(queue))
=============================================================================
