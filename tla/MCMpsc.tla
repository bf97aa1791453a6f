-------------------------------- MODULE MCMpsc --------------------------------
(***************************************************************************)
(* The two queues of MPSCQueue.h with three producers and one consumer.  A *)
(* behaviour runs one of them; the variables of the other keep their       *)
(* initial values.                                                         *)
(***************************************************************************)
EXTENDS MPSCQueueNonIntrusive

CONSTANTS c, d, dummy

VARIABLES running,   \* "nodes", the non-intrusive queue, or "links", the intrusive one
          ihead, itail, link, ipc, input, preHead, dpc, dtail, dnext, iresult, ilife, ichain, excused

links == <<ihead, itail, link, ipc, input, preHead, dpc, dtail, dnext, iresult, ilife, ichain, excused>>
Links == INSTANCE MPSCQueueIntrusive
            WITH Items <- Items \cup {d}, Consumer <- c, Dummy <- dummy, head <- ihead, tail <- itail, pc <- ipc,
                 result <- iresult, life <- ilife, chain <- ichain

MCInit == running \in {"nodes", "links"} /\ Init /\ Links!Init

MCNext ==
    \/ running = "nodes" /\ Next /\ UNCHANGED <<running, links>>
    \/ running = "links" /\ Links!Next /\ UNCHANGED <<running, vars>>

\* A started Enqueue goes on, and the consumer keeps calling Dequeue.
MCFairness ==
    /\ \A p \in Producers : WF_vars(running = "nodes" /\ (EnqueueExchange(p) \/ EnqueueLink(p)))
    /\ WF_vars(running = "nodes" /\ Dequeue)
    /\ \A t \in Links!Threads :
          WF_links(running = "links" /\ (Links!EnqueueExchange(t) \/ Links!EnqueueLink(t)))
    /\ WF_links(running = "links" /\ Links!Dequeue)

MCSpec == MCInit /\ [][MCNext]_<<running, vars, links>> /\ MCFairness

\* The intrusive queue: in every state of Enqueue, Dequeue and the destructor the list
\* with its travelling dummy is well formed and no returned object is about to be
\* touched; the objects come out in the order of the exchanges, the dummy never; and
\* Dequeue returns false only if in the call the queue was empty or a link was missing.
LinksInOrder == []Links!Inv /\ Links!RefinesFifo /\ Links!MissIsExcused

\* Both queues: a consumer that keeps calling Dequeue receives every enqueued object,
\* as long as a started Enqueue does not stall for ever.
AllDelivered == Delivered /\ Links!Delivered
=============================================================================
