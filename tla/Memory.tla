-------------------------------- MODULE Memory --------------------------------
(***************************************************************************)
(* The components that manage memory: the ring buffer, the two memory      *)
(* pools and the two leak detectors.  They do not interact: a behaviour    *)
(* runs one of them, and the variables of the others keep their initial    *)
(* values.                                                                 *)
(***************************************************************************)
EXTENDS Integers

CONSTANTS RingBytes, RingSizes, Modulus, MaxAdd,           \* of RingBuffer
          MAX_PAGE_SIZE, MinBlock, PtrSize, BlockSizes,    \* of FixedBlockPool
          Max, MaxNodes,                                   \* of UnfixedPool
          LeakThreads, HookThreads, Addr, None, Limits, MaxMallocs

ASSUME MemoryAssumption ==
    /\ MAX_PAGE_SIZE \in Nat /\ MinBlock \in Nat \ {0} /\ PtrSize \in Nat /\ BlockSizes \subseteq Nat
    /\ Max \in Nat /\ MaxNodes \in Nat \ {0}
    /\ Limits \subseteq Nat /\ MaxMallocs \in Nat /\ None \notin Addr

VARIABLES running   \* the component that runs

VARIABLES size, head, tail, buf, bytes, ret, aborted
ring == <<size, head, tail, buf, bytes, ret, aborted>>
Ring == INSTANCE RingBuffer WITH Bytes <- RingBytes, Sizes <- RingSizes

\* 2^32 and the sizes buffer_new gives.
ASSUME RingAssumption ==
    /\ Modulus \in Nat /\ Modulus > 2
    /\ \A n \in Ring!PowersOfTwo : Modulus % n = 0

VARIABLES block_size, free_count, free_ptr, link, live, lastAlloc
fixed == <<block_size, free_count, free_ptr, link, live, lastAlloc>>
Fixed == INSTANCE FixedBlockPool WITH Sizes <- BlockSizes

VARIABLES first, current, used, next, nodes, blocks, wild
unfixed == <<first, current, used, next, nodes, blocks, wild>>
Unfixed == INSTANCE UnfixedPool WITH free_ptr <- used

VARIABLES heap, files, pc, p, given, badFree
leak == <<heap, files, pc, p, given, badFree>>
Leak == INSTANCE MemLeak WITH Threads <- LeakThreads

VARIABLES users, limit, enable_malloc, enable_free, hheap, hfiles, open, hpc, hp,
          owned, mallocs, refused, failed
hook == <<users, limit, enable_malloc, enable_free, hheap, hfiles, open, hpc, hp,
          owned, mallocs, refused, failed>>
Hook == INSTANCE MemLeakHook
            WITH Threads <- HookThreads, heap <- hheap, files <- hfiles, pc <- hpc, p <- hp

vars == <<running, ring, fixed, unfixed, leak, hook>>

-----------------------------------------------------------------------------
\* The component that runs starts in any of its initial states, the others in one.
Start(component) ==
    /\ running = component
    /\ Ring!Init /\ Fixed!Init /\ Unfixed!Init /\ Leak!Init /\ Hook!Init
    /\ running # "ring" => size = Ring!NewSize(CHOOSE sz \in RingSizes : TRUE)
    /\ running # "fixed" => block_size = Fixed!BlockSize(CHOOSE sz \in BlockSizes : TRUE)
    /\ running # "hook" => users = HookThreads /\ limit = CHOOSE l \in Limits : TRUE

Init == \E component \in {"ring", "fixed", "unfixed", "leak", "hook"} : Start(component)

Next ==
    /\ UNCHANGED running
    /\ \/ running = "ring" /\ Ring!Next /\ UNCHANGED <<fixed, unfixed, leak, hook>>
       \/ running = "fixed" /\ Fixed!Next /\ UNCHANGED <<ring, unfixed, leak, hook>>
       \/ running = "unfixed" /\ Unfixed!Next /\ UNCHANGED <<ring, fixed, leak, hook>>
       \/ running = "leak" /\ Leak!Next /\ UNCHANGED <<ring, fixed, unfixed, hook>>
       \/ running = "hook" /\ Hook!Next /\ UNCHANGED <<ring, fixed, unfixed, leak>>

Spec == Init /\ [][Next]_vars

-----------------------------------------------------------------------------
\* ringbuffer.c: the array holds the bytes added and not yet taken, in order, the
\* masks get a power of two and the counters stay a size apart at most; buffer_remove
\* gives the oldest bytes of a full buffer, and of another those that lie in one piece
\* and are no more than the array has from the tail on; buffer_search gives the first
\* occurrence in data that lies in one piece.
RingKeepsBytes ==
    Ring!HoldsTheBytes /\ Ring!CountersOK /\ Ring!RemoveGivesOldest /\ Ring!SearchFinds

\* No memory of a pool has two owners.  mempool_fixed_block.c: the free list holds
\* exactly the blocks that are not in use and, if there is room, ends in the page.
\* mempool_unfixed.c: blocks do not overlap, none no larger than a node leaves its node,
\* and until mp_dest mp_alloc looks at every node before it makes one and at no freed one.
PoolsAreDisjoint ==
    /\ Fixed!TypeOK /\ Fixed!FreeListOK /\ Fixed!LinksInPage
    /\ Unfixed!TypeOK /\ Unfixed!BlocksDisjoint /\ Unfixed!AllNodesSearched

\* The leak detectors.  memleak.c: outside the calls, memory is in use exactly when it
\* has a file, and a pointer freed twice is given back to the heap once.
\* memleak_hook.c: no block the program owns is given back, whatever goes wrong; and as
\* long as fopen works the files tell every leak of a program with one thread, and
\* nothing else until it calls free(NULL).
FilesTellLeaks ==
    /\ Leak!TypeOK /\ Leak!FilesTellLeaks /\ Leak!NoDoubleFree
    /\ Hook!TypeOK /\ Hook!OwnedIsAllocated /\ Hook!SingleThread
    /\ Hook!FilesTellLeaks /\ Hook!NoFalseAlarm
=============================================================================
