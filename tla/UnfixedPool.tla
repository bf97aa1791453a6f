----------------------------- MODULE UnfixedPool -----------------------------
(***************************************************************************)
(* mempool/mempool_unfixed.c: nodes of one size from which blocks of any   *)
(* size that is not negative are cut; a block is never given back, the     *)
(* pool is destroyed as a whole, and mp_alloc may be called after that.    *)
(* What a freed node holds is unknown.                                     *)
(***************************************************************************)
EXTENDS Integers

CONSTANTS Max,        \* the bytes of a node behind its header
          MaxNodes    \* bound on the nodes malloc gives

NULL == 0

VARIABLES first, current,
          free_ptr,   \* of every node, how much of it is used
          next,       \* of every node
          nodes,      \* the nodes allocated and not freed
          blocks,     \* history: the blocks of bytes cut from these nodes, [node, from, size]
          wild        \* history: mp_alloc gave memory of a freed node

vars == <<first, current, free_ptr, next, nodes, blocks, wild>>

\* mp_init
Init ==
    /\ first = 1 /\ current = 1
    /\ free_ptr = [n \in 1 .. MaxNodes |-> 0]
    /\ next = [n \in 1 .. MaxNodes |-> NULL]
    /\ nodes = {1}
    /\ blocks = {}
    /\ wild = FALSE

Fits(n, size) == size <= Max - free_ptr[n]

\* The nodes from n on: the least set that holds n and what the nodes in it point to.
Closed(S) == \A m \in S : next[m] = NULL \/ next[m] \in S
From(n) ==
    {k \in 1 .. MaxNodes :
        \A S \in SUBSET (1 .. MaxNodes) : (n = NULL \/ n \in S) /\ Closed(S) => k \in S}

\* The nodes mp_alloc looks at: from current on, up to one with room or a freed one.
GoesOn(m, size) == m \in nodes /\ ~Fits(m, size) /\ next[m] # NULL
Searched(size) ==
    {k \in 1 .. MaxNodes :
        \A S \in SUBSET (1 .. MaxNodes) :
            current \in S /\ (\A m \in S : GoesOn(m, size) => next[m] \in S) => k \in S}
Freed(size) == Searched(size) \ nodes
SearchEnds(size) == \E m \in Searched(size) \cap nodes : ~Fits(m, size) /\ next[m] = NULL

Unmoved(from, size) == from                                  \* mutant of Used
Used(from, size) == from + size

Cut(n, from, size) ==
    /\ blocks' = blocks \cup {[node |-> n, from |-> from, size |-> sz] : sz \in {size} \ {0}}
    /\ free_ptr' = [free_ptr EXCEPT ![n] = Used(from, size)]

mp_allocOld(size) ==
    /\ \E n \in Searched(size) \cap nodes : Fits(n, size) /\ Cut(n, free_ptr[n], size)
    /\ UNCHANGED <<first, current, next, nodes, wild>>

\* A new node in front of the others, also when the last one looked at is freed memory
\* that seems full and last.  Without memory for it the store through NULL ends the process.
mp_allocNew(size) ==
    /\ SearchEnds(size) \/ Freed(size) # {}
    /\ \E n \in (1 .. MaxNodes) \ nodes :
        /\ nodes' = nodes \cup {n}
        /\ next' = [next EXCEPT ![n] = current]
        /\ current' = n
        /\ Cut(n, 0, size)
    /\ UNCHANGED <<first, wild>>

\* Freed memory that seems to have room, as main gets it for p5.
mp_allocFreed(size) ==
    /\ Freed(size) # {}
    /\ wild' = TRUE
    /\ UNCHANGED <<first, current, free_ptr, next, nodes, blocks>>

\* mp_dest frees the nodes from first on; a second call does nothing.
mp_dest ==
    /\ nodes' = nodes \ From(first)
    /\ blocks' = {b \in blocks : b.node \notin From(first)}
    /\ first' = NULL
    /\ UNCHANGED <<current, free_ptr, next, wild>>

Next ==
    \/ mp_dest
    \/ \E size \in 0 .. Max + 1 : mp_allocOld(size) \/ mp_allocNew(size) \/ mp_allocFreed(size)

Spec == Init /\ [][Next]_vars

-----------------------------------------------------------------------------
\* Every variable keeps its type.
TypeOK ==
    /\ nodes \subseteq 1 .. MaxNodes
    /\ first \in 0 .. MaxNodes /\ current \in 1 .. MaxNodes
    /\ free_ptr \in [1 .. MaxNodes -> Nat]
    /\ next \in [1 .. MaxNodes -> 0 .. MaxNodes]
    /\ blocks \subseteq [node : 1 .. MaxNodes, from : Nat, size : Nat]
    /\ wild \in BOOLEAN

\* No two blocks share a byte, every block lies in the used part of a node that is not
\* freed, and none reaches past its node but one that was asked larger than a node.
Overlap(a, b) == a.node = b.node /\ a.from < b.from + b.size /\ b.from < a.from + a.size
BlocksDisjoint ==
    /\ \A a, b \in blocks : a # b => ~Overlap(a, b)
    /\ \A b \in blocks :
        /\ b.node \in nodes /\ b.from + b.size <= free_ptr[b.node]
        /\ b.size <= Max => b.from + b.size <= Max

\* No room is forgotten: until mp_dest the nodes from current on are all of the pool,
\* and none that mp_alloc looks at is freed.
AllNodesSearched ==
    /\ first # NULL => From(current) = nodes /\ current \in nodes /\ Closed(nodes)
    /\ wild => first = NULL
=============================================================================
