---------------------------- MODULE FixedBlockPool ----------------------------
(***************************************************************************)
(* mempool/mempool_fixed_block.c: one page cut into blocks; a free block   *)
(* holds, in its first bytes, the address of the next free one.  Addresses *)
(* are offsets into the page.                                              *)
(***************************************************************************)
EXTENDS Integers

CONSTANTS MAX_PAGE_SIZE, MinBlock,  \* the page, and the smallest block
          PtrSize,                  \* sizeof(char *)
          Sizes                     \* the arguments of mp_init

NULL == -1
Data == -2     \* what the owner of a block has written over the link

VARIABLES block_size, free_count, free_ptr,
          link,       \* the pointer stored at every address that has held one
          live,       \* history: the blocks handed out
          lastAlloc   \* what the last mp_alloc returned

vars == <<block_size, free_count, free_ptr, link, live, lastAlloc>>

BlockSize(size) == IF size < MinBlock THEN MinBlock ELSE size
Count(size) == MAX_PAGE_SIZE \div size
FreeCount(size) == Count(size)

\* The terminator is stored behind the last block.
Terminator(size) == FreeCount(size) * size

\* mp_init: every block points to the address behind it.
mp_init(sz) ==
    LET size == BlockSize(sz)
    IN  /\ block_size = size
        /\ free_count = FreeCount(size)
        /\ free_ptr = 0
        /\ link = [a \in {i * size : i \in 0 .. FreeCount(size)} |->
                      IF a = Terminator(size) THEN NULL ELSE a + size]
        /\ live = {}
        /\ lastAlloc = NULL

Init == \E sz \in Sizes : mp_init(sz)

Exhausted == free_count = 0

\* mp_alloc returns NULL from an exhausted pool and changes nothing.
mp_alloc ==
    /\ ~Exhausted
    /\ free_ptr' = link[free_ptr]
    /\ free_count' = free_count - 1
    /\ live' = live \cup {free_ptr}
    /\ lastAlloc' = free_ptr
    /\ UNCHANGED <<block_size, link>>

\* The owner of a block uses it.
Use(p) ==
    /\ p \in live
    /\ link' = [link EXCEPT ![p] = Data]
    /\ UNCHANGED <<block_size, free_count, free_ptr, live, lastAlloc>>

LinkToNothing == NULL
LinkToFree == free_ptr

\* mp_free(m, p) of a block that was handed out.
mp_free(p) ==
    /\ p \in live
    /\ link' = [link EXCEPT ![p] = LinkToFree]
    /\ free_ptr' = p
    /\ free_count' = free_count + 1
    /\ live' = live \ {p}
    /\ UNCHANGED <<block_size, lastAlloc>>

Next == mp_alloc \/ \E p \in live : Use(p) \/ mp_free(p)

Spec == Init /\ [][Next]_vars

-----------------------------------------------------------------------------
Blocks == {i * block_size : i \in 0 .. FreeCount(block_size) - 1}

\* Every variable keeps its type; no address but those of mp_init ever holds a link.
TypeOK ==
    /\ block_size \in Nat \ {0} /\ free_count \in Nat /\ free_ptr \in Int /\ lastAlloc \in Int
    /\ link \in [{i * block_size : i \in 0 .. FreeCount(block_size)} -> Int]
    /\ live \subseteq Blocks

\* w is the list from free_ptr, of free_count blocks, none of them twice.
IsFreeList(w) ==
    /\ free_count > 0 => w[1] = free_ptr
    /\ \A i \in 1 .. free_count - 1 : link[w[i]] = w[i + 1]
    /\ \A i, j \in 1 .. free_count : w[i] = w[j] => i = j
    /\ \A a \in Blocks \ live : \E i \in 1 .. free_count : w[i] = a

\* The list from free_ptr holds, free_count links long, exactly the blocks that are not
\* handed out, whatever their owners wrote into them and in whatever order they came
\* back; every block lies in the page.
FreeListOK ==
    /\ \E w \in [1 .. free_count -> Blocks \ live] : IsFreeList(w)
    /\ \A p \in live : p + block_size <= MAX_PAGE_SIZE

\* All links, the terminator behind the last block included, are stored in the page
\* when the blocks leave the room of a pointer at its end.  (When they do not, as
\* with the size 32 of main, mp_init stores the terminator outside.)
LinksInPage ==
    MAX_PAGE_SIZE % block_size >= PtrSize =>
        \A a \in DOMAIN link : a + PtrSize <= MAX_PAGE_SIZE
=============================================================================
