----------------------------- MODULE MemoryPool -----------------------------
(***************************************************************************)
(* memory::MemoryPool and the ObjectPool on top of it                      *)
(* (src/core/memory/memory_pool.hpp): chunks of blocks and a linked list   *)
(* of the free ones.  allocate and deallocate hold mutex_ throughout and   *)
(* are one action each; ObjectPool constructs and destroys its objects     *)
(* outside the lock.  A block is the pair of its chunk and its index in it. *)
(***************************************************************************)
EXTENDS Naturals, Sequences

CONSTANTS
    BlocksPerChunk,   \* the template parameter, at least 1
    SizeofBlock,      \* sizeof(Block), at least 1
    MaxChunks         \* bound: chunks that aligned_alloc grants

VARIABLES
    chunks,        \* the number of chunks in chunks_
    free_blocks,   \* free_blocks_ and what follows it
    lent,          \* history: the blocks clients have
    objects,       \* the blocks that hold a constructed object
    lost           \* history: blocks that nobody can give back any more

vars == <<chunks, free_blocks, lent, objects, lost>>

Blocks == (1 .. chunks) \X (0 .. BlocksPerChunk - 1)

Init ==
    /\ chunks = 0
    /\ free_blocks = <<>>
    /\ lent = {}
    /\ objects = {}
    /\ lost = {}

\* A new chunk's blocks, each linked to the next and the last to none.
Chunk(c) == [i \in 1 .. BlocksPerChunk |-> <<c, i - 1>>]

\* The first free block is taken off the list, after allocateChunk has made a
\* new list if there was none.  allocate throws when aligned_alloc refuses.
allocateChunk ==
    \/ free_blocks # <<>> /\ UNCHANGED chunks /\ free_blocks' = Tail(free_blocks)
    \/ /\ free_blocks = <<>> /\ chunks < MaxChunks
       /\ chunks' = chunks + 1
       /\ free_blocks' = Tail(Chunk(chunks'))

\* What allocate returns.
allocated == IF free_blocks # <<>> THEN Head(free_blocks) ELSE <<chunks + 1, 0>>

allocate ==
    /\ allocateChunk
    /\ lent' = lent \cup {allocated}
    /\ UNCHANGED <<objects, lost>>

\* The second half of ObjectPool::allocate, when T's constructor returns.
construct(b) ==
    /\ b \in lent
    /\ objects' = objects \cup {b}
    /\ UNCHANGED <<chunks, free_blocks, lent, lost>>

\* When T's constructor throws, the caller never learns of the block.
constructorThrows(b) ==
    /\ b \in lent \ objects
    /\ lent' = lent \ {b}
    /\ lost' = lost \cup {b}
    /\ UNCHANGED <<chunks, free_blocks, objects>>

\* The first half of ObjectPool::deallocate.
destroy(b) ==
    /\ b \in objects
    /\ objects' = objects \ {b}
    /\ UNCHANGED <<chunks, free_blocks, lent, lost>>

\* The distance from the chunk is one in blocks, and is divided by the size of a
\* block in bytes all the same.
isAddressInPool(b) == b[1] <= chunks /\ b[2] % SizeofBlock = 0

\* Mutant of deallocate: what is thrown at is on the list already.
DeallocateBeforeCheck(b) ==
    /\ b \in lent
    /\ free_blocks' = <<b>> \o free_blocks
    /\ lost' = IF isAddressInPool(b) THEN lost ELSE lost \cup {b}
    /\ lent' = lent \ {b}
    /\ UNCHANGED <<chunks, objects>>

\* deallocate, which throws at a block it does not take for one of its own.  The
\* block is then on no list, and nobody gives it back a second time.
deallocate(b) ==
    /\ b \in lent
    /\ IF isAddressInPool(b)
       THEN free_blocks' = <<b>> \o free_blocks /\ UNCHANGED lost
       ELSE lost' = lost \cup {b} /\ UNCHANGED free_blocks
    /\ lent' = lent \ {b}
    /\ UNCHANGED <<chunks, objects>>

\* ~MemoryPool frees the chunks, with whatever is in them.
release ==
    /\ chunks' = 0 /\ free_blocks' = <<>>
    /\ lent' = {} /\ objects' = {} /\ lost' = {}

Next ==
    \/ allocate \/ release
    \/ \E b \in lent : construct(b) \/ destroy(b)
    \/ \E b \in lent \ objects : deallocate(b) \/ constructorThrows(b)

Spec == Init /\ [][Next]_vars

-----------------------------------------------------------------------------
(* Properties *)

\* The list of free blocks runs through no block twice and through none that a
\* client has or that was lost, and no object lives in a block on it
\* (memory_pool.hpp 29-55 and 72-118).
FreeBlocksAreFree ==
    /\ \A i, j \in DOMAIN free_blocks : i # j => free_blocks[i] # free_blocks[j]
    /\ \A i \in DOMAIN free_blocks :
          /\ free_blocks[i] \in Blocks
          /\ free_blocks[i] \notin lent \cup lost \cup objects

=============================================================================
