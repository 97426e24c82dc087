--------------------------- MODULE HandoverProofs ---------------------------
(***************************************************************************)
(* Proofs about Handover, and with it about LockFreeQueue and MemoryPool,  *)
(* for any producers, consumers, addresses, sizes of chunks and bounds.    *)
(*                                                                         *)
(* The queue's proof names the node of each item ever put (ListInv): from  *)
(* the head on they are linked in order, and the tail is the last or, until *)
(* a push that has linked its node moves it, the one before.  A push that  *)
(* is not alone has met no pop, so that what it loaded is still linked; one *)
(* that has met a pop is alone, so that what it loaded is the last node,   *)
(* which no pop deletes.                                                   *)
(***************************************************************************)
EXTENDS Handover, DataLemmas

Pairs == Nat \X Nat

\* A node for each item put, and for the one the queue starts with.
Nodes == [0 .. MaxPushes -> Addresses]

\* The head is the node of the last item taken.
Oldest == Len(got)
Newest == Len(put)
InList == Oldest .. Newest

PushPlaces ==
    {"idle", "load tail", "load next", "check tail", "link", "help", "swing", "count"}
PopPlaces == {"idle", "load head's next", "take", "read data", "delete", "discount"}
Places == PushPlaces \cup PopPlaces

\* A push that has not linked its node, and one that has loaded a tail.
Trying(p) == at[p] \in {"load tail", "load next", "check tail", "link", "help"}
HasTail(p) == at[p] \in {"load next", "check tail", "link", "help"}

\* A push that has linked its node.
HasPut(p) == at[p] \in {"swing", "count"}

\* A pop that has taken an item, and one that is still to delete the node before it.
HasTaken(c) == at[c] \in {"read data", "delete", "discount"}
Deleting(c) == at[c] \in {"read data", "delete"}

NodeOrNone == Addresses \cup {NoNode}
Locals == [new : NodeOrNone, old : NodeOrNone, next : NodeOrNone, null : NodeOrNone]

\* The shape of the queue's members and of what the threads have.
QueueTypes ==
    /\ at \in [Threads -> Places]
    /\ \A p \in Producers : at[p] \in PushPlaces
    /\ \A c \in Consumers : at[c] \in PopPlaces
    /\ local \in [Threads -> Locals]
    /\ next \in [Addresses -> NodeOrNone]
    /\ data \in [Addresses -> Pairs \cup {Nothing}]
    /\ live \subseteq Addresses
    /\ put \in Seq(Pairs)
    /\ got \in Seq(Pairs)
    /\ hand \in [Threads -> Pairs \cup {Nothing}]

\* What the careful client keeps to.
Discipline ==
    /\ \A c, d \in Queue!Popping : c = d
    /\ \A p, q \in Queue!Pushing : p # q => met = "push"
    /\ Queue!Pushing # {} /\ Queue!Popping # {} => met = "pop"

-----------------------------------------------------------------------------
(* The list *)

\* The nodes from the head on are those of the items put and not taken, in order.
ListIs(N) ==
    /\ Oldest <= Newest
    /\ head = N[Oldest]
    /\ \A i \in InList :
          /\ N[i] \in live
          /\ \A j \in InList : N[i] = N[j] => i = j
          /\ next[N[i]] = IF i = Newest THEN NoNode ELSE N[i + 1]
          /\ i > 0 => data[N[i]] = put[i]
    /\ \A i \in 1 .. Oldest : got[i] = put[i]

\* The tail is the last node or, which a push knows of, the one before.  That one
\* may have been popped and deleted.
TailIs(N) ==
    \/ tail = N[Newest]
    \/ /\ 0 < Newest /\ tail = N[Newest - 1]
       /\ \E p \in Producers :
             at[p] = "swing" /\ local[p].old = N[Newest - 1] /\ local[p].new = N[Newest]
       /\ met # "pop" => Oldest < Newest

\* A failed compare-exchange has brought the node that another push linked.
OthersNode(N, a) == met = "push" /\ \E j \in Oldest + 1 .. Newest : a = N[j]

\* A push has a node of its own until it links it.
NewNode(N, p) ==
    /\ local[p].new \in live
    /\ \A i \in InList : local[p].new # N[i]
    /\ next[local[p].new] = NoNode
    /\ data[local[p].new] = hand[p]
    /\ \A q \in Producers : Trying(q) /\ local[q].new = local[p].new => q = p
    /\ local[p].null # NoNode => OthersNode(N, local[p].null)

\* The tail a push has loaded is not ahead of the tail, and what it has loaded of
\* its next was right.
OldTail(N, p) ==
    \E i \in InList :
        /\ local[p].old = N[i]
        /\ met # "push" => i = Newest
        /\ i = Newest => tail = N[Newest]
        /\ at[p] # "load next" =>
              \/ i < Newest /\ local[p].next = N[i + 1]
              \/ /\ local[p].next = NoNode
                 /\ local[p].null # NoNode => \E j \in Oldest + 1 .. i : local[p].null = N[j]
        /\ at[p] = "link" => local[p].next = NoNode
        /\ at[p] = "help" => local[p].next # NoNode

\* A push that has linked its node knows the one before it.
Swings(N, p) ==
    \E i \in 1 .. Newest :
        /\ local[p].old = N[i - 1] /\ local[p].new = N[i]
        /\ met # "push" => i = Newest
        /\ met # "pop" => Oldest <= i - 1

PushKnows(N, p) ==
    /\ Trying(p) => NewNode(N, p)
    /\ HasTail(p) => OldTail(N, p)
    /\ at[p] = "swing" => Swings(N, p)

\* What a pop has loaded is right, and the node it is to delete is nobody else's.
PopKnows(N, c) ==
    /\ at[c] \in {"load head's next", "take"} => local[c].old = head
    /\ at[c] = "take" => Oldest < Newest /\ local[c].next = N[Oldest + 1]
    /\ HasTaken(c) => 0 < Oldest /\ local[c].next = N[Oldest]
    /\ Deleting(c) =>
          /\ local[c].old \in live
          /\ \A i \in InList : local[c].old # N[i]
          /\ \A p \in Producers : Trying(p) => local[p].new # local[c].old

\* Every node is in the list, of a push or about to be deleted.
NodesAreKnown(N) ==
    \A a \in live :
        \/ \E i \in InList : a = N[i]
        \/ \E p \in Producers : Trying(p) /\ a = local[p].new
        \/ \E c \in Consumers : Deleting(c) /\ a = local[c].old

ListInv(N) ==
    /\ ListIs(N) /\ TailIs(N) /\ NodesAreKnown(N)
    /\ \A p \in Producers : PushKnows(N, p)
    /\ \A c \in Consumers : PopKnows(N, c)

-----------------------------------------------------------------------------
(* The size, the pool and the blocks *)

Linked == {p \in Producers : HasPut(p)}
Popped == IF \E c \in Consumers : HasTaken(c) THEN 1 ELSE 0

\* size_ lacks the pushes that are still to count and has the pop that is.
SizeIsRight == size = (Newest - Oldest + Popped - Cardinality(Linked)) % SizeModulus

\* The pushes that were begun and have not put their item.
Beginning == {p \in Producers : hand[p] # Nothing /\ ~HasPut(p)}

Bounded == Newest + Cardinality(Beginning) <= MaxPushes

\* The pool's own invariant: every block is free, lent or lost.
PoolInv ==
    /\ chunks \in 0 .. MaxChunks
    /\ free_blocks \in Seq(Pairs)
    /\ lent \subseteq Pool!Blocks
    /\ lost \subseteq Pool!Blocks
    /\ lent \cap lost = {}
    /\ objects \subseteq lent
    /\ \A b \in Pool!Blocks :
          b \in lent \/ b \in lost \/ \E i \in DOMAIN free_blocks : free_blocks[i] = b
    /\ Pool!FreeBlocksAreFree

\* A thread has the block in its hand until it has put it.
Holding(t) == IF HasPut(t) THEN Nothing ELSE hand[t]

\* The i-th item was put, and no pop has returned it.
Queued(i) == i \in 1 .. Newest /\ Oldest < i + Popped

\* Every lent block is in the queue or in one thread's hand, and only there.
LentAreHeld ==
    /\ \A b \in lent :
          \/ \E i \in 1 .. Newest : Queued(i) /\ put[i] = b
          \/ \E t \in Threads : Holding(t) = b
    /\ \A i \in 1 .. Newest : Queued(i) =>
          /\ put[i] \in lent
          /\ \A j \in 1 .. Newest : Queued(j) /\ put[i] = put[j] => i = j
          /\ \A t \in Threads : Holding(t) # put[i]
    /\ \A t \in Threads : Holding(t) # Nothing =>
          /\ Holding(t) \in lent
          /\ \A u \in Threads : Holding(u) = Holding(t) => u = t

\* A pop starts with an empty hand, a push with a block.
HandsAreRight ==
    /\ \A c \in Queue!Popping : hand[c] = Nothing
    /\ \A p \in Queue!Pushing : hand[p] # Nothing

-----------------------------------------------------------------------------
(* The inductive invariant *)

\* The containers are destroyed.
Closed ==
    /\ \A t \in Threads : at[t] = "gone"
    /\ live = {} /\ chunks = 0 /\ free_blocks = <<>> /\ lent = {} /\ objects = {}
    /\ lost = {} /\ hand = [t \in Threads |-> Nothing]

\* What holds besides the list while they stand.
Counted == SizeIsRight /\ Bounded
Standing ==
    /\ QueueTypes /\ Discipline /\ HandsAreRight /\ Counted /\ PoolInv /\ LentAreHeld

IInv == Closed \/ (Standing /\ \E N \in Nodes : ListInv(N))

-----------------------------------------------------------------------------
(* The size *)

\* A remainder is known by the multiple it is left over from.
LEMMA RemainderIs ==
    ASSUME NEW m \in Nat \ {0}, NEW q \in Int, NEW r \in 0 .. m - 1,
           NEW a \in Int, a = m * q + r
    PROVE  a % m = r
OBVIOUS

\* One more or one less wraps around.
LEMMA CountsAround ==
    ASSUME NEW a \in Int, NEW m \in Nat \ {0}
    PROVE  /\ ((a % m) + 1) % m = (a + 1) % m
           /\ ((a % m) + m - 1) % m = (a - 1) % m
<1> DEFINE r == a % m
           q == a \div m
<1>1. a = m * q + r /\ r \in 0 .. m - 1 /\ q \in Int
  OBVIOUS
<1> HIDE DEF r, q
<1>3. /\ m * (q + 1) = m * q + m /\ m * (q - 1) = m * q - m /\ m * q \in Int
      /\ m * 0 = 0 /\ m * 1 = m
  BY <1>1
<1>4. (r + 1) % m = (a + 1) % m
  <2>1. CASE r + 1 < m
    <3>1. a + 1 = m * q + (r + 1) /\ r + 1 = m * 0 + (r + 1) /\ r + 1 \in 0 .. m - 1
      BY <1>1, <1>3, <2>1
    <3>2. (a + 1) % m = r + 1
      BY <1>1, <3>1, RemainderIs
    <3>3. (r + 1) % m = r + 1
      BY <1>1, <3>1, RemainderIs
    <3>4. QED
      BY <3>2, <3>3
  <2>2. CASE r + 1 = m
    <3>1. a + 1 = m * (q + 1) + 0 /\ r + 1 = m * 1 + 0 /\ 0 \in 0 .. m - 1
      BY <1>1, <1>3, <2>2
    <3>2. (a + 1) % m = 0
      BY <1>1, <3>1, RemainderIs
    <3>3. (r + 1) % m = 0
      BY <1>1, <3>1, RemainderIs
    <3>4. QED
      BY <3>2, <3>3
  <2>3. QED
    BY <1>1, <2>1, <2>2
<1> DEFINE s == r + m - 1
<1>5. s % m = (a - 1) % m
  <2>1. CASE r > 0
    <3>1. /\ a - 1 = m * q + (r - 1) /\ s = m * 1 + (r - 1) /\ r - 1 \in 0 .. m - 1
          /\ a - 1 \in Int /\ s \in Int
      BY <1>1, <1>3, <2>1
    <3> HIDE DEF s
    <3>2. (a - 1) % m = r - 1
      BY <1>1, <3>1, RemainderIs
    <3>3. s % m = r - 1
      BY <3>1, RemainderIs
    <3>4. QED
      BY <3>2, <3>3
  <2>2. CASE r = 0
    <3> DEFINE l == m - 1
               d == a - 1
               k == q - 1
    <3>1. /\ d = m * k + l /\ s = m * 0 + l
          /\ l \in 0 .. m - 1 /\ d \in Int /\ s \in Int /\ k \in Int
      BY <1>1, <1>3, <2>2
    <3> HIDE DEF s, l, k
    <3>2. (a - 1) % m = l
      <4> HIDE DEF d
      <4>1. d % m = l
        BY <3>1, RemainderIs
      <4>2. QED
        BY <4>1 DEF d
    <3>3. s % m = l
      BY <3>1, RemainderIs
    <3>4. QED
      BY <3>2, <3>3
  <2>3. QED
    BY <1>1, <2>1, <2>2
<1>6. QED
  BY <1>4, <1>5 DEF r, s

-----------------------------------------------------------------------------
(* The pool *)

\* A new chunk adds its blocks to the pool and takes none away.
LEMMA BlocksOfAChunk ==
    ASSUME chunks \in Nat
    PROVE  /\ Pool!Blocks \subseteq Pairs
           /\ \A i \in 0 .. BlocksPerChunk - 1 :
                 /\ <<chunks + 1, i>> \notin Pool!Blocks
                 /\ <<chunks + 1, i>> \in Pairs
           /\ chunks' = chunks + 1 =>
                 /\ \A b \in Pool!Blocks : b \in Pool!Blocks'
                 /\ \A i \in 0 .. BlocksPerChunk - 1 : <<chunks + 1, i>> \in Pool!Blocks'
                 /\ \A b \in Pool!Blocks' :
                       b \in Pool!Blocks
                       \/ \E i \in 0 .. BlocksPerChunk - 1 : b = <<chunks + 1, i>>
BY ChunksHaveBlocks DEF Pool!Blocks, Pairs

\* A new chunk's list runs through its blocks, each once.
LEMMA ChunkIsAList ==
    ASSUME NEW c \in Nat
    PROVE  /\ Pool!Chunk(c) \in Seq(Pairs)
           /\ Len(Pool!Chunk(c)) = BlocksPerChunk
           /\ \A i \in 1 .. BlocksPerChunk : Pool!Chunk(c)[i] = <<c, i - 1>>
<1>1. \A i \in 1 .. BlocksPerChunk : <<c, i - 1>> \in Pairs
  BY ChunksHaveBlocks DEF Pairs
<1>2. QED
  BY <1>1, ChunksHaveBlocks, IsASeq, LenProperties DEF Pool!Chunk

\* A block taken off the list, or the first of a new chunk, was nobody's.
LEMMA PoolAllocates ==
    ASSUME PoolInv, NEW b, b = Pool!allocated, Pool!allocate
    PROVE  /\ PoolInv'
           /\ lent' = lent \cup {b} /\ b \notin lent /\ b \in Pairs
           /\ objects' = objects
<1> USE DEF Pool!allocate, Pool!allocateChunk
<1>1. CASE free_blocks # <<>> /\ chunks' = chunks /\ free_blocks' = Tail(free_blocks)
  <2> DEFINE n == Len(free_blocks) - 1
  <2>1. /\ lent' = lent \cup {b} /\ UNCHANGED <<objects, lost>>
        /\ Pool!Blocks' = Pool!Blocks /\ chunks' = chunks /\ b = Head(free_blocks)
    BY <1>1 DEF Pool!allocated, Pool!Blocks
  <2>2. /\ b = free_blocks[1] /\ free_blocks' \in Seq(Pairs)
        /\ n \in Nat
        /\ DOMAIN free_blocks = 1 .. (n + 1) /\ DOMAIN free_blocks' = 1 .. n
        /\ \A i \in 1 .. n : free_blocks'[i] = free_blocks[i + 1]
    BY <1>1, <2>1, HeadTailProperties, LenProperties, EmptySeq DEF PoolInv
  <2> HIDE DEF n
  <2>3. /\ 1 \in 1 .. (n + 1)
        /\ \A i \in 1 .. n : i + 1 \in 1 .. (n + 1) /\ i + 1 # 1
    BY <2>2
  <2>4. /\ \A i, j \in 1 .. (n + 1) : i # j => free_blocks[i] # free_blocks[j]
        /\ \A i \in 1 .. (n + 1) :
              /\ free_blocks[i] \in Pool!Blocks
              /\ free_blocks[i] \notin lent \cup lost \cup objects
    BY <2>2 DEF PoolInv, Pool!FreeBlocksAreFree
  <2>5. b \in Pool!Blocks /\ b \notin lent \cup lost \cup objects
    BY <2>2, <2>3, <2>4
  <2>6. b \in Pairs
    BY <2>5, BlocksOfAChunk DEF PoolInv
  <2>7. Pool!FreeBlocksAreFree'
    <3>1. \A i, j \in 1 .. n : i # j => free_blocks'[i] # free_blocks'[j]
      <4>1. \A i, j \in 1 .. n : i # j => i + 1 # j + 1
        BY <2>2
      <4>2. QED
        BY <2>2, <2>3, <2>4, <4>1
    <3>2. \A i \in 1 .. n :
             /\ free_blocks'[i] \in Pool!Blocks /\ free_blocks'[i] # b
             /\ free_blocks'[i] \notin lent \cup lost \cup objects
      BY <2>2, <2>3, <2>4
    <3>3. QED
      BY <2>1, <2>2, <3>1, <3>2 DEF Pool!FreeBlocksAreFree
  <2>8. ASSUME NEW x \in Pool!Blocks
        PROVE  x \in lent' \/ x \in lost \/ \E i \in 1 .. n : free_blocks'[i] = x
    <3>1. x \in lent \/ x \in lost \/ \E i \in 1 .. (n + 1) : free_blocks[i] = x
      BY <2>2 DEF PoolInv
    <3>2. CASE \E i \in 1 .. (n + 1) : free_blocks[i] = x
      <4>1. PICK i \in 1 .. (n + 1) : free_blocks[i] = x
        BY <3>2
      <4>2. CASE i = 1
        BY <2>1, <2>2, <4>1, <4>2
      <4>3. CASE i # 1
        <5>1. i - 1 \in 1 .. n /\ (i - 1) + 1 = i
          BY <2>2, <4>3
        <5>2. QED
          BY <2>2, <4>1, <5>1
      <4>4. QED
        BY <4>2, <4>3
    <3>3. QED
      BY <2>1, <3>1, <3>2
  <2>9. PoolInv'
    <3>1. lent' \subseteq Pool!Blocks' /\ lost' \subseteq Pool!Blocks'
      BY <2>1, <2>5 DEF PoolInv
    <3>2. lent' \cap lost' = {} /\ objects' \subseteq lent'
      BY <2>1, <2>5 DEF PoolInv
    <3>3. chunks' \in 0 .. MaxChunks
      BY <2>1 DEF PoolInv
    <3>4. \A x \in Pool!Blocks' :
             x \in lent' \/ x \in lost' \/ \E i \in DOMAIN free_blocks' : free_blocks'[i] = x
      BY <2>1, <2>2, <2>8
    <3> HIDE DEF Pool!allocate, Pool!allocateChunk
    <3>5. QED
      BY <2>2, <2>7, <3>1, <3>2, <3>3, <3>4 DEF PoolInv
  <2>10. QED
    BY <2>1, <2>5, <2>6, <2>9
<1>2. CASE /\ free_blocks = <<>> /\ chunks' = chunks + 1 /\ chunks < MaxChunks
           /\ free_blocks' = Tail(Pool!Chunk(chunks'))
  <2> DEFINE n == BlocksPerChunk - 1
  <2>1. /\ lent' = lent \cup {b} /\ UNCHANGED <<objects, lost>>
        /\ chunks \in Nat /\ chunks' \in Nat /\ chunks' \in 0 .. MaxChunks /\ n \in Nat
        /\ b = <<chunks + 1, 0>>
    BY <1>2, ChunksHaveBlocks, BoundsAreNumbers DEF Pool!allocated, PoolInv
  <2>2. /\ Pool!Chunk(chunks') \in Seq(Pairs) /\ Len(Pool!Chunk(chunks')) = n + 1
        /\ \A i \in 1 .. (n + 1) : Pool!Chunk(chunks')[i] = <<chunks', i - 1>>
    BY <2>1, ChunkIsAList, ChunksHaveBlocks
  <2>3. /\ free_blocks' \in Seq(Pairs)
        /\ DOMAIN free_blocks' = 1 .. n
        /\ \A i \in 1 .. n : free_blocks'[i] = <<chunks + 1, i>>
    <3> DEFINE s == Pool!Chunk(chunks')
    <3>1. s \in Seq(Pairs) /\ s # <<>> /\ Len(s) = n + 1
      BY <2>1, <2>2, EmptySeq
    <3>2. /\ Tail(s) \in Seq(Pairs) /\ Len(Tail(s)) = n
          /\ \A i \in 1 .. n : Tail(s)[i] = s[i + 1]
      BY <2>1, <3>1, HeadTailProperties
    <3>3. \A i \in 1 .. n : i + 1 \in 1 .. (n + 1) /\ (i + 1) - 1 = i
      BY <2>1
    <3> HIDE DEF s
    <3>4. QED
      BY <1>2, <2>1, <2>2, <3>2, <3>3, LenProperties DEF s
  <2>4. /\ \A x \in Pool!Blocks : x \in Pool!Blocks'
        /\ b \in Pool!Blocks' /\ b \notin Pool!Blocks /\ b \in Pairs
        /\ \A i \in 1 .. n :
              <<chunks + 1, i>> \in Pool!Blocks' /\ <<chunks + 1, i>> \notin Pool!Blocks
        /\ \A x \in Pool!Blocks' :
              x \in Pool!Blocks \/ x = b \/ \E i \in 1 .. n : x = <<chunks + 1, i>>
    <3>1. /\ 0 \in 0 .. BlocksPerChunk - 1
          /\ \A i \in 1 .. n : i \in 0 .. BlocksPerChunk - 1
          /\ \A i \in 0 .. BlocksPerChunk - 1 : i = 0 \/ i \in 1 .. n
      BY <2>1
    <3>2. QED
      BY <1>2, <2>1, <3>1, BlocksOfAChunk
  <2> HIDE DEF n
  <2>5. /\ \A i \in 1 .. n : <<chunks + 1, i>> \notin lent \cup lost \cup objects \cup {b}
        /\ b \notin lent \cup lost \cup objects
    BY <2>1, <2>4 DEF PoolInv
  <2>6. \A i, j \in 1 .. n : i # j => <<chunks + 1, i>> # <<chunks + 1, j>>
    OBVIOUS
  <2>7. Pool!FreeBlocksAreFree'
    <3>1. \A i, j \in 1 .. n : i # j => free_blocks'[i] # free_blocks'[j]
      BY <2>3, <2>6
    <3>2. \A i \in 1 .. n :
             /\ free_blocks'[i] \in Pool!Blocks'
             /\ free_blocks'[i] \notin lent' \cup lost' \cup objects'
      <4>1. \A i \in 1 .. n : free_blocks'[i] \in Pool!Blocks'
        BY <2>3, <2>4
      <4>2. \A i \in 1 .. n : free_blocks'[i] \notin lent \cup lost \cup objects \cup {b}
        BY <2>3, <2>5
      <4>3. lent' \cup lost' \cup objects' = lent \cup lost \cup objects \cup {b}
        BY <2>1
      <4>4. QED
        BY <4>1, <4>2, <4>3
    <3>3. QED
      BY <2>3, <3>1, <3>2 DEF Pool!FreeBlocksAreFree
  <2>8. ASSUME NEW x \in Pool!Blocks'
        PROVE  x \in lent' \/ x \in lost' \/ \E i \in 1 .. n : free_blocks'[i] = x
    <3>1. DOMAIN free_blocks = {}
      BY <1>2
    <3>2. CASE x \in Pool!Blocks
      <4>1. x \in lent \/ x \in lost
        BY <3>1, <3>2 DEF PoolInv
      <4>2. QED
        BY <2>1, <4>1
    <3>3. CASE x = b
      BY <2>1, <3>3
    <3>4. CASE \E i \in 1 .. n : x = <<chunks + 1, i>>
      BY <2>3, <3>4
    <3>5. QED
      BY <2>4, <3>2, <3>3, <3>4
  <2>9. PoolInv'
    <3>1. lent' \subseteq Pool!Blocks' /\ lost' \subseteq Pool!Blocks'
      BY <2>1, <2>4 DEF PoolInv
    <3>2. lent' \cap lost' = {} /\ objects' \subseteq lent'
      BY <2>1, <2>5 DEF PoolInv
    <3>3. QED
      BY <2>1, <2>3, <2>7, <2>8, <3>1, <3>2 DEF PoolInv
  <2>10. QED
    BY <2>1, <2>4, <2>5, <2>9
<1>3. QED
  BY <1>1, <1>2

\* A block that is lost leaves the pool; any other heads the list.
LEMMA PoolTakesBack ==
    ASSUME PoolInv, NEW b \in lent, b \notin objects, Pool!deallocate(b)
    PROVE  PoolInv' /\ lent' = lent \ {b} /\ objects' = objects
<1> USE DEF Pool!deallocate
<1>1. /\ lent' = lent \ {b} /\ UNCHANGED <<chunks, objects>>
      /\ Pool!Blocks' = Pool!Blocks /\ b \in Pool!Blocks /\ b \in Pairs
  BY BlocksOfAChunk DEF Pool!Blocks, PoolInv, Pairs
<1>2. CASE Pool!isAddressInPool(b)
  <2> DEFINE n == Len(free_blocks)
  <2>1. free_blocks' = <<b>> \o free_blocks /\ lost' = lost
    BY <1>2
  <2>2. /\ free_blocks' \in Seq(Pairs) /\ n \in Nat
        /\ DOMAIN free_blocks = 1 .. n
        /\ DOMAIN free_blocks' = 1 .. (n + 1)
        /\ free_blocks'[1] = b
        /\ \A i \in 2 .. (n + 1) : free_blocks'[i] = free_blocks[i - 1]
    <3>1. <<b>> \in Seq(Pairs) /\ Len(<<b>>) = 1 /\ <<b>>[1] = b
      BY <1>1
    <3>2. QED
      BY <2>1, <3>1, ConcatProperties, LenProperties DEF PoolInv
  <2> HIDE DEF n
  <2>3. /\ \A i \in 1 .. n :
              /\ free_blocks[i] # b /\ free_blocks[i] \in Pool!Blocks
              /\ free_blocks[i] \notin lent \cup lost \cup objects
        /\ \A i, j \in 1 .. n : i # j => free_blocks[i] # free_blocks[j]
    BY <2>2 DEF PoolInv, Pool!FreeBlocksAreFree
  <2>4. \A i \in 1 .. (n + 1) : i = 1 \/ (i \in 2 .. (n + 1) /\ i - 1 \in 1 .. n)
    BY <2>2
  <2>5. \A i, j \in 1 .. (n + 1) : i # j => free_blocks'[i] # free_blocks'[j]
    <3> SUFFICES ASSUME NEW i \in 1 .. (n + 1), NEW j \in 1 .. (n + 1), i # j
                 PROVE  free_blocks'[i] # free_blocks'[j]
      OBVIOUS
    <3>1. CASE i = 1 \/ j = 1
      BY <3>1, <2>2, <2>3, <2>4
    <3>2. CASE i # 1 /\ j # 1
      <4>1. i - 1 # j - 1
        BY <2>2
      <4>2. QED
        BY <3>2, <4>1, <2>2, <2>3, <2>4
    <3>3. QED
      BY <3>1, <3>2
  <2>6. \A i \in 1 .. (n + 1) :
           /\ free_blocks'[i] \in Pool!Blocks
           /\ free_blocks'[i] \notin lent' \cup lost \cup objects
    <3>1. b \notin lost
      BY DEF PoolInv
    <3>2. QED
      BY <1>1, <2>2, <2>3, <2>4, <3>1
  <2>7. Pool!FreeBlocksAreFree'
    BY <1>1, <2>1, <2>2, <2>5, <2>6 DEF Pool!FreeBlocksAreFree
  <2>8. ASSUME NEW x \in Pool!Blocks
        PROVE  x \in lent' \/ x \in lost \/ \E i \in 1 .. (n + 1) : free_blocks'[i] = x
    <3>1. CASE x = b
      BY <2>2, <3>1
    <3>2. CASE \E i \in 1 .. n : free_blocks[i] = x
      <4>1. PICK i \in 1 .. n : free_blocks[i] = x
        BY <3>2
      <4>2. i + 1 \in 2 .. (n + 1) /\ (i + 1) - 1 = i /\ i + 1 \in 1 .. (n + 1)
        BY <2>2
      <4>3. QED
        BY <2>2, <4>1, <4>2
    <3>3. QED
      BY <1>1, <2>2, <3>1, <3>2 DEF PoolInv
  <2>9. PoolInv'
    BY <1>1, <2>1, <2>2, <2>7, <2>8 DEF PoolInv
  <2>10. QED
    BY <1>1, <2>9
<1>3. CASE ~Pool!isAddressInPool(b)
  <2>1. lost' = lost \cup {b} /\ free_blocks' = free_blocks
    BY <1>3
  <2>2. Pool!FreeBlocksAreFree'
    BY <1>1, <2>1 DEF PoolInv, Pool!FreeBlocksAreFree
  <2>3. PoolInv'
    BY <1>1, <2>1, <2>2 DEF PoolInv
  <2>4. QED
    BY <1>1, <2>3
<1>4. QED
  BY <1>2, <1>3

\* Objects come and go in lent blocks.
LEMMA PoolObjects ==
    ASSUME PoolInv, NEW b, Pool!construct(b) \/ Pool!destroy(b)
    PROVE  PoolInv' /\ lent' = lent
<1>1. /\ objects' \subseteq lent /\ UNCHANGED <<chunks, free_blocks, lent, lost>>
      /\ Pool!Blocks' = Pool!Blocks
  BY DEF Pool!construct, Pool!destroy, PoolInv, Pool!Blocks
<1>2. Pool!FreeBlocksAreFree'
  BY <1>1 DEF PoolInv, Pool!FreeBlocksAreFree
<1>3. QED
  BY <1>1, <1>2 DEF PoolInv

\* A block whose object was not constructed is lent no more, and lost.
LEMMA PoolLoses ==
    ASSUME PoolInv, NEW b \in lent \ objects, Pool!constructorThrows(b)
    PROVE  PoolInv' /\ lent' = lent \ {b}
<1>1. /\ lent' = lent \ {b} /\ lost' = lost \cup {b}
      /\ UNCHANGED <<chunks, free_blocks, objects>> /\ Pool!Blocks' = Pool!Blocks
  BY DEF Pool!constructorThrows, Pool!Blocks
<1>2. Pool!FreeBlocksAreFree'
  BY <1>1 DEF PoolInv, Pool!FreeBlocksAreFree
<1>3. QED
  BY <1>1, <1>2 DEF PoolInv

\* The pool is what its variables are.
LEMMA PoolStays ==
    ASSUME PoolInv, UNCHANGED poolVars
    PROVE  PoolInv' /\ Pool!Blocks' = Pool!Blocks
<1>1. UNCHANGED <<chunks, free_blocks, lent, objects, lost>>
  BY DEF poolVars
<1>2. Pool!FreeBlocksAreFree' /\ Pool!Blocks' = Pool!Blocks
  BY <1>1 DEF PoolInv, Pool!FreeBlocksAreFree, Pool!Blocks
<1>3. QED
  BY <1>1, <1>2 DEF PoolInv

\* A pool without chunks has nothing to be wrong about.
LEMMA PoolIsEmpty ==
    chunks = 0 /\ free_blocks = <<>> /\ lent = {} /\ objects = {} /\ lost = {} => PoolInv
<1> SUFFICES ASSUME chunks = 0, free_blocks = <<>>, lent = {}, objects = {}, lost = {}
             PROVE  PoolInv
  OBVIOUS
<1>1. Pool!Blocks = {} /\ DOMAIN free_blocks = {} /\ free_blocks \in Seq(Pairs)
  BY ChunksHaveBlocks DEF Pool!Blocks
<1>2. QED
  BY <1>1, BoundsAreNumbers DEF PoolInv, Pool!FreeBlocksAreFree

\* A block on the list of free ones is there once, and neither lent, lost nor
\* occupied: allocate hands out no block that a client has (memory_pool.hpp
\* 29-55 and 72-118).  The pool keeps this by itself, whatever its clients do.
THEOREM NoBlockIsLentTwice == Pool!Spec => []Pool!FreeBlocksAreFree
<1>1. Pool!Init => PoolInv
  BY PoolIsEmpty DEF Pool!Init
<1>2. PoolInv /\ [Pool!Next]_Pool!vars => PoolInv'
  <2> SUFFICES ASSUME PoolInv, [Pool!Next]_Pool!vars PROVE PoolInv'
    OBVIOUS
  <2>1. CASE Pool!allocate
    BY <2>1, PoolAllocates
  <2>2. CASE Pool!release
    <3>1. /\ chunks' = 0 /\ free_blocks' = <<>> /\ lent' = {} /\ objects' = {}
          /\ lost' = {}
      BY <2>2 DEF Pool!release
    <3>2. Pool!Blocks' = {} /\ DOMAIN free_blocks' = {} /\ free_blocks' \in Seq(Pairs)
      BY <3>1, ChunksHaveBlocks DEF Pool!Blocks
    <3>3. QED
      BY <3>1, <3>2, BoundsAreNumbers DEF PoolInv, Pool!FreeBlocksAreFree
  <2>3. ASSUME NEW b \in lent, Pool!construct(b) \/ Pool!destroy(b) PROVE PoolInv'
    BY <2>3, PoolObjects
  <2>4. ASSUME NEW b \in lent \ objects, Pool!deallocate(b) PROVE PoolInv'
    BY <2>4, PoolTakesBack
  <2>5. ASSUME NEW b \in lent \ objects, Pool!constructorThrows(b) PROVE PoolInv'
    BY <2>5, PoolLoses
  <2>6. CASE UNCHANGED Pool!vars
    BY <2>6, PoolStays DEF Pool!vars, poolVars
  <2>7. QED
    BY <2>1, <2>2, <2>3, <2>4, <2>5, <2>6 DEF Pool!Next
<1>3. PoolInv => Pool!FreeBlocksAreFree
  BY DEF PoolInv
<1>4. QED
  BY <1>1, <1>2, <1>3, PTL DEF Pool!Spec

-----------------------------------------------------------------------------
(* Steps that move no item *)

\* What is counted are numbers, and no more items are put than the bound allows.
LEMMA Numbers ==
    ASSUME Standing
    PROVE  /\ Oldest \in Nat /\ Newest \in Nat /\ Newest <= MaxPushes
           /\ IsFiniteSet(Linked) /\ Cardinality(Linked) \in Nat
           /\ IsFiniteSet(Beginning) /\ Cardinality(Beginning) \in Nat
           /\ Popped \in 0 .. 1
<1>1. IsFiniteSet(Linked) /\ IsFiniteSet(Beginning)
  BY ThreadsPushOrPop, FS_Subset DEF Linked, Beginning
<1>2. Cardinality(Linked) \in Nat /\ Cardinality(Beginning) \in Nat
  BY <1>1, FS_CardinalityType
<1>3. Oldest \in Nat /\ Newest \in Nat
  BY LenProperties DEF Standing, QueueTypes, Oldest, Newest
<1>4. Newest + Cardinality(Beginning) <= MaxPushes
  BY DEF Standing, Counted, Bounded
<1>5. QED
  BY <1>1, <1>2, <1>3, <1>4, BoundsAreNumbers DEF Popped

\* The figures follow from the items, the hands and who is where.
LEMMA FiguresStay ==
    ASSUME Standing, UNCHANGED <<size, put, got>>,
           Linked' = Linked, Popped' = Popped, Beginning' = Beginning
    PROVE  Counted'
<1>1. Newest' = Newest /\ Oldest' = Oldest
  BY DEF Newest, Oldest
<1>2. SizeIsRight'
  BY <1>1 DEF Standing, Counted, SizeIsRight
<1>3. Bounded'
  BY <1>1 DEF Standing, Counted, Bounded
<1>4. QED
  BY <1>2, <1>3 DEF Counted

\* A lent block is a block.
LEMMA LentIsSomething ==
    ASSUME Standing
    PROVE  lent \subseteq Pairs /\ Nothing \notin lent /\ Nothing \notin Pairs
BY BlocksOfAChunk, NothingIsNoBlock DEF Standing, PoolInv, Pairs

\* Who has which block follows from the items and the hands.
LEMMA HoldersStay ==
    ASSUME Standing, UNCHANGED <<put, got, lent>>, Popped' = Popped,
           \A t \in Threads : Holding(t)' = Holding(t)
    PROVE  LentAreHeld'
<1>1. Newest' = Newest /\ Oldest' = Oldest
  BY DEF Newest, Oldest
<1>2. \A i : Queued(i)' <=> Queued(i)
  BY <1>1 DEF Queued
<1>3. LentAreHeld
  BY DEF Standing
<1>4. QED
  BY <1>1, <1>2, <1>3 DEF LentAreHeld

\* A thread goes on with what it is doing, and neither puts nor takes an item.
GoesOn(t, s) ==
    /\ at' = [at EXCEPT ![t] = s]
    /\ at[t] \notin {"idle", "gone"}
    /\ s \in {"swing", "count"} <=> at[t] \in {"swing", "count"}
    /\ s \in {"read data", "delete", "discount"} <=> HasTaken(t)
    /\ UNCHANGED <<size, put, got, hand, met, poolVars>>

\* What follows where a thread only goes on.
LEMMA QuietStep ==
    ASSUME Standing, NEW t \in Threads, NEW s, GoesOn(t, s)
    PROVE  Discipline' /\ HandsAreRight' /\ Counted' /\ PoolInv' /\ LentAreHeld'
<1>1. /\ at \in [Threads -> Places] /\ at'[t] = s
      /\ \A u \in Threads : u # t => at'[u] = at[u]
  BY DEF Standing, QueueTypes, GoesOn
<1>2. UNCHANGED <<size, put, got, hand, met, lent>> /\ UNCHANGED poolVars
  BY DEF GoesOn, poolVars
<1>3. /\ \A u \in Threads : at'[u] \in {"swing", "count"} <=> at[u] \in {"swing", "count"}
      /\ \A u \in Threads : HasTaken(u)' <=> HasTaken(u)
      /\ \A u \in Threads : at'[u] \notin {"idle", "gone"} => at[u] \notin {"idle", "gone"}
  BY <1>1 DEF GoesOn, HasTaken
<1>4. Linked' = Linked /\ Popped' = Popped /\ Beginning' = Beginning
  BY <1>2, <1>3 DEF Linked, Popped, Beginning, HasPut, Threads
<1>5. Queue!Pushing' \subseteq Queue!Pushing /\ Queue!Popping' \subseteq Queue!Popping
  BY <1>3 DEF Queue!Pushing, Queue!Popping, Threads
<1>6. Discipline'
  BY <1>2, <1>5 DEF Standing, Discipline
<1>7. HandsAreRight'
  BY <1>2, <1>5 DEF Standing, HandsAreRight
<1>8. Counted'
  BY <1>2, <1>4, FiguresStay
<1>9. PoolInv'
  BY <1>2, PoolStays DEF Standing
<1>10. LentAreHeld'
  <2>1. \A u \in Threads : Holding(u)' = Holding(u)
    BY <1>2, <1>3 DEF Holding, HasPut
  <2>2. QED
    BY <1>2, <1>4, <2>1, HoldersStay
<1>11. QED
  BY <1>6, <1>7, <1>8, <1>9, <1>10

-----------------------------------------------------------------------------
(* What the threads know of the list *)

\* The nodes of the list are live and differ, and each has its next.
LEMMA ListFacts ==
    ASSUME Standing, NEW N \in Nodes, ListIs(N)
    PROVE  /\ Oldest \in InList /\ Newest \in InList /\ Oldest <= Newest
           /\ Oldest \in Nat /\ Newest \in Nat /\ InList \subseteq Nat
           /\ InList \subseteq 0 .. MaxPushes
           /\ \A i \in InList : N[i] \in live /\ N[i] \in Addresses /\ N[i] # NoNode
           /\ \A i \in InList : next[N[i]] = IF i = Newest THEN NoNode ELSE N[i + 1]
           /\ \A i \in InList, j \in InList : N[i] = N[j] => i = j
<1>1. Oldest \in Nat /\ Newest \in Nat /\ Newest <= MaxPushes /\ Oldest <= Newest
  BY Numbers DEF ListIs
<1>2. InList \subseteq 0 .. MaxPushes /\ Oldest \in InList /\ Newest \in InList
  BY <1>1, BoundsAreNumbers DEF InList
<1>3. \A i \in InList : N[i] \in Addresses /\ N[i] # NoNode
  BY <1>2, NoNodeIsNoAddress DEF Nodes
<1>4. /\ \A i \in InList : N[i] \in live
      /\ \A i \in InList : next[N[i]] = IF i = Newest THEN NoNode ELSE N[i + 1]
  BY DEF ListIs
<1>5. \A i \in InList, j \in InList : N[i] = N[j] => i = j
  BY DEF ListIs
<1>6. InList \subseteq Nat
  BY <1>2
<1>7. QED
  BY <1>1, <1>2, <1>3, <1>4, <1>5, <1>6

\* A push or a pop that begins takes note of the other kind, and of pushes.
MetGrows ==
    \/ met' = met
    \/ met # "pop" /\ met' = "push"
    \/ met # "push" /\ met' = "pop"

\* What else happens leaves a push right in what it knows.
LEMMA PushStaysRight ==
    ASSUME Standing, NEW N \in Nodes, ListInv(N), NEW q \in Producers,
           at'[q] = at[q], local'[q] = local[q], hand'[q] = hand[q],
           UNCHANGED <<put, got>>, live \subseteq live',
           \A a \in live : next'[a] = next[a] /\ data'[a] = data[a],
           tail' = tail \/ tail' = N[Newest],
           at[q] \notin {"idle", "gone"} => MetGrows,
           \A r \in Producers : Trying(q) /\ Trying(r)' /\ local'[r].new = local[q].new
                                   => r = q
    PROVE  PushKnows(N, q)'
<1>1. PushKnows(N, q) /\ ListIs(N)
  BY DEF ListInv
<1>2. Newest' = Newest /\ Oldest' = Oldest /\ InList' = InList
  BY DEF Newest, Oldest, InList
<1>3. /\ Trying(q)' <=> Trying(q)
      /\ HasTail(q)' <=> HasTail(q)
      /\ Trying(q) => at[q] \notin {"idle", "gone"}
      /\ HasTail(q) => at[q] \notin {"idle", "gone"}
  BY DEF Trying, HasTail
<1>4. ASSUME Trying(q) PROVE NewNode(N, q)'
  <2>1. NewNode(N, q) /\ MetGrows
    BY <1>1, <1>3, <1>4 DEF PushKnows
  <2>2. local[q].new \in live
    BY <2>1 DEF NewNode
  <2>3. \A r \in Producers : Trying(r)' /\ local'[r].new = local'[q].new => r = q
    BY <1>4
  <2>4. \A a : OthersNode(N, a) => OthersNode(N, a)'
    BY <1>2, <2>1 DEF MetGrows, OthersNode
  <2>5. QED
    BY <1>2, <2>1, <2>2, <2>3, <2>4 DEF NewNode
<1>5. ASSUME HasTail(q) PROVE OldTail(N, q)'
  <2>1. OldTail(N, q) /\ MetGrows
    BY <1>1, <1>3, <1>5 DEF PushKnows
  <2>2. PICK i \in InList :
        /\ local[q].old = N[i]
        /\ met # "push" => i = Newest
        /\ i = Newest => tail = N[Newest]
        /\ at[q] # "load next" =>
              \/ i < Newest /\ local[q].next = N[i + 1]
              \/ /\ local[q].next = NoNode
                 /\ local[q].null # NoNode => \E j \in Oldest + 1 .. i : local[q].null = N[j]
        /\ at[q] = "link" => local[q].next = NoNode
        /\ at[q] = "help" => local[q].next # NoNode
    BY <2>1 DEF OldTail
  <2>3. met' # "push" => i = Newest
    BY <2>1, <2>2 DEF MetGrows
  <2>4. i = Newest => tail' = N[Newest]
    BY <2>2
  <2>5. QED
    BY <1>2, <2>2, <2>3, <2>4 DEF OldTail
<1>6. ASSUME at[q] = "swing" PROVE Swings(N, q)'
  <2>1. Swings(N, q) /\ MetGrows
    BY <1>1, <1>6 DEF PushKnows
  <2>2. QED
    BY <1>2, <2>1 DEF Swings, MetGrows
<1>7. QED
  BY <1>3, <1>4, <1>5, <1>6 DEF PushKnows

\* What else happens leaves a pop right in what it knows, if no push takes its nodes.
LEMMA PopStaysRight ==
    ASSUME Standing, NEW N \in Nodes, ListInv(N), NEW c \in Consumers,
           at'[c] = at[c], local'[c] = local[c],
           UNCHANGED <<head, put, got>>, live \subseteq live',
           \A p \in Producers : Trying(p)' =>
              local'[p].new \notin live \/ (Trying(p) /\ local'[p].new = local[p].new)
    PROVE  PopKnows(N, c)'
<1>1. PopKnows(N, c)
  BY DEF ListInv
<1>2. Newest' = Newest /\ Oldest' = Oldest /\ InList' = InList
  BY DEF Newest, Oldest, InList
<1>3. HasTaken(c)' <=> HasTaken(c)
  BY DEF HasTaken
<1>4. Deleting(c)' <=> Deleting(c)
  BY DEF Deleting
<1>5. ASSUME Deleting(c), NEW p \in Producers, Trying(p)'
      PROVE  local'[p].new # local'[c].old
  BY <1>1, <1>5 DEF PopKnows
<1>6. QED
  BY <1>1, <1>2, <1>3, <1>4, <1>5 DEF PopKnows

\* The list stays while its nodes do.
LEMMA ListStays ==
    ASSUME NEW N, ListIs(N), UNCHANGED <<head, put, got>>, live \subseteq live',
           \A a \in live : next'[a] = next[a] /\ data'[a] = data[a]
    PROVE  ListIs(N)'
<1>1. Newest' = Newest /\ Oldest' = Oldest /\ InList' = InList
  BY DEF Newest, Oldest, InList
<1>2. \A i \in InList : N[i] \in live /\ N[i] \in live'
  BY DEF ListIs
<1>3. QED
  BY <1>1, <1>2 DEF ListIs

-----------------------------------------------------------------------------
(* The steps of a push that has not linked its node *)

\* A push is never where a pop is.
LEMMA PlacesOfPushes ==
    ASSUME QueueTypes, NEW p \in Producers, NEW c \in Consumers
    PROVE  /\ p \in Threads /\ c \in Threads /\ p # c
           /\ at[p] \in PushPlaces /\ at[c] \in PopPlaces
           /\ ~HasTaken(p) /\ ~Deleting(p) /\ ~HasPut(c) /\ ~Trying(c)
BY ThreadsPushOrPop DEF QueueTypes, Threads, PushPlaces, PopPlaces, HasTaken, Deleting,
   HasPut, Trying

\* The tail stays right, or becomes right, while the push that is to move it waits.
LEMMA TailStays ==
    ASSUME Standing, NEW N, ListInv(N), UNCHANGED <<put, got, met>>,
           tail' = tail \/ tail' = N[Newest],
           \A q \in Producers : at[q] = "swing" => at'[q] = at[q] /\ local'[q] = local[q]
    PROVE  TailIs(N)'
<1>1. Newest' = Newest /\ Oldest' = Oldest
  BY DEF Newest, Oldest
<1>2. CASE tail' = N[Newest]
  BY <1>1, <1>2 DEF TailIs
<1>3. CASE tail' = tail
  BY <1>1, <1>3 DEF TailIs, ListInv
<1>4. QED
  BY <1>2, <1>3

\* No two pushes have the same new node.
LEMMA NewNodesDiffer ==
    ASSUME NEW N, ListInv(N), NEW q \in Producers, NEW r \in Producers,
           Trying(q), Trying(r), local[r].new = local[q].new
    PROVE  r = q
<1>1. NewNode(N, q)
  BY DEF ListInv, PushKnows
<1>2. QED
  BY <1>1 DEF NewNode

\* Nodes stay known while who knows them goes on.
LEMMA KnownStay ==
    ASSUME NEW N, ListInv(N), InList' = InList, live' \subseteq live,
           \A q \in Producers : Trying(q) => Trying(q)' /\ local'[q].new = local[q].new,
           \A c \in Consumers : Deleting(c) => Deleting(c)' /\ local'[c].old = local[c].old
    PROVE  NodesAreKnown(N)'
<1> SUFFICES ASSUME NEW a \in live
             PROVE  \/ \E i \in InList : a = N[i]
                    \/ \E q \in Producers : Trying(q)' /\ a = local'[q].new
                    \/ \E c \in Consumers : Deleting(c)' /\ a = local'[c].old
  BY DEF NodesAreKnown
<1>1. NodesAreKnown(N)
  BY DEF ListInv
<1>2. CASE \E q \in Producers : Trying(q) /\ a = local[q].new
  BY <1>2
<1>3. CASE \E c \in Consumers : Deleting(c) /\ a = local[c].old
  BY <1>3
<1>4. QED
  BY <1>1, <1>2, <1>3 DEF NodesAreKnown

\* A step of a push that has not linked its node.
LEMMA TryingStep ==
    ASSUME Standing, NEW N \in Nodes, ListInv(N), NEW p \in Producers, Trying(p),
           NEW s \in {"load tail", "load next", "check tail", "link", "help"},
           NEW l \in Locals, l.new = local[p].new,
           GoesOn(p, s), local' = [local EXCEPT ![p] = l],
           UNCHANGED <<head, next, data, live>>,
           tail' = tail \/ tail' = N[Newest],
           l.null # NoNode => OthersNode(N, l.null),
           s # "load tail" => OldTail(N, p)'
    PROVE  Standing' /\ ListInv(N)'
<1>0. QueueTypes
  BY DEF Standing
<1>1. /\ p \in Threads /\ at'[p] = s /\ local'[p] = l
      /\ \A u \in Threads : u # p => at'[u] = at[u] /\ local'[u] = local[u]
      /\ UNCHANGED <<put, got, met, hand>>
  BY DEF QueueTypes, GoesOn, Standing, Threads
<1>2. /\ Trying(p)' /\ at'[p] # "swing" /\ at[p] # "swing"
      /\ HasTail(p)' => s # "load tail"
      /\ local'[p].new = local[p].new
  BY <1>1 DEF Trying, HasTail
<1>3. QueueTypes'
  <2>1. at' \in [Threads -> Places] /\ local' \in [Threads -> Locals]
    BY <1>0 DEF QueueTypes, GoesOn, Places, PushPlaces
  <2>2. \A q \in Producers : at'[q] \in PushPlaces
    BY <1>0, <1>1 DEF QueueTypes, PushPlaces, Threads
  <2>3. \A c \in Consumers : at'[c] \in PopPlaces
    BY <1>0, <1>1, PlacesOfPushes DEF QueueTypes, Threads
  <2>4. QED
    BY <1>0, <1>1, <2>1, <2>2, <2>3 DEF QueueTypes
<1>4. Standing'
  <2>1. Discipline' /\ HandsAreRight' /\ Counted' /\ PoolInv' /\ LentAreHeld'
    BY <1>1, QuietStep
  <2>2. QED
    BY <1>3, <2>1 DEF Standing
<1>5. Newest' = Newest /\ Oldest' = Oldest /\ InList' = InList
  BY <1>1 DEF Newest, Oldest, InList
<1>6. ListIs(N)'
  BY <1>1, ListStays DEF ListInv
<1>7. TailIs(N)'
  <2>1. \A q \in Producers : at[q] = "swing" => at'[q] = at[q] /\ local'[q] = local[q]
    BY <1>1, <1>2 DEF Threads
  <2>2. QED
    BY <1>1, <2>1, TailStays
<1>8. \A r \in Producers : Trying(r)' => Trying(r) /\ local'[r].new = local[r].new
  BY <1>1 DEF Trying, Threads
<1>9. ASSUME NEW q \in Producers, q # p PROVE PushKnows(N, q)'
  <2>1. \A r \in Producers : Trying(q) /\ Trying(r)' /\ local'[r].new = local[q].new => r = q
    BY <1>8, NewNodesDiffer
  <2>2. at'[q] = at[q] /\ local'[q] = local[q] /\ hand'[q] = hand[q] /\ MetGrows
    BY <1>1, <1>9 DEF Threads, MetGrows
  <2>3. QED
    BY <1>1, <2>1, <2>2, PushStaysRight
<1>10. PushKnows(N, p)'
  <2>1. NewNode(N, p)
    BY DEF ListInv, PushKnows
  <2>2. NewNode(N, p)'
    <3>1. \A r \in Producers : Trying(r)' /\ local'[r].new = local'[p].new => r = p
      BY <1>2, <1>8, NewNodesDiffer
    <3>2. local'[p].null # NoNode => OthersNode(N, local[p].null)'
      BY <1>1, <1>5 DEF OthersNode
    <3>3. /\ local[p].new \in live /\ next[local[p].new] = NoNode
          /\ data[local[p].new] = hand[p]
          /\ \A i \in InList : local[p].new # N[i]
      BY <2>1 DEF NewNode
    <3>4. /\ local'[p].new \in live' /\ next'[local'[p].new] = NoNode
          /\ data'[local'[p].new] = hand'[p]
          /\ \A i \in InList' : local'[p].new # N[i]
      <4>1. UNCHANGED <<next, data, live, hand>> /\ InList' = InList
        BY <1>1, <1>5
      <4>2. next' = next /\ data' = data /\ live' = live /\ hand' = hand
        BY <4>1
      <4>3. QED
        BY <1>2, <3>3, <4>1, <4>2
    <3>5. QED
      BY <3>1, <3>2, <3>4 DEF NewNode
  <2>3. QED
    BY <1>2, <2>2 DEF PushKnows
<1>11. ASSUME NEW c \in Consumers PROVE PopKnows(N, c)'
  <2>1. at'[c] = at[c] /\ local'[c] = local[c]
    BY <1>0, <1>1, PlacesOfPushes
  <2>2. QED
    BY <1>1, <1>8, <2>1, PopStaysRight
<1>12. NodesAreKnown(N)'
  <2>1. \A q \in Producers : Trying(q) => Trying(q)' /\ local'[q].new = local[q].new
    BY <1>1, <1>2 DEF Trying, Threads
  <2>2. \A c \in Consumers : Deleting(c) => Deleting(c)' /\ local'[c].old = local[c].old
    BY <1>0, <1>1, PlacesOfPushes DEF Deleting
  <2>3. QED
    BY <1>5, <2>1, <2>2, KnownStay
<1>13. QED
  BY <1>4, <1>6, <1>7, <1>9, <1>10, <1>11, <1>12 DEF ListInv

\* What a push knows of its new node.
LEMMA KnowsNew ==
    ASSUME NEW N, ListInv(N), NEW p \in Producers, Trying(p)
    PROVE  /\ local[p].new \in live
           /\ \A i \in InList : local[p].new # N[i]
           /\ next[local[p].new] = NoNode
           /\ data[local[p].new] = hand[p]
           /\ local[p].null # NoNode => OthersNode(N, local[p].null)
<1>1. NewNode(N, p)
  BY DEF ListInv, PushKnows
<1>2. QED
  BY <1>1 DEF NewNode

\* What a push knows of the tail it loaded.
LEMMA KnowsTail ==
    ASSUME NEW N, ListInv(N), NEW p \in Producers, HasTail(p)
    PROVE  OldTail(N, p)
BY DEF ListInv, PushKnows

\* Assigning a node to a local variable changes no other.
LEMMA LocalsOf ==
    ASSUME QueueTypes, NEW t \in Threads
    PROVE  /\ local[t] \in Locals
           /\ local[t].old \in NodeOrNone /\ local[t].next \in NodeOrNone
           /\ \A a \in NodeOrNone :
                 /\ [local[t] EXCEPT !.old = a] \in Locals
                 /\ [local[t] EXCEPT !.next = a] \in Locals
                 /\ [local[t] EXCEPT !.null = a] \in Locals
                 /\ [local[t] EXCEPT !.old = a].new = local[t].new
                 /\ [local[t] EXCEPT !.old = a].old = a
                 /\ [local[t] EXCEPT !.old = a].null = local[t].null
                 /\ [local[t] EXCEPT !.next = a].new = local[t].new
                 /\ [local[t] EXCEPT !.next = a].old = local[t].old
                 /\ [local[t] EXCEPT !.next = a].next = a
                 /\ [local[t] EXCEPT !.next = a].null = local[t].null
                 /\ [local[t] EXCEPT !.null = a].new = local[t].new
                 /\ [local[t] EXCEPT !.null = a].null = a
<1>1. local[t] \in Locals
  BY DEF QueueTypes
<1>2. QED
  BY <1>1 DEF Locals

\* A push that is not alone has met no pop, one that has is alone.
LEMMA PushAlone ==
    ASSUME Standing, NEW p \in Queue!Pushing, NEW q \in Queue!Pushing, p # q
    PROVE  met = "push"
BY DEF Standing, Discipline

\* The tail is in the list where a second push is under way.
LEMMA TailIsInList ==
    ASSUME Standing, NEW N \in Nodes, ListInv(N), NEW p \in Producers, Trying(p)
    PROVE  \E i \in InList :
              /\ tail = N[i]
              /\ i = Newest \/ (i = Newest - 1 /\ met = "push")
              /\ i = Newest => tail = N[Newest]
<1>1. Newest \in InList /\ Newest \in Nat /\ Oldest \in Nat /\ Oldest <= Newest
  BY ListFacts DEF ListInv
<1>2. CASE tail = N[Newest]
  BY <1>1, <1>2
<1>3. CASE tail # N[Newest]
  <2>1. PICK q \in Producers : at[q] = "swing"
    BY <1>3 DEF ListInv, TailIs
  <2>2. /\ tail = N[Newest - 1] /\ 0 < Newest
        /\ met # "pop" => Oldest < Newest
    BY <1>3 DEF ListInv, TailIs
  <2>3. p \in Queue!Pushing /\ q \in Queue!Pushing /\ p # q
    BY <2>1 DEF Trying, Queue!Pushing
  <2>4. met = "push"
    BY <2>3, PushAlone
  <2>5. Newest - 1 \in InList /\ Newest - 1 # Newest
    BY <1>1, <2>2, <2>4 DEF InList
  <2>6. QED
    BY <2>2, <2>4, <2>5
<1>4. QED
  BY <1>2, <1>3

\* A push loads the tail, which is in the list.
LEMMA LoadTailStep ==
    ASSUME Standing, NEW N \in Nodes, ListInv(N), NEW p \in Producers,
           Queue!LoadTail(p), UNCHANGED <<poolVars, hand, met>>
    PROVE  Standing' /\ ListInv(N)'
<1>1. QueueTypes /\ p \in Threads /\ at[p] = "load tail" /\ Trying(p)
  BY DEF Standing, Queue!LoadTail, Threads, Trying
<1>2. PICK i \in InList : /\ tail = N[i]
                          /\ i = Newest \/ (i = Newest - 1 /\ met = "push")
                          /\ i = Newest => tail = N[Newest]
  BY <1>1, TailIsInList
<1> DEFINE l == [local[p] EXCEPT !.old = tail]
<1>3. tail \in NodeOrNone
  BY <1>2, ListFacts DEF ListInv, NodeOrNone
<1>4. l \in Locals /\ l.new = local[p].new /\ l.old = tail /\ l.null = local[p].null
  BY <1>1, <1>3, LocalsOf
<1>5. local' = [local EXCEPT ![p] = l] /\ at' = [at EXCEPT ![p] = "load next"]
  BY DEF Queue!LoadTail, Queue!Go
<1>6. UNCHANGED <<head, tail, size, next, data, live, put, got>>
  BY DEF Queue!LoadTail
<1>7. GoesOn(p, "load next")
  BY <1>1, <1>5, <1>6 DEF GoesOn, HasTaken
<1>8. NewNode(N, p)
  BY <1>1 DEF ListInv, PushKnows
<1>9. local'[p] = l /\ at'[p] = "load next"
  BY <1>1, <1>5 DEF QueueTypes
<1>10. InList' = InList /\ Newest' = Newest /\ tail' = tail /\ met' = met
  BY <1>6 DEF InList, Newest, Oldest
<1> HIDE DEF l
<1>11. OldTail(N, p)'
  BY <1>2, <1>4, <1>9, <1>10 DEF OldTail
<1>12. l.null # NoNode => OthersNode(N, l.null)
  BY <1>4, <1>8 DEF NewNode
<1>13. QED
  BY <1>1, <1>4, <1>5, <1>6, <1>7, <1>11, <1>12, TryingStep

\* What a push loads of the next of its old tail is right.
LEMMA LoadNextStep ==
    ASSUME Standing, NEW N \in Nodes, ListInv(N), NEW p \in Producers,
           Queue!LoadNext(p), UNCHANGED <<poolVars, hand, met>>
    PROVE  Standing' /\ ListInv(N)'
<1>1. QueueTypes /\ p \in Threads /\ at[p] = "load next" /\ Trying(p) /\ HasTail(p)
  BY DEF Standing, Queue!LoadNext, Threads, Trying, HasTail
<1>2. PICK i \in InList : /\ local[p].old = N[i]
                          /\ met # "push" => i = Newest
                          /\ i = Newest => tail = N[Newest]
  BY <1>1, KnowsTail DEF OldTail
<1> DEFINE l == [local[p] EXCEPT !.next = next[local[p].old]]
<1>3. /\ next[local[p].old] = IF i = Newest THEN NoNode ELSE N[i + 1]
      /\ N[i] \in Addresses /\ i \in Nat /\ Newest \in Nat /\ i <= Newest
  BY <1>2, ListFacts DEF ListInv, InList
<1>4. next[local[p].old] \in NodeOrNone
  BY <1>1, <1>2, <1>3 DEF QueueTypes
<1>5. /\ l \in Locals /\ l.new = local[p].new /\ l.old = local[p].old
      /\ l.null = local[p].null /\ l.next = next[local[p].old]
  BY <1>1, <1>4, LocalsOf
<1>6. local' = [local EXCEPT ![p] = l] /\ at' = [at EXCEPT ![p] = "check tail"]
  BY DEF Queue!LoadNext, Queue!Go
<1>7. UNCHANGED <<head, tail, size, next, data, live, put, got>>
  BY DEF Queue!LoadNext
<1>8. GoesOn(p, "check tail")
  BY <1>1, <1>6, <1>7 DEF GoesOn, HasTaken
<1>9. l.null # NoNode => OthersNode(N, l.null)
  BY <1>1, <1>5, KnowsNew
<1>10. local'[p] = l /\ at'[p] = "check tail"
  BY <1>1, <1>6 DEF QueueTypes
<1>11. InList' = InList /\ Newest' = Newest /\ Oldest' = Oldest /\ tail' = tail /\ met' = met
  BY <1>7 DEF InList, Newest, Oldest
<1> HIDE DEF l
<1>12. \/ i < Newest /\ l.next = N[i + 1]
       \/ /\ l.next = NoNode
          /\ l.null # NoNode => \E j \in Oldest + 1 .. i : l.null = N[j]
  BY <1>3, <1>5, <1>9 DEF OthersNode
<1>13. OldTail(N, p)'
  BY <1>2, <1>5, <1>10, <1>11, <1>12 DEF OldTail
<1>14. QED
  BY <1>1, <1>5, <1>6, <1>7, <1>8, <1>9, <1>13, TryingStep

\* A tail that is where it was loaded is looked at on; if not, the push begins again.
LEMMA CheckTailStep ==
    ASSUME Standing, NEW N \in Nodes, ListInv(N), NEW p \in Producers,
           Queue!CheckTail(p), UNCHANGED <<poolVars, hand, met>>
    PROVE  Standing' /\ ListInv(N)'
<1>1. QueueTypes /\ p \in Threads /\ at[p] = "check tail" /\ Trying(p) /\ HasTail(p)
  BY DEF Standing, Queue!CheckTail, Threads, Trying, HasTail
<1>2. UNCHANGED <<head, tail, size, next, data, live, local, put, got>>
  BY DEF Queue!CheckTail
<1>3. PICK s \in {"load tail", "link", "help"} :
         /\ at' = [at EXCEPT ![p] = s]
         /\ s = "link" => local[p].next = NoNode
         /\ s = "help" => local[p].next # NoNode
  BY DEF Queue!CheckTail, Queue!Go
<1>4. local[p] \in Locals /\ local' = [local EXCEPT ![p] = local[p]]
  BY <1>1, <1>2 DEF QueueTypes
<1>5. GoesOn(p, s)
  BY <1>1, <1>2, <1>3 DEF GoesOn, HasTaken
<1>6. at'[p] = s /\ local'[p] = local[p]
  BY <1>1, <1>2, <1>3 DEF QueueTypes
<1>7. InList' = InList /\ Newest' = Newest /\ Oldest' = Oldest /\ tail' = tail /\ met' = met
  BY <1>2 DEF InList, Newest, Oldest
<1>8. OldTail(N, p)'
  <2>1. OldTail(N, p)
    BY <1>1, KnowsTail
  <2>2. QED
    BY <1>1, <1>3, <1>6, <1>7, <2>1 DEF OldTail
<1>9. local[p].null # NoNode => OthersNode(N, local[p].null)
  BY <1>1, KnowsNew
<1>10. QED
  BY <1>1, <1>2, <1>3, <1>4, <1>5, <1>8, <1>9, TryingStep

\* A compare-exchange that fails brings the node that is next now, if any.
LEMMA LinkFailsStep ==
    ASSUME Standing, NEW N \in Nodes, ListInv(N), NEW p \in Producers,
           Queue!Link(p), next[local[p].old] # local[p].null,
           UNCHANGED <<poolVars, hand, met>>
    PROVE  Standing' /\ ListInv(N)'
<1>1. QueueTypes /\ p \in Threads /\ at[p] = "link" /\ Trying(p) /\ HasTail(p)
  BY DEF Standing, Queue!Link, Threads, Trying, HasTail
<1>2. PICK i \in InList : /\ local[p].old = N[i]
                          /\ met # "push" => i = Newest
  BY <1>1, KnowsTail DEF OldTail
<1> DEFINE l == [local[p] EXCEPT !.null = next[local[p].old]]
<1>3. /\ next[local[p].old] = IF i = Newest THEN NoNode ELSE N[i + 1]
      /\ N[i] \in Addresses /\ i \in Nat /\ Newest \in Nat /\ i <= Newest
      /\ Oldest \in Nat /\ Oldest <= i
  BY <1>2, ListFacts DEF ListInv, InList
<1>4. next[local[p].old] \in NodeOrNone
  BY <1>1, <1>2, <1>3 DEF QueueTypes
<1>5. l \in Locals /\ l.new = local[p].new /\ l.null = next[local[p].old]
  BY <1>1, <1>4, LocalsOf
<1>6. local' = [local EXCEPT ![p] = l] /\ at' = [at EXCEPT ![p] = "load tail"]
  BY DEF Queue!Link, Queue!Go
<1>7. UNCHANGED <<head, tail, size, next, data, live, put, got>>
  BY DEF Queue!Link
<1>8. GoesOn(p, "load tail")
  BY <1>1, <1>6, <1>7 DEF GoesOn, HasTaken
<1> HIDE DEF l
<1>9. l.null # NoNode => OthersNode(N, l.null)
  <2> SUFFICES ASSUME l.null # NoNode
               PROVE  OthersNode(N, l.null)
    OBVIOUS
  <2>1. i # Newest /\ l.null = N[i + 1]
    BY <1>3, <1>5
  <2>2. i + 1 \in Oldest + 1 .. Newest
    BY <1>3, <2>1
  <2>3. QED
    BY <1>2, <2>1, <2>2 DEF OthersNode
<1>10. QED
  BY <1>1, <1>5, <1>6, <1>7, <1>8, <1>9, TryingStep

\* The tail is moved to the last node, by whoever finds it one behind.
LEMMA HelpStep ==
    ASSUME Standing, NEW N \in Nodes, ListInv(N), NEW p \in Producers,
           Queue!Help(p), UNCHANGED <<poolVars, hand, met>>
    PROVE  Standing' /\ ListInv(N)'
<1>1. QueueTypes /\ p \in Threads /\ at[p] = "help" /\ Trying(p) /\ HasTail(p)
  BY DEF Standing, Queue!Help, Threads, Trying, HasTail
<1>2. PICK i \in InList : /\ local[p].old = N[i]
                          /\ i = Newest => tail = N[Newest]
                          /\ i < Newest /\ local[p].next = N[i + 1]
  <2>1. OldTail(N, p)
    BY <1>1, KnowsTail
  <2>2. QED
    BY <1>1, <2>1 DEF OldTail
<1>3. PICK k \in InList : tail = N[k] /\ (k = Newest \/ k = Newest - 1)
  BY <1>1, TailIsInList
<1>4. /\ UNCHANGED <<head, size, next, data, live, local, put, got>>
      /\ at' = [at EXCEPT ![p] = "load tail"]
      /\ tail' = IF tail = local[p].old THEN local[p].next ELSE tail
  BY DEF Queue!Help, Queue!Go
<1>5. tail' = tail \/ tail' = N[Newest]
  <2>1. CASE tail # local[p].old
    BY <1>4, <2>1
  <2>2. CASE tail = local[p].old
    <3>1. i = k /\ Newest \in Nat /\ i \in Nat
      <4>1. ListIs(N)
        BY DEF ListInv
      <4>2. N[i] = N[k]
        BY <1>2, <1>3, <2>2
      <4>3. i = k
        BY <4>1, <4>2, ListFacts
      <4>4. Newest \in Nat /\ InList \subseteq Nat
        BY <4>1, ListFacts
      <4>5. QED
        BY <4>3, <4>4
    <3>2. i = Newest - 1 /\ i + 1 = Newest
      BY <1>2, <1>3, <3>1
    <3>3. QED
      BY <1>2, <1>4, <2>2, <3>2
  <2>3. QED
    BY <2>1, <2>2
<1>6. local[p] \in Locals /\ local' = [local EXCEPT ![p] = local[p]]
  BY <1>1, <1>4 DEF QueueTypes
<1>7. GoesOn(p, "load tail")
  BY <1>1, <1>4 DEF GoesOn, HasTaken
<1>8. local[p].null # NoNode => OthersNode(N, local[p].null)
  BY <1>1, KnowsNew
<1>9. QED
  BY <1>1, <1>4, <1>5, <1>6, <1>7, <1>8, TryingStep

-----------------------------------------------------------------------------
(* The steps of a push that has linked its node *)

\* What a push that has linked its node does changes nothing for the others.
LEMMA PutStep ==
    ASSUME Standing, NEW N \in Nodes, ListInv(N), NEW p \in Producers, HasPut(p),
           NEW s \in {"count", "idle"}, at' = [at EXCEPT ![p] = s],
           NEW l \in Locals, local' = [local EXCEPT ![p] = l],
           hand' \in [Threads -> Pairs \cup {Nothing}],
           \A q \in Threads : q # p => hand'[q] = hand[q],
           UNCHANGED <<head, next, data, live, put, got, met>>,
           tail' = tail \/ tail' = N[Newest],
           TailIs(N)'
    PROVE  QueueTypes' /\ ListInv(N)'
<1>0. QueueTypes
  BY DEF Standing
<1>1. /\ p \in Threads /\ at'[p] = s /\ at' \in [Threads -> Places]
      /\ local' \in [Threads -> Locals]
      /\ \A u \in Threads : u # p => at'[u] = at[u] /\ local'[u] = local[u]
  BY <1>0 DEF QueueTypes, Threads, Places, PushPlaces
<1>2. ~Trying(p) /\ ~Trying(p)' /\ ~HasTail(p)' /\ at'[p] # "swing"
  BY <1>1 DEF Trying, HasTail, HasPut
<1>3. QueueTypes'
  <2>1. \A q \in Producers : at'[q] \in PushPlaces
    BY <1>0, <1>1 DEF QueueTypes, PushPlaces, Threads
  <2>2. \A c \in Consumers : at'[c] \in PopPlaces
    BY <1>0, <1>1, PlacesOfPushes DEF QueueTypes, Threads
  <2>3. QED
    BY <1>0, <1>1, <2>1, <2>2 DEF QueueTypes
<1>4. Newest' = Newest /\ Oldest' = Oldest /\ InList' = InList
  BY DEF Newest, Oldest, InList
<1>5. ListIs(N)'
  BY ListStays DEF ListInv
<1>6. \A r \in Producers : Trying(r)' => Trying(r) /\ local'[r].new = local[r].new
  BY <1>1, <1>2 DEF Trying, Threads
<1>7. ASSUME NEW q \in Producers, q # p PROVE PushKnows(N, q)'
  <2>1. \A r \in Producers : Trying(q) /\ Trying(r)' /\ local'[r].new = local[q].new => r = q
    BY <1>6, NewNodesDiffer
  <2>2. at'[q] = at[q] /\ local'[q] = local[q] /\ hand'[q] = hand[q] /\ MetGrows
    BY <1>1, <1>7 DEF Threads, MetGrows
  <2>3. QED
    BY <1>1, <2>1, <2>2, PushStaysRight
<1>8. PushKnows(N, p)'
  BY <1>2 DEF PushKnows
<1>9. ASSUME NEW c \in Consumers PROVE PopKnows(N, c)'
  <2>1. at'[c] = at[c] /\ local'[c] = local[c]
    BY <1>0, <1>1, PlacesOfPushes
  <2>2. QED
    BY <1>1, <1>6, <2>1, PopStaysRight
<1>10. NodesAreKnown(N)'
  <2>1. \A q \in Producers : Trying(q) => Trying(q)' /\ local'[q].new = local[q].new
    BY <1>1, <1>2 DEF Trying, Threads
  <2>2. \A c \in Consumers : Deleting(c) => Deleting(c)' /\ local'[c].old = local[c].old
    BY <1>0, <1>1, PlacesOfPushes DEF Deleting
  <2>3. QED
    BY <1>4, <2>1, <2>2, KnownStay
<1>11. QED
  BY <1>3, <1>5, <1>7, <1>8, <1>9, <1>10 DEF ListInv

\* The push that has linked the last node moves the tail to it; an earlier one
\* finds that the tail is on a later node, and leaves it.
LEMMA SwingStep ==
    ASSUME Standing, NEW N \in Nodes, ListInv(N), NEW p \in Producers,
           Queue!Swing(p), UNCHANGED <<poolVars, hand, met>>
    PROVE  Standing' /\ ListInv(N)'
<1>1. QueueTypes /\ p \in Threads /\ at[p] = "swing" /\ HasPut(p)
  BY DEF Standing, Queue!Swing, Threads, HasPut
<1>2. /\ UNCHANGED <<head, size, next, data, live, local, put, got>>
      /\ at' = [at EXCEPT ![p] = "count"]
      /\ tail' = IF tail = local[p].old THEN local[p].new ELSE tail
  BY DEF Queue!Swing, Queue!Go
<1>3. Swings(N, p)
  BY <1>1 DEF ListInv, PushKnows
<1>4. PICK i \in 1 .. Newest : /\ local[p].old = N[i - 1] /\ local[p].new = N[i]
                               /\ met # "push" => i = Newest
                               /\ met # "pop" => Oldest <= i - 1
  BY <1>3 DEF Swings
<1>5. TailIs(N) /\ ListIs(N)
  BY DEF ListInv
<1>6. /\ Newest \in Nat /\ Oldest \in Nat /\ Oldest <= Newest
      /\ \A j \in InList, k \in InList : N[j] = N[k] => j = k
  BY <1>5, ListFacts
<1>7. Newest' = Newest /\ Oldest' = Oldest
  BY <1>2 DEF Newest, Oldest
<1>8. tail' = N[Newest] \/ (tail' = tail /\ tail # local[p].old)
  <2>1. CASE i = Newest
    BY <1>2, <1>4, <2>1
  <2>2. CASE i # Newest
    <3>1. i - 1 \in InList /\ Newest - 1 \in InList /\ Newest \in InList
          /\ i - 1 # Newest - 1 /\ i - 1 # Newest
      BY <1>4, <1>6, <2>2 DEF InList
    <3>2. tail # local[p].old
      BY <1>4, <1>5, <1>6, <3>1 DEF TailIs
    <3>3. QED
      BY <1>2, <3>2
  <2>3. QED
    BY <2>1, <2>2
<1>9. TailIs(N)'
  <2>1. CASE tail' = N[Newest]
    BY <1>7, <2>1 DEF TailIs
  <2>2. CASE tail' # N[Newest]
    <3>1. /\ tail' = tail /\ 0 < Newest /\ tail = N[Newest - 1]
          /\ met # "pop" => Oldest < Newest
      BY <1>5, <1>8, <2>2 DEF TailIs
    <3>2. PICK q \in Producers : /\ at[q] = "swing" /\ local[q].old = N[Newest - 1]
                                 /\ local[q].new = N[Newest]
      BY <1>5, <1>8, <2>2 DEF TailIs
    <3>3. tail # local[p].old
      BY <1>8, <2>2
    <3>4. at'[q] = "swing" /\ local' = local /\ met' = met
      BY <1>1, <1>2, <3>1, <3>2, <3>3 DEF QueueTypes, Threads
    <3>5. QED
      BY <1>7, <3>1, <3>2, <3>4 DEF TailIs
  <2>3. QED
    BY <2>1, <2>2
<1>10. GoesOn(p, "count")
  BY <1>1, <1>2 DEF GoesOn, HasTaken
<1>11. local[p] \in Locals /\ local' = [local EXCEPT ![p] = local[p]]
  BY <1>1, <1>2 DEF QueueTypes
<1>12. Discipline' /\ HandsAreRight' /\ Counted' /\ PoolInv' /\ LentAreHeld'
  BY <1>1, <1>10, QuietStep
<1>13. hand' \in [Threads -> Pairs \cup {Nothing}] /\ hand' = hand
  BY <1>1 DEF QueueTypes
<1>14. QueueTypes' /\ ListInv(N)'
  BY <1>1, <1>2, <1>8, <1>9, <1>11, <1>13, PutStep
<1>15. QED
  BY <1>12, <1>14 DEF Standing

\* The push counts its item and returns.
LEMMA PushReturnsStep ==
    ASSUME Standing, NEW N \in Nodes, ListInv(N), NEW p \in Producers, PushReturns(p)
    PROVE  Standing' /\ ListInv(N)'
<1>1. QueueTypes /\ p \in Threads /\ at[p] = "count" /\ HasPut(p)
  BY DEF Standing, PushReturns, Queue!Count, Threads, HasPut
<1>2. /\ at' = [at EXCEPT ![p] = "idle"]
      /\ size' = (size + 1) % SizeModulus
      /\ hand' = [hand EXCEPT ![p] = Nothing]
      /\ UNCHANGED <<head, tail, next, data, live, put, got, met>>
      /\ UNCHANGED poolVars /\ UNCHANGED lent
      /\ local' = [local EXCEPT ![p] = Queue!NoLocals]
  BY DEF PushReturns, Queue!Count, Queue!Go, Give, poolVars
<1>3. /\ at'[p] = "idle" /\ hand'[p] = Nothing
      /\ \A u \in Threads : u # p => at'[u] = at[u] /\ hand'[u] = hand[u]
                                     /\ local'[u] = local[u]
      /\ hand' \in [Threads -> Pairs \cup {Nothing}]
  BY <1>1, <1>2 DEF QueueTypes
<1>4. Newest' = Newest /\ Oldest' = Oldest
  BY <1>2 DEF Newest, Oldest
<1>5. QueueTypes' /\ ListInv(N)'
  <2>1. Queue!NoLocals \in Locals
    BY DEF Queue!NoLocals, Locals, NodeOrNone
  <2>2. \A q \in Producers : at[q] = "swing" => at'[q] = at[q] /\ local'[q] = local[q]
    BY <1>1, <1>3 DEF Threads
  <2>3. TailIs(N)'
    BY <1>2, <2>2, TailStays
  <2>4. QED
    BY <1>1, <1>2, <1>3, <2>1, <2>3, PutStep
<1>6. /\ \A u \in Threads : HasTaken(u)' <=> HasTaken(u)
      /\ \A u \in Threads : HasPut(u)' <=> HasPut(u) /\ u # p
  BY <1>1, <1>3 DEF HasTaken, HasPut
<1>7. /\ Queue!Pushing' \subseteq Queue!Pushing /\ Queue!Popping' = Queue!Popping
      /\ p \notin Queue!Popping
  BY <1>1, <1>3, PlacesOfPushes, ThreadsPushOrPop DEF Queue!Pushing, Queue!Popping, Threads
<1>8. Discipline'
  BY <1>2, <1>7 DEF Standing, Discipline
<1>9. HandsAreRight'
  <2>1. p \notin Queue!Pushing'
    BY <1>3 DEF Queue!Pushing
  <2>2. \A t \in Queue!Pushing' \cup Queue!Popping' : t # p /\ t \in Threads
    BY <1>7, <2>1 DEF Queue!Pushing, Queue!Popping, Threads
  <2>3. QED
    BY <1>3, <1>7, <2>2 DEF Standing, HandsAreRight
<1>10. SizeIsRight'
  <2>1. Linked' = Linked \ {p} /\ p \in Linked
    BY <1>1, <1>6 DEF Linked, Threads
  <2>2. Popped' = Popped
    BY <1>6 DEF Popped, Threads
  <2>3. Cardinality(Linked') = Cardinality(Linked) - 1
    BY <2>1, Numbers, FS_RemoveElement
  <2> DEFINE k == Newest - Oldest + Popped - Cardinality(Linked)
  <2>4. k \in Int /\ Newest' - Oldest' + Popped' - Cardinality(Linked') = k + 1
    BY <1>4, <2>2, <2>3, Numbers
  <2>5. size = k % SizeModulus
    BY DEF Standing, Counted, SizeIsRight
  <2> HIDE DEF k
  <2>6. (size + 1) % SizeModulus = (k + 1) % SizeModulus
    BY <2>4, <2>5, CountsAround, SizeWraps
  <2>7. QED
    BY <1>2, <2>4, <2>6 DEF SizeIsRight
<1>11. Bounded'
  <2>1. Beginning' = Beginning
    BY <1>1, <1>3, <1>6 DEF Beginning, Threads
  <2>2. QED
    BY <1>4, <2>1 DEF Standing, Counted, Bounded
<1>12. PoolInv'
  BY <1>2, PoolStays DEF Standing
<1>13. LentAreHeld'
  <2>1. Popped' = Popped
    BY <1>6 DEF Popped, Threads
  <2>2. \A t \in Threads : Holding(t)' = Holding(t)
    BY <1>1, <1>3, <1>6 DEF Holding
  <2>3. QED
    BY <1>2, <2>1, <2>2, HoldersStay
<1>14. QED
  BY <1>5, <1>8, <1>9, <1>10, <1>11, <1>12, <1>13 DEF Standing, Counted

-----------------------------------------------------------------------------
(* A push begins *)

\* A push makes its node where no live node is.
LEMMA PushBeginsStep ==
    ASSUME Standing, NEW N \in Nodes, ListInv(N), NEW p \in Producers, CarefulPush(p)
    PROVE  Standing' /\ ListInv(N)'
<1>1. QueueTypes /\ p \in Threads /\ at[p] = "idle" /\ live \subseteq Addresses
  BY DEF Standing, CarefulPush, Push, Queue!push, Threads, QueueTypes
<1>2. PICK n \in Addresses \ live :
         /\ live' = live \cup {n}
         /\ next' = [next EXCEPT ![n] = NoNode]
         /\ data' = [data EXCEPT ![n] = hand[p]]
         /\ local' = [local EXCEPT ![p] = [Queue!NoLocals EXCEPT !.new = n]]
  BY DEF CarefulPush, Push, Queue!push
<1>3. /\ at' = [at EXCEPT ![p] = "load tail"]
      /\ UNCHANGED <<head, tail, size, put, got, hand, lent>>
      /\ UNCHANGED poolVars
  BY DEF CarefulPush, Push, Queue!push, Queue!Go, poolVars
<1>4. /\ Queue!Pushing = {} \/ (Queue!Popping = {} /\ met # "pop")
      /\ met' = IF Queue!Popping # {} THEN "pop"
                ELSE IF Queue!Pushing # {} THEN "push" ELSE "none"
  BY DEF CarefulPush, Push
<1>5. hand[p] \in Pairs /\ hand[p] # Nothing
  BY LentIsSomething DEF CarefulPush, Push, Standing, PoolInv
<1> DEFINE l == [Queue!NoLocals EXCEPT !.new = n]
<1>6. l \in Locals /\ l.new = n /\ l.null = NoNode
  BY DEF Queue!NoLocals, Locals, NodeOrNone
<1>7. /\ at'[p] = "load tail" /\ local'[p] = l
      /\ \A u \in Threads : u # p => at'[u] = at[u] /\ local'[u] = local[u]
  BY <1>1, <1>2, <1>3 DEF QueueTypes
<1>8. Newest' = Newest /\ Oldest' = Oldest /\ InList' = InList
  BY <1>3 DEF Newest, Oldest, InList
<1>9. /\ \A a \in live : next'[a] = next[a] /\ data'[a] = data[a]
      /\ next'[n] = NoNode /\ data'[n] = hand[p]
      /\ live \subseteq live' /\ n \in live'
  BY <1>1, <1>2 DEF QueueTypes
<1> HIDE DEF l
<1>10. QueueTypes'
  <2>1. at' \in [Threads -> Places] /\ local' \in [Threads -> Locals]
    BY <1>1, <1>2, <1>3, <1>6 DEF QueueTypes, Places, PushPlaces, l
  <2>2. \A q \in Producers : at'[q] \in PushPlaces
    BY <1>1, <1>7 DEF QueueTypes, PushPlaces, Threads
  <2>3. \A c \in Consumers : at'[c] \in PopPlaces
    BY <1>1, <1>7, PlacesOfPushes DEF QueueTypes, Threads
  <2>4. /\ next' \in [Addresses -> NodeOrNone] /\ live' \subseteq Addresses
        /\ data' \in [Addresses -> Pairs \cup {Nothing}]
    BY <1>1, <1>2, <1>5 DEF QueueTypes, NodeOrNone
  <2>5. QED
    BY <1>1, <1>3, <2>1, <2>2, <2>3, <2>4 DEF QueueTypes
<1>11. /\ Queue!Pushing' = Queue!Pushing \cup {p}
       /\ Queue!Popping' = Queue!Popping /\ p \notin Queue!Pushing
  BY <1>1, <1>7, PlacesOfPushes DEF Queue!Pushing, Queue!Popping, Threads
<1>12. Discipline'
  BY <1>4, <1>11 DEF Standing, Discipline
<1>13. HandsAreRight'
  BY <1>3, <1>5, <1>11 DEF Standing, HandsAreRight
<1>14. /\ \A u \in Threads : HasTaken(u)' <=> HasTaken(u)
       /\ \A u \in Threads : HasPut(u)' <=> HasPut(u)
  BY <1>1, <1>7 DEF HasTaken, HasPut
<1>15. Linked' = Linked /\ Popped' = Popped /\ Beginning' = Beginning
  BY <1>3, <1>14 DEF Linked, Popped, Beginning, Threads
<1>16. Counted'
  BY <1>3, <1>15, FiguresStay
<1>17. PoolInv'
  BY <1>3, PoolStays DEF Standing
<1>18. LentAreHeld'
  <2>1. \A t \in Threads : Holding(t)' = Holding(t)
    BY <1>3, <1>14 DEF Holding
  <2>2. QED
    BY <1>3, <1>15, <2>1, HoldersStay
<1>19. Standing'
  BY <1>10, <1>12, <1>13, <1>16, <1>17, <1>18 DEF Standing
<1>20. ListIs(N)'
  BY <1>3, <1>9, ListStays DEF ListInv
<1>21. TailIs(N)'
  <2>1. CASE tail = N[Newest]
    BY <1>3, <1>8, <2>1 DEF TailIs
  <2>2. CASE tail # N[Newest]
    <3>1. PICK q \in Producers : /\ at[q] = "swing" /\ local[q].old = N[Newest - 1]
                                 /\ local[q].new = N[Newest]
      BY <2>2 DEF ListInv, TailIs
    <3>2. /\ 0 < Newest /\ tail = N[Newest - 1]
          /\ met # "pop" => Oldest < Newest
      BY <2>2 DEF ListInv, TailIs
    <3>3. q \in Queue!Pushing
      BY <3>1 DEF Queue!Pushing
    <3>4. Oldest < Newest
      BY <1>4, <3>2, <3>3
    <3>5. at'[q] = "swing" /\ local'[q] = local[q]
      BY <1>1, <1>7, <3>1 DEF Threads
    <3>6. QED
      BY <1>3, <1>8, <3>1, <3>2, <3>4, <3>5 DEF TailIs
  <2>3. QED
    BY <2>1, <2>2
<1>22. /\ Trying(p)' /\ ~HasTail(p)' /\ ~Trying(p) /\ local'[p].new = n
       /\ \A r \in Producers : r # p /\ Trying(r)' => Trying(r) /\ local'[r].new = local[r].new
       /\ \A r \in Producers : Trying(r) => Trying(r)' /\ local'[r].new = local[r].new
  BY <1>1, <1>6, <1>7 DEF Trying, HasTail, Threads
<1>23. \A q \in Producers : Trying(q) => local[q].new \in live /\ local[q].new # n
  BY <1>2, KnowsNew
<1>24. ASSUME NEW q \in Producers, q # p PROVE PushKnows(N, q)'
  <2>1. \A r \in Producers : Trying(q) /\ Trying(r)' /\ local'[r].new = local[q].new => r = q
    BY <1>22, <1>23, NewNodesDiffer
  <2>2. at'[q] = at[q] /\ local'[q] = local[q] /\ hand'[q] = hand[q]
    BY <1>3, <1>7, <1>24 DEF Threads
  <2>3. at[q] \notin {"idle", "gone"} => MetGrows
    BY <1>4 DEF MetGrows, Queue!Pushing
  <2>4. QED
    BY <1>3, <1>9, <2>1, <2>2, <2>3, PushStaysRight
<1>25. PushKnows(N, p)'
  <2>1. \A i \in InList : N[i] \in live
    BY ListFacts DEF ListInv
  <2>2. local'[p].null = NoNode
    BY <1>6, <1>7
  <2>3. \A r \in Producers : Trying(r)' /\ local'[r].new = local'[p].new => r = p
    BY <1>22, <1>23
  <2>4. NewNode(N, p)'
    <3>1. \A i \in InList : n # N[i]
      BY <1>2, <2>1
    <3>2. /\ n \in live' /\ next'[n] = NoNode /\ data'[n] = hand'[p]
      BY <1>3, <1>9
    <3>3. QED
      BY <1>8, <1>22, <2>2, <2>3, <3>1, <3>2 DEF NewNode
  <2>5. QED
    BY <1>7, <1>22, <2>4 DEF PushKnows
<1>26. ASSUME NEW c \in Consumers PROVE PopKnows(N, c)'
  <2>1. at'[c] = at[c] /\ local'[c] = local[c]
    BY <1>1, <1>7, PlacesOfPushes
  <2>2. \A r \in Producers : Trying(r)' =>
              local'[r].new \notin live \/ (Trying(r) /\ local'[r].new = local[r].new)
    BY <1>2, <1>22
  <2>3. QED
    BY <1>3, <1>9, <2>1, <2>2, PopStaysRight
<1>27. NodesAreKnown(N)'
  <2>1. \A c \in Consumers : Deleting(c) => Deleting(c)' /\ local'[c].old = local[c].old
    BY <1>1, <1>7, PlacesOfPushes DEF Deleting
  <2>2. ASSUME NEW a \in live
        PROVE  \/ \E i \in InList : a = N[i]
               \/ \E q \in Producers : Trying(q)' /\ a = local'[q].new
               \/ \E c \in Consumers : Deleting(c)' /\ a = local'[c].old
    BY <1>22, <2>1 DEF ListInv, NodesAreKnown
  <2>3. \E q \in Producers : Trying(q)' /\ n = local'[q].new
    BY <1>22
  <2>4. QED
    BY <1>2, <1>8, <2>2, <2>3 DEF NodesAreKnown
<1>28. QED
  BY <1>19, <1>20, <1>21, <1>24, <1>25, <1>26, <1>27 DEF ListInv

-----------------------------------------------------------------------------
(* A push links its node *)

\* A compare-exchange that succeeds is at the last node: null_node is nullptr
\* there, for a node that a failed one brought is linked before the old tail.
LEMMA LinksAtTheLast ==
    ASSUME Standing, NEW N \in Nodes, ListInv(N), NEW p \in Producers,
           at[p] = "link", next[local[p].old] = local[p].null
    PROVE  local[p].old = N[Newest] /\ tail = N[Newest]
<1>1. OldTail(N, p)
  BY KnowsTail DEF HasTail
<1>2. PICK i \in InList :
        /\ local[p].old = N[i]
        /\ i = Newest => tail = N[Newest]
        /\ local[p].next = NoNode
        /\ \/ i < Newest /\ local[p].next = N[i + 1]
           \/ local[p].null # NoNode => \E j \in Oldest + 1 .. i : local[p].null = N[j]
  BY <1>1 DEF OldTail
<1>3. /\ Newest \in Nat /\ Oldest \in Nat /\ i \in Nat /\ i <= Newest /\ Oldest <= i
      /\ \A j \in InList, k \in InList : N[j] = N[k] => j = k
      /\ \A j \in InList : N[j] # NoNode
      /\ next[N[i]] = IF i = Newest THEN NoNode ELSE N[i + 1]
  BY ListFacts DEF ListInv, InList
<1>4. SUFFICES ASSUME i # Newest PROVE FALSE
  BY <1>2
<1>5. i + 1 \in InList /\ N[i + 1] # NoNode /\ local[p].null = N[i + 1]
  BY <1>2, <1>3, <1>4 DEF InList
<1>6. PICK j \in Oldest + 1 .. i : N[i + 1] = N[j]
  BY <1>2, <1>5
<1>7. j \in InList /\ j # i + 1
  BY <1>3, <1>6 DEF InList
<1>8. QED
  BY <1>3, <1>5, <1>6, <1>7

\* What Link does where it succeeds.
Links(p, n, x) ==
    /\ at[p] = "link" /\ n = local[p].new /\ x = data[n]
    /\ next' = [next EXCEPT ![local[p].old] = n]
    /\ put' = Append(put, x)
    /\ at' = [at EXCEPT ![p] = "swing"]
    /\ UNCHANGED <<head, tail, size, data, live, local, got, hand, met, lent>>
    /\ UNCHANGED poolVars

\* What such a link changes in the items, the places and the counts.
LEMMA LinkFacts ==
    ASSUME Standing, NEW N \in Nodes, ListInv(N), NEW p \in Producers, NEW n, NEW x,
           Links(p, n, x)
    PROVE  /\ p \in Threads /\ at'[p] = "swing" /\ Trying(p) /\ p \in Queue!Pushing
           /\ \A u \in Threads : u # p => at'[u] = at[u]
           /\ Newest' = Newest + 1 /\ Oldest' = Oldest
           /\ x = hand[p] /\ x \in Pairs /\ x # Nothing
           /\ put' \in Seq(Pairs) /\ put'[Newest + 1] = x
           /\ \A i \in 1 .. Newest : put'[i] = put[i]
           /\ Newest + 1 <= MaxPushes
           /\ Beginning' = Beginning \ {p} /\ p \in Beginning
           /\ Linked' = Linked \cup {p} /\ p \notin Linked
           /\ Popped' = Popped
<1>1. QueueTypes /\ p \in Threads /\ at[p] = "link" /\ Trying(p) /\ p \in Queue!Pushing
  BY DEF Standing, Links, Threads, Trying, Queue!Pushing
<1>2. at'[p] = "swing" /\ \A u \in Threads : u # p => at'[u] = at[u]
  BY <1>1 DEF QueueTypes, Links
<1>3. x = hand[p] /\ x \in Pairs /\ x # Nothing
  <2>1. data[local[p].new] = hand[p]
    BY <1>1, KnowsNew
  <2>2. hand[p] # Nothing /\ hand[p] \in Pairs
    BY <1>1 DEF Standing, HandsAreRight, QueueTypes
  <2>3. QED
    BY <2>1, <2>2 DEF Links
<1>4. put \in Seq(Pairs) /\ put' = Append(put, x)
  BY <1>1 DEF QueueTypes, Links
<1>5. /\ put' \in Seq(Pairs) /\ put'[Newest + 1] = x
      /\ \A i \in 1 .. Newest : put'[i] = put[i]
      /\ Newest' = Newest + 1 /\ Oldest' = Oldest
  <2>1. Len(put') = Len(put) + 1 /\ put' \in Seq(Pairs) /\ put'[Len(put) + 1] = x
        /\ \A i \in 1 .. Len(put) : put'[i] = put[i]
    BY <1>3, <1>4, AppendProperties
  <2>2. QED
    BY <2>1 DEF Newest, Oldest, Links
<1>6. /\ \A u \in Threads : HasTaken(u)' <=> HasTaken(u)
      /\ \A u \in Threads : HasPut(u)' <=> HasPut(u) \/ u = p
      /\ ~HasPut(p)
  BY <1>1, <1>2 DEF HasTaken, HasPut
<1>7. /\ Beginning' = Beginning \ {p} /\ p \in Beginning
      /\ Linked' = Linked \cup {p} /\ p \notin Linked
      /\ Popped' = Popped
  BY <1>3, <1>6 DEF Beginning, Linked, Popped, Threads, Links
<1>8. Newest + 1 <= MaxPushes
  <2>1. Cardinality(Beginning) # 0
    BY <1>7, Numbers, FS_EmptySet
  <2>2. QED
    BY <2>1, Numbers, BoundsAreNumbers DEF Standing, Counted, Bounded
<1>9. QED
  BY <1>1, <1>2, <1>3, <1>5, <1>7, <1>8

\* The item leaves the producer's hand for the queue.
LEMMA LinkKeepsStanding ==
    ASSUME Standing, NEW N \in Nodes, ListInv(N), NEW p \in Producers, NEW n, NEW x,
           Links(p, n, x), local[p].old \in Addresses, n \in Addresses
    PROVE  Standing'
<1>1. QueueTypes
  BY DEF Standing
<1>2. QueueTypes'
  <2>1. at' \in [Threads -> Places] /\ next' \in [Addresses -> NodeOrNone]
    BY <1>1 DEF QueueTypes, Links, Places, PushPlaces, NodeOrNone
  <2>2. \A q \in Producers : at'[q] \in PushPlaces
    BY <1>1, LinkFacts DEF QueueTypes, PushPlaces, Threads
  <2>3. \A c \in Consumers : at'[c] \in PopPlaces
    BY <1>1, LinkFacts, PlacesOfPushes DEF QueueTypes
  <2>4. put' \in Seq(Pairs)
    BY LinkFacts
  <2>5. QED
    BY <1>1, <2>1, <2>2, <2>3, <2>4 DEF QueueTypes, Links
<1>3. Queue!Pushing' = Queue!Pushing /\ Queue!Popping' = Queue!Popping
  <2>1. p \in Queue!Pushing /\ at'[p] = "swing" /\ \A u \in Threads : u # p => at'[u] = at[u]
    BY LinkFacts
  <2>2. p \notin Consumers
    BY ThreadsPushOrPop
  <2>3. QED
    BY <2>1, <2>2 DEF Queue!Pushing, Queue!Popping, Threads
<1>4. Discipline' /\ HandsAreRight'
  BY <1>3 DEF Standing, Discipline, HandsAreRight, Links
<1>5. SizeIsRight'
  <2>1. Cardinality(Linked') = Cardinality(Linked) + 1
    BY LinkFacts, Numbers, FS_AddElement
  <2>2. /\ Newest' = Newest + 1 /\ Oldest' = Oldest /\ Popped' = Popped
        /\ Newest \in Nat /\ Oldest \in Nat /\ Popped \in 0 .. 1 /\ Cardinality(Linked) \in Nat
    BY LinkFacts, Numbers
  <2>3. Newest' - Oldest' + Popped' - Cardinality(Linked')
          = Newest - Oldest + Popped - Cardinality(Linked)
    BY <2>1, <2>2
  <2>4. QED
    BY <2>3 DEF Standing, Counted, SizeIsRight, Links
<1>6. Bounded'
  <2>1. Cardinality(Beginning') = Cardinality(Beginning) - 1
    BY LinkFacts, Numbers, FS_RemoveElement
  <2>2. Newest' = Newest + 1 /\ Newest \in Nat /\ Cardinality(Beginning) \in Nat
    BY LinkFacts, Numbers
  <2>3. QED
    BY <2>1, <2>2, BoundsAreNumbers DEF Standing, Counted, Bounded
<1>7. PoolInv'
  BY PoolStays DEF Standing, Links
<1>8. LentAreHeld'
  <2>1. /\ Newest' = Newest + 1 /\ Oldest' = Oldest /\ Popped' = Popped
        /\ Newest \in Nat /\ Oldest \in Nat /\ Popped \in 0 .. 1 /\ Oldest <= Newest
        /\ put'[Newest + 1] = x /\ x # Nothing /\ lent' = lent /\ p \in Threads
        /\ \A i \in 1 .. Newest : put'[i] = put[i]
    <3>1. Oldest <= Newest
      BY DEF ListInv, ListIs
    <3>2. lent' = lent
      BY DEF Links
    <3>3. QED
      BY <3>1, <3>2, LinkFacts, Numbers
  <2>2. /\ \A i \in 1 .. Newest : Queued(i)' <=> Queued(i)
        /\ \A i : i = Newest + 1 => Queued(i)'
        /\ \A i \in 1 .. Newest + 1 : i \in 1 .. Newest \/ i = Newest + 1
        /\ \A i \in 1 .. Newest : i \in 1 .. Newest + 1 /\ i # Newest + 1
        /\ Newest + 1 \in 1 .. Newest + 1
    BY <2>1 DEF Queued
  <2>3. /\ Holding(p) = x /\ Holding(p)' = Nothing
        /\ \A u \in Threads : u # p => Holding(u)' = Holding(u)
    BY LinkFacts DEF Holding, HasPut, Links
  <2>4. LentAreHeld
    BY DEF Standing
  <2>5. x \in lent /\ \A u \in Threads : Holding(u) = x => u = p
    BY <2>1, <2>3, <2>4 DEF LentAreHeld
  <2>6. \A i \in 1 .. Newest : Queued(i) => put[i] # x
    BY <2>1, <2>3, <2>4 DEF LentAreHeld
  <2>7. ASSUME NEW b \in lent
        PROVE  \/ \E i \in 1 .. Newest + 1 : Queued(i)' /\ put'[i] = b
               \/ \E t \in Threads : Holding(t)' = b
    <3>1. CASE b = x
      BY <2>1, <2>2, <3>1
    <3>2. CASE b # x
      BY <2>1, <2>2, <2>3, <2>4, <3>2 DEF LentAreHeld
    <3>3. QED
      BY <3>1, <3>2
  <2>8. ASSUME NEW i \in 1 .. Newest + 1, Queued(i)'
        PROVE  /\ put'[i] \in lent
               /\ \A j \in 1 .. Newest + 1 : Queued(j)' /\ put'[i] = put'[j] => i = j
               /\ \A t \in Threads : Holding(t)' # put'[i]
    <3>1. CASE i \in 1 .. Newest
      <4>1. /\ put[i] \in lent
            /\ \A j \in 1 .. Newest : Queued(j) /\ put[i] = put[j] => i = j
            /\ \A t \in Threads : Holding(t) # put[i]
        BY <2>2, <2>4, <2>8, <3>1 DEF LentAreHeld
      <4>2. put[i] # Nothing /\ put[i] # x
        BY <2>2, <2>6, <2>8, <3>1, <4>1, LentIsSomething
      <4>3. QED
        BY <2>1, <2>2, <2>3, <3>1, <4>1, <4>2
    <3>2. CASE i = Newest + 1
      BY <2>1, <2>2, <2>3, <2>5, <2>6, <3>2
    <3>3. QED
      BY <2>2, <3>1, <3>2
  <2>9. ASSUME NEW t \in Threads, Holding(t)' # Nothing
        PROVE  /\ Holding(t)' \in lent
               /\ \A u \in Threads : Holding(u)' = Holding(t)' => u = t
    BY <2>3, <2>4, <2>9 DEF LentAreHeld
  <2>10. QED
    BY <2>1, <2>7, <2>8, <2>9 DEF LentAreHeld
<1>9. QED
  BY <1>2, <1>4, <1>5, <1>6, <1>7, <1>8 DEF Standing, Counted

\* The node is the next one of the list, and the tail is left one behind.
LEMMA LinkKeepsList ==
    ASSUME Standing, NEW N \in Nodes, ListInv(N), NEW p \in Producers, NEW n, NEW x,
           Links(p, n, x), local[p].old = N[Newest], tail = N[Newest], n \in Addresses,
           NEW M, M = [N EXCEPT ![Newest + 1] = n]
    PROVE  M \in Nodes /\ ListInv(M)'
<1>1. /\ QueueTypes /\ p \in Threads /\ at[p] = "link" /\ at'[p] = "swing"
      /\ Trying(p) /\ p \in Queue!Pushing
      /\ \A u \in Threads : u # p => at'[u] = at[u]
      /\ Newest' = Newest + 1 /\ Oldest' = Oldest /\ put'[Newest + 1] = x
      /\ \A i \in 1 .. Newest : put'[i] = put[i]
      /\ Newest + 1 <= MaxPushes
  BY LinkFacts DEF Standing, Links
<1>2. /\ n = local[p].new /\ x = data[n]
      /\ next' = [next EXCEPT ![N[Newest]] = n]
      /\ head' = head /\ tail' = tail /\ data' = data /\ live' = live /\ local' = local
      /\ got' = got /\ hand' = hand /\ met' = met
  BY DEF Links
<1>3. ListIs(N) /\ TailIs(N) /\ NodesAreKnown(N)
  BY DEF ListInv
<1>4. /\ Newest \in Nat /\ Oldest \in Nat /\ Oldest <= Newest
      /\ Oldest \in InList /\ Newest \in InList /\ InList \subseteq Nat
      /\ InList \subseteq 0 .. MaxPushes
      /\ \A i \in InList : N[i] \in live /\ N[i] \in Addresses /\ N[i] # NoNode
      /\ \A i \in InList : next[N[i]] = IF i = Newest THEN NoNode ELSE N[i + 1]
      /\ \A i \in InList, j \in InList : N[i] = N[j] => i = j
  BY <1>3, ListFacts
<1>5. /\ n \in live /\ next[n] = NoNode
      /\ \A i \in InList : n # N[i]
  BY <1>1, <1>2, KnowsNew
<1>6. /\ InList' = InList \cup {Newest + 1} /\ Newest + 1 \notin InList
      /\ \A i \in InList : i <= Newest /\ Oldest <= i
      /\ \A i \in InList : i # Newest => i + 1 \in InList
  BY <1>1, <1>4 DEF InList
<1>7. /\ M \in Nodes /\ M[Newest + 1] = n
      /\ \A i \in 0 .. Newest : M[i] = N[i]
      /\ \A i \in InList : M[i] = N[i]
  <2>1. Newest + 1 \in 0 .. MaxPushes
    BY <1>1, <1>4
  <2>2. \A i \in 0 .. Newest : i \in 0 .. MaxPushes /\ i # Newest + 1
    BY <1>1, <1>4, BoundsAreNumbers
  <2>3. \A i \in InList : i \in 0 .. Newest
    BY <1>4, <1>6
  <2>4. QED
    BY <2>1, <2>2, <2>3 DEF Nodes
<1>8. /\ next'[N[Newest]] = n
      /\ \A a \in Addresses : a # N[Newest] => next'[a] = next[a]
  BY <1>1, <1>2, <1>4 DEF QueueTypes
<1> HIDE DEF InList
<1>9. ListIs(M)'
  <2>1. Oldest' <= Newest'
    BY <1>1, <1>4
  <2>2. head' = M[Oldest']
    BY <1>1, <1>2, <1>3, <1>4, <1>7 DEF ListIs
  <2>3. ASSUME NEW i \in InList'
        PROVE  /\ M[i] \in live'
               /\ \A j \in InList' : M[i] = M[j] => i = j
               /\ next'[M[i]] = IF i = Newest' THEN NoNode ELSE M[i + 1]
               /\ i > 0 => data'[M[i]] = put'[i]
    <3>1. CASE i \in InList
      <4>1. M[i] \in live' /\ i # Newest'
        BY <1>1, <1>2, <1>4, <1>6, <1>7, <3>1
      <4>2. \A j \in InList' : M[i] = M[j] => i = j
        BY <1>4, <1>5, <1>6, <1>7, <3>1
      <4>3. next'[M[i]] = M[i + 1]
        <5>1. CASE i = Newest
          <6>1. M[i] = N[Newest] /\ M[i + 1] = n
            BY <1>7, <3>1, <5>1
          <6>2. QED
            BY <1>8, <6>1
        <5>2. CASE i # Newest
          <6>1. /\ M[i] = N[i] /\ N[i] # N[Newest] /\ N[i] \in Addresses
                /\ next[N[i]] = N[i + 1] /\ i + 1 \in InList
            BY <1>4, <1>6, <1>7, <3>1, <5>2
          <6>2. M[i + 1] = N[i + 1]
            BY <1>7, <6>1
          <6>3. QED
            BY <1>8, <6>1, <6>2
        <5>3. QED
          BY <5>1, <5>2
      <4>4. i > 0 => data'[M[i]] = put'[i]
        <5>1. ASSUME i > 0 PROVE data[N[i]] = put[i] /\ put'[i] = put[i]
          <6>1. i \in 1 .. Newest
            BY <1>4, <1>6, <3>1, <5>1
          <6>2. QED
            BY <1>1, <1>3, <3>1, <5>1, <6>1 DEF ListIs
        <5>2. QED
          BY <1>2, <1>7, <3>1, <5>1
      <4>5. QED
        BY <4>1, <4>2, <4>3, <4>4
    <3>2. CASE i = Newest + 1
      <4>1. M[i] \in live' /\ M[i] = n /\ i = Newest'
        BY <1>1, <1>2, <1>5, <1>7, <3>2
      <4>2. \A j \in InList' : M[i] = M[j] => i = j
        BY <1>5, <1>6, <1>7, <3>2
      <4>3. next'[n] = NoNode
        BY <1>4, <1>5, <1>8
      <4>4. data'[n] = put'[i]
        BY <1>1, <1>2, <3>2
      <4>5. QED
        BY <4>1, <4>2, <4>3, <4>4
    <3>3. QED
      BY <1>6, <3>1, <3>2
  <2>4. \A i \in 1 .. Oldest' : got'[i] = put'[i]
    <3>1. \A i \in 1 .. Oldest : i \in 1 .. Newest
      BY <1>4
    <3>2. QED
      BY <1>1, <1>2, <1>3, <3>1 DEF ListIs
  <2>5. QED
    BY <2>1, <2>2, <2>3, <2>4 DEF ListIs
<1>10. TailIs(M)'
  <2>1. /\ Newest' - 1 = Newest /\ 0 < Newest' /\ Oldest' < Newest'
        /\ Newest \in 0 .. Newest
    BY <1>1, <1>4
  <2>2. /\ tail' = M[Newest' - 1]
        /\ at'[p] = "swing" /\ local'[p].old = M[Newest' - 1] /\ local'[p].new = M[Newest']
    BY <1>1, <1>2, <1>7, <2>1
  <2>3. QED
    BY <2>1, <2>2 DEF TailIs
<1>11. ASSUME NEW q \in Producers, q # p PROVE PushKnows(M, q)'
  <2>1. PushKnows(N, q)
    BY DEF ListInv
  <2>2. at'[q] = at[q] /\ q \in Threads
    BY <1>1, <1>11 DEF Threads
  <2>3. at[q] \notin {"idle", "gone"} => met = "push"
    <3>1. at[q] \notin {"idle", "gone"} => q \in Queue!Pushing
      BY DEF Queue!Pushing
    <3>2. QED
      BY <1>1, <1>11, <3>1, PushAlone
  <2>4. ASSUME Trying(q) PROVE NewNode(M, q)'
    <3>1. /\ local[q].new \in live
          /\ \A i \in InList : local[q].new # N[i]
          /\ next[local[q].new] = NoNode
          /\ data[local[q].new] = hand[q]
          /\ local[q].null # NoNode => OthersNode(N, local[q].null)
      BY <2>4, KnowsNew
    <3>2. local[q].new # n
      BY <1>1, <1>2, <1>11, <2>4, NewNodesDiffer
    <3>3. /\ next'[local[q].new] = NoNode
          /\ \A i \in InList' : local[q].new # M[i]
      BY <1>1, <1>4, <1>6, <1>7, <1>8, <3>1, <3>2 DEF QueueTypes
    <3>4. \A r \in Producers : Trying(r)' => Trying(r)
      BY <1>1 DEF Trying, Threads
    <3>5. \A r \in Producers : Trying(r)' /\ local'[r].new = local'[q].new => r = q
      BY <1>2, <2>4, <3>4, NewNodesDiffer
    <3>6. ASSUME OthersNode(N, local[q].null) PROVE OthersNode(M, local[q].null)'
      <4>1. PICK j \in Oldest + 1 .. Newest : local[q].null = N[j]
        BY <3>6 DEF OthersNode
      <4>2. j \in Oldest' + 1 .. Newest' /\ j \in 0 .. Newest
        BY <1>1, <1>4
      <4>3. met' = "push"
        BY <1>2, <3>6 DEF OthersNode
      <4>4. QED
        BY <1>2, <1>7, <4>1, <4>2, <4>3 DEF OthersNode
    <3>7. QED
      BY <1>2, <3>1, <3>3, <3>5, <3>6 DEF NewNode
  <2>5. ASSUME HasTail(q) PROVE OldTail(M, q)'
    <3>1. met = "push"
      BY <2>3, <2>5 DEF HasTail
    <3>2. PICK i \in InList :
            /\ local[q].old = N[i]
            /\ at[q] # "load next" =>
                  \/ i < Newest /\ local[q].next = N[i + 1]
                  \/ /\ local[q].next = NoNode
                     /\ local[q].null # NoNode => \E j \in Oldest + 1 .. i : local[q].null = N[j]
            /\ at[q] = "link" => local[q].next = NoNode
            /\ at[q] = "help" => local[q].next # NoNode
      BY <2>1, <2>5 DEF PushKnows, OldTail
    <3>3. i \in InList' /\ i # Newest' /\ M[i] = N[i]
      BY <1>1, <1>6, <1>7
    <3>4. at[q] # "load next" =>
             \/ i < Newest' /\ local[q].next = M[i + 1]
             \/ /\ local[q].next = NoNode
                /\ local[q].null # NoNode => \E j \in Oldest' + 1 .. i : local[q].null = M[j]
      <4>1. i < Newest => i < Newest' /\ M[i + 1] = N[i + 1]
        <5>1. i < Newest => i + 1 \in 0 .. Newest /\ i < Newest'
          BY <1>1, <1>4
        <5>2. QED
          BY <1>7, <5>1
      <4>2. \A j \in Oldest + 1 .. i : M[j] = N[j]
        <5>1. \A j \in Oldest + 1 .. i : j \in 0 .. Newest
          BY <1>4, <1>6
        <5>2. QED
          BY <1>7, <5>1
      <4>3. QED
        BY <1>1, <3>2, <4>1, <4>2
    <3>5. QED
      BY <1>2, <2>2, <3>1, <3>2, <3>3, <3>4 DEF OldTail
  <2>6. ASSUME at[q] = "swing" PROVE Swings(M, q)'
    <3>1. met = "push"
      BY <2>3, <2>6
    <3>2. PICK i \in 1 .. Newest :
            /\ local[q].old = N[i - 1] /\ local[q].new = N[i]
            /\ met # "pop" => Oldest <= i - 1
      BY <2>1, <2>6 DEF PushKnows, Swings
    <3>3. i \in 1 .. Newest' /\ i \in 0 .. Newest /\ i - 1 \in 0 .. Newest
      BY <1>1, <1>4
    <3>4. QED
      BY <1>1, <1>2, <1>7, <3>1, <3>2, <3>3 DEF Swings
  <2>7. /\ Trying(q)' => Trying(q)
        /\ HasTail(q)' => HasTail(q)
    BY <2>2 DEF Trying, HasTail
  <2>8. QED
    BY <2>2, <2>4, <2>5, <2>6, <2>7 DEF PushKnows
<1>12. PushKnows(M, p)'
  <2>1. ~Trying(p)' /\ ~HasTail(p)'
    BY <1>1 DEF Trying, HasTail
  <2>2. /\ Newest' \in 1 .. Newest' /\ Newest' - 1 = Newest /\ Oldest' <= Newest' - 1
        /\ Newest \in 0 .. Newest
    BY <1>1, <1>4
  <2>3. local'[p].old = M[Newest' - 1] /\ local'[p].new = M[Newest']
    BY <1>1, <1>2, <1>7, <2>2
  <2>4. Swings(M, p)'
    BY <2>2, <2>3 DEF Swings
  <2>5. QED
    BY <2>1, <2>4 DEF PushKnows
<1>13. ASSUME NEW c \in Consumers PROVE PopKnows(M, c)'
  <2>1. PopKnows(N, c)
    BY DEF ListInv
  <2>2. at'[c] = at[c]
    BY <1>1, PlacesOfPushes
  <2>3. (HasTaken(c)' <=> HasTaken(c)) /\ (Deleting(c)' <=> Deleting(c))
    BY <2>2 DEF HasTaken, Deleting
  <2>4. /\ Oldest < Newest => M[Oldest + 1] = N[Oldest + 1] /\ Oldest < Newest'
        /\ M[Oldest] = N[Oldest]
    <3>1. /\ Oldest < Newest => Oldest + 1 \in 0 .. Newest /\ Oldest < Newest'
          /\ Oldest \in 0 .. Newest
      BY <1>1, <1>4
    <3>2. QED
      BY <1>7, <3>1
  <2>5. ASSUME Deleting(c)
        PROVE  /\ local[c].old \in live
               /\ \A i \in InList' : local[c].old # M[i]
               /\ \A q \in Producers : Trying(q)' => local[q].new # local[c].old
    <3>1. /\ local[c].old \in live
          /\ \A i \in InList : local[c].old # N[i]
          /\ \A q \in Producers : Trying(q) => local[q].new # local[c].old
      BY <2>1, <2>5 DEF PopKnows
    <3>2. \A r \in Producers : Trying(r)' => Trying(r)
      BY <1>1 DEF Trying, Threads
    <3>3. QED
      BY <1>1, <1>2, <1>6, <1>7, <3>1, <3>2
  <2>6. QED
    BY <1>1, <1>2, <2>1, <2>2, <2>3, <2>4, <2>5 DEF PopKnows
<1>14. NodesAreKnown(M)'
  <2> SUFFICES ASSUME NEW a \in live
               PROVE  \/ \E i \in InList' : a = M[i]
                      \/ \E q \in Producers : Trying(q)' /\ a = local'[q].new
                      \/ \E c \in Consumers : Deleting(c)' /\ a = local'[c].old
    BY <1>2 DEF NodesAreKnown
  <2>1. CASE \E i \in InList : a = N[i]
    BY <1>6, <1>7, <2>1
  <2>2. CASE \E q \in Producers : Trying(q) /\ a = local[q].new
    <3>1. PICK q \in Producers : Trying(q) /\ a = local[q].new
      BY <2>2
    <3>2. CASE q = p
      BY <1>2, <1>6, <1>7, <3>1, <3>2
    <3>3. CASE q # p
      <4>1. Trying(q)'
        BY <1>1, <3>1, <3>3 DEF Trying, Threads
      <4>2. QED
        BY <1>2, <3>1, <4>1
    <3>4. QED
      BY <3>2, <3>3
  <2>3. CASE \E c \in Consumers : Deleting(c) /\ a = local[c].old
    <3>1. \A c \in Consumers : Deleting(c) => Deleting(c)'
      BY <1>1, PlacesOfPushes DEF Deleting
    <3>2. QED
      BY <1>2, <2>3, <3>1
  <2>4. QED
    BY <1>3, <2>1, <2>2, <2>3 DEF NodesAreKnown
<1>15. QED
  BY <1>7, <1>9, <1>10, <1>11, <1>12, <1>13, <1>14 DEF ListInv

\* The compare-exchange, failed or not.
LEMMA LinkStep ==
    ASSUME Standing, NEW N \in Nodes, ListInv(N), NEW p \in Producers,
           Queue!Link(p), UNCHANGED <<poolVars, hand, met>>
    PROVE  Standing' /\ \E M \in Nodes : ListInv(M)'
<1>1. CASE next[local[p].old] # local[p].null
  BY <1>1, LinkFailsStep
<1>2. CASE next[local[p].old] = local[p].null
  <2>1. at[p] = "link" /\ Trying(p)
    BY DEF Queue!Link, Trying
  <2>2. local[p].old = N[Newest] /\ tail = N[Newest]
    BY <1>2, <2>1, LinksAtTheLast
  <2>3. PICK n, x : n = local[p].new /\ x = data[n]
    OBVIOUS
  <2>4. Links(p, n, x)
    BY <1>2, <2>3 DEF Queue!Link, Queue!Go, Links, poolVars
  <2>5. n \in Addresses /\ local[p].old \in Addresses
    <3>1. N[Newest] \in Addresses
      BY ListFacts DEF ListInv
    <3>2. local[p].new \in live
      BY <2>1, KnowsNew
    <3>3. QED
      BY <2>2, <2>3, <3>1, <3>2 DEF Standing, QueueTypes
  <2>6. PICK M : M = [N EXCEPT ![Newest + 1] = n]
    OBVIOUS
  <2>7. QED
    BY <2>2, <2>4, <2>5, <2>6, LinkKeepsStanding, LinkKeepsList
<1>3. QED
  BY <1>1, <1>2

-----------------------------------------------------------------------------
(* The steps of a pop *)

\* There is only one.
LEMMA PopAlone ==
    ASSUME Standing, NEW c \in Queue!Popping, NEW d \in Consumers, d # c
    PROVE  at[d] = "idle"
<1>1. d \notin Queue!Popping
  BY DEF Standing, Discipline
<1>2. at[d] \in PopPlaces
  BY DEF Standing, QueueTypes
<1>3. QED
  BY <1>1, <1>2 DEF Queue!Popping, PopPlaces

\* What a pop does without taking an item changes nothing for the others.
LEMMA PopStep ==
    ASSUME Standing, NEW N \in Nodes, ListInv(N), NEW c \in Consumers,
           NEW s \in PopPlaces, at' = [at EXCEPT ![c] = s],
           NEW l \in Locals, local' = [local EXCEPT ![c] = l],
           Deleting(c) => s \in {"read data", "delete"} /\ l.old = local[c].old,
           hand' \in [Threads -> Pairs \cup {Nothing}],
           \A t \in Threads : t # c => hand'[t] = hand[t],
           UNCHANGED <<head, tail, next, data, live, put, got>>,
           Queue!Pushing # {} => MetGrows,
           PopKnows(N, c)'
    PROVE  QueueTypes' /\ ListInv(N)'
<1>0. QueueTypes
  BY DEF Standing
<1>1. /\ c \in Threads /\ at'[c] = s /\ local'[c] = l /\ at' \in [Threads -> Places]
      /\ local' \in [Threads -> Locals]
      /\ \A u \in Threads : u # c => at'[u] = at[u] /\ local'[u] = local[u]
  BY <1>0 DEF QueueTypes, Threads, Places
<1>2. ASSUME NEW p \in Producers
      PROVE  /\ at'[p] = at[p] /\ local'[p] = local[p] /\ hand'[p] = hand[p]
             /\ Trying(p)' <=> Trying(p)
             /\ p \in Threads
  <2>1. p \in Threads /\ p # c
    BY ThreadsPushOrPop DEF Threads
  <2>2. QED
    BY <1>1, <2>1 DEF Trying
<1>3. QueueTypes'
  <2>1. \A p \in Producers : at'[p] \in PushPlaces
    BY <1>0, <1>2 DEF QueueTypes
  <2>2. \A d \in Consumers : at'[d] \in PopPlaces
    BY <1>0, <1>1 DEF QueueTypes, Threads
  <2>3. QED
    BY <1>0, <1>1, <2>1, <2>2 DEF QueueTypes
<1>4. Newest' = Newest /\ Oldest' = Oldest /\ InList' = InList
  BY DEF Newest, Oldest, InList
<1>5. ListIs(N)'
  BY ListStays DEF ListInv
<1>6. TailIs(N)'
  <2>1. CASE tail = N[Newest]
    BY <1>4, <2>1 DEF TailIs
  <2>2. CASE tail # N[Newest]
    <3>1. PICK q \in Producers : /\ at[q] = "swing" /\ local[q].old = N[Newest - 1]
                                 /\ local[q].new = N[Newest]
      BY <2>2 DEF ListInv, TailIs
    <3>2. /\ 0 < Newest /\ tail = N[Newest - 1]
          /\ met # "pop" => Oldest < Newest
      BY <2>2 DEF ListInv, TailIs
    <3>3. MetGrows
      BY <3>1 DEF Queue!Pushing
    <3>4. met' # "pop" => Oldest < Newest
      BY <3>2, <3>3 DEF MetGrows
    <3>5. QED
      BY <1>2, <1>4, <3>1, <3>2, <3>4 DEF TailIs
  <2>3. QED
    BY <2>1, <2>2
<1>7. ASSUME NEW p \in Producers PROVE PushKnows(N, p)'
  <2>1. \A r \in Producers : Trying(p) /\ Trying(r)' /\ local'[r].new = local[p].new => r = p
    BY <1>2, NewNodesDiffer
  <2>2. at[p] \notin {"idle", "gone"} => MetGrows
    BY DEF Queue!Pushing
  <2>3. QED
    BY <1>2, <2>1, <2>2, PushStaysRight
<1>8. ASSUME NEW d \in Consumers PROVE PopKnows(N, d)'
  <2>1. CASE d # c
    <3>1. at'[d] = at[d] /\ local'[d] = local[d]
      BY <1>1, <2>1 DEF Threads
    <3>2. \A r \in Producers : Trying(r)' =>
              local'[r].new \notin live \/ (Trying(r) /\ local'[r].new = local[r].new)
      BY <1>2
    <3>3. QED
      BY <3>1, <3>2, PopStaysRight
  <2>2. QED
    BY <2>1
<1>9. NodesAreKnown(N)'
  <2>1. \A q \in Producers : Trying(q) => Trying(q)' /\ local'[q].new = local[q].new
    BY <1>2
  <2>2. \A d \in Consumers : Deleting(d) => Deleting(d)' /\ local'[d].old = local[d].old
    BY <1>1 DEF Deleting, Threads
  <2>3. QED
    BY <1>4, <2>1, <2>2, KnownStay
<1>10. QED
  BY <1>3, <1>5, <1>6, <1>7, <1>8, <1>9 DEF ListInv

\* A pop loads the head.
LEMMA PopBeginsStep ==
    ASSUME Standing, NEW N \in Nodes, ListInv(N), NEW c \in Consumers, CarefulPop(c)
    PROVE  Standing' /\ ListInv(N)'
<1>1. QueueTypes /\ c \in Threads /\ at[c] = "idle"
  BY DEF Standing, CarefulPop, Pop, Queue!pop, Threads
<1> DEFINE l == [local[c] EXCEPT !.old = head]
<1>2. /\ at' = [at EXCEPT ![c] = "load head's next"]
      /\ local' = [local EXCEPT ![c] = l]
      /\ UNCHANGED <<head, tail, size, next, data, live, put, got, hand, lent>>
      /\ UNCHANGED poolVars
  BY DEF CarefulPop, Pop, Queue!pop, Queue!Go, poolVars
<1>3. /\ Queue!Popping = {} /\ hand[c] = Nothing
      /\ Queue!Pushing = {} \/ met # "push"
      /\ met' = IF Queue!Pushing # {} THEN "pop" ELSE "none"
  BY DEF CarefulPop, Pop
<1>4. head \in NodeOrNone
  <2>1. ListIs(N)
    BY DEF ListInv
  <2>2. QED
    BY <2>1, ListFacts DEF ListIs, NodeOrNone
<1>5. l \in Locals /\ l.old = head
  BY <1>1, <1>4, LocalsOf
<1>6. /\ at'[c] = "load head's next" /\ local'[c] = l
      /\ \A u \in Threads : u # c => at'[u] = at[u]
  BY <1>1, <1>2 DEF QueueTypes
<1> HIDE DEF l
<1>7. PopKnows(N, c)'
  <2>1. ~HasTaken(c)' /\ ~Deleting(c)'
    BY <1>6 DEF HasTaken, Deleting
  <2>2. QED
    BY <1>2, <1>5, <1>6, <2>1 DEF PopKnows
<1>8. QueueTypes' /\ ListInv(N)'
  <2>1. ~Deleting(c)
    BY <1>1 DEF Deleting
  <2>2. "load head's next" \in PopPlaces
    BY DEF PopPlaces
  <2>3. hand' \in [Threads -> Pairs \cup {Nothing}] /\ hand' = hand
    BY <1>1, <1>2 DEF QueueTypes
  <2>4. Queue!Pushing # {} => MetGrows
    BY <1>3 DEF MetGrows
  <2>5. QED
    BY <1>2, <1>5, <1>7, <2>1, <2>2, <2>3, <2>4, PopStep
<1>9. Queue!Popping' = {c} /\ Queue!Pushing' = Queue!Pushing
  <2>1. c \notin Producers
    BY ThreadsPushOrPop
  <2>2. QED
    BY <1>3, <1>6, <2>1 DEF Queue!Popping, Queue!Pushing, Threads
<1>10. Discipline'
  <2>1. ASSUME NEW p \in Queue!Pushing, NEW q \in Queue!Pushing PROVE p = q
    BY <1>3, PushAlone
  <2>2. QED
    BY <1>3, <1>9, <2>1 DEF Discipline
<1>11. HandsAreRight'
  BY <1>2, <1>3, <1>9 DEF Standing, HandsAreRight
<1>12. \A u \in Threads : (HasTaken(u)' <=> HasTaken(u)) /\ (HasPut(u)' <=> HasPut(u))
  BY <1>1, <1>6 DEF HasTaken, HasPut
<1>13. Linked' = Linked /\ Popped' = Popped /\ Beginning' = Beginning
  BY <1>2, <1>12 DEF Linked, Popped, Beginning, Threads
<1>14. Counted'
  BY <1>2, <1>13, FiguresStay
<1>15. PoolInv'
  BY <1>2, PoolStays DEF Standing
<1>16. LentAreHeld'
  <2>1. \A t \in Threads : Holding(t)' = Holding(t)
    BY <1>2, <1>12 DEF Holding
  <2>2. QED
    BY <1>2, <1>13, <2>1, HoldersStay
<1>17. QED
  BY <1>8, <1>10, <1>11, <1>14, <1>15, <1>16 DEF Standing

\* A pop finds the next node, or that there is none.
LEMMA LoadHeadsNextStep ==
    ASSUME Standing, NEW N \in Nodes, ListInv(N), NEW c \in Consumers,
           Queue!LoadHeadsNext(c), UNCHANGED <<poolVars, hand, met>>
    PROVE  Standing' /\ ListInv(N)'
<1>1. QueueTypes /\ c \in Threads /\ at[c] = "load head's next" /\ ~Deleting(c)
  BY DEF Standing, Queue!LoadHeadsNext, Threads, Deleting
<1>2. /\ UNCHANGED <<head, tail, size, next, data, live, put, got>>
      /\ hand' = hand /\ met' = met
  BY DEF Queue!LoadHeadsNext
<1>3. /\ local[c].old = N[Oldest] /\ Oldest \in InList
      /\ next[N[Oldest]] = IF Oldest = Newest THEN NoNode ELSE N[Oldest + 1]
      /\ N[Oldest] \in Addresses /\ Oldest <= Newest /\ Oldest \in Nat /\ Newest \in Nat
      /\ local[c].old = head
  <2>1. local[c].old = head /\ ListIs(N)
    BY <1>1 DEF ListInv, PopKnows
  <2>2. head = N[Oldest]
    BY <2>1 DEF ListIs
  <2>3. QED
    BY <2>1, <2>2, ListFacts
<1>4. hand' \in [Threads -> Pairs \cup {Nothing}]
  BY <1>1, <1>2 DEF QueueTypes
<1>5. Newest' = Newest /\ Oldest' = Oldest
  BY <1>2 DEF Newest, Oldest
<1>6. MetGrows
  BY <1>2 DEF MetGrows
<1>7. CASE next[local[c].old] = NoNode
  <2>1. at' = [at EXCEPT ![c] = "idle"] /\ local' = [local EXCEPT ![c] = Queue!NoLocals]
    BY <1>7 DEF Queue!LoadHeadsNext, Queue!Go
  <2>2. Queue!NoLocals \in Locals /\ "idle" \in PopPlaces
    BY DEF Queue!NoLocals, Locals, NodeOrNone, PopPlaces
  <2>3. at'[c] = "idle"
    BY <1>1, <2>1 DEF QueueTypes
  <2>4. PopKnows(N, c)'
    BY <2>3 DEF PopKnows, HasTaken, Deleting
  <2>5. GoesOn(c, "idle")
    BY <1>1, <1>2, <2>1 DEF GoesOn, HasTaken
  <2>6. QueueTypes' /\ ListInv(N)'
    BY <1>1, <1>2, <1>4, <1>6, <2>1, <2>2, <2>4, PopStep
  <2>7. Discipline' /\ HandsAreRight' /\ Counted' /\ PoolInv' /\ LentAreHeld'
    BY <1>1, <2>5, QuietStep
  <2>8. QED
    BY <2>6, <2>7 DEF Standing
<1>8. CASE next[local[c].old] # NoNode
  <2> DEFINE l == [local[c] EXCEPT !.next = next[local[c].old]]
  <2>1. at' = [at EXCEPT ![c] = "take"] /\ local' = [local EXCEPT ![c] = l]
    BY <1>8 DEF Queue!LoadHeadsNext, Queue!Go
  <2>2. next[local[c].old] \in NodeOrNone
    BY <1>1, <1>3 DEF QueueTypes
  <2>3. l \in Locals /\ l.old = local[c].old /\ l.next = next[local[c].old]
    BY <1>1, <2>2, LocalsOf
  <2>4. at'[c] = "take" /\ local'[c] = l /\ "take" \in PopPlaces
    BY <1>1, <2>1 DEF QueueTypes, PopPlaces
  <2> HIDE DEF l
  <2>5. Oldest < Newest /\ l.next = N[Oldest + 1]
    BY <1>3, <1>8, <2>3
  <2>6. PopKnows(N, c)'
    <3>1. ~HasTaken(c)' /\ ~Deleting(c)'
      BY <2>4 DEF HasTaken, Deleting
    <3>2. QED
      BY <1>2, <1>3, <1>5, <2>3, <2>4, <2>5, <3>1 DEF PopKnows
  <2>7. GoesOn(c, "take")
    BY <1>1, <1>2, <2>1 DEF GoesOn, HasTaken
  <2>8. QueueTypes' /\ ListInv(N)'
    BY <1>1, <1>2, <1>4, <1>6, <2>1, <2>3, <2>4, <2>6, PopStep
  <2>9. Discipline' /\ HandsAreRight' /\ Counted' /\ PoolInv' /\ LentAreHeld'
    BY <1>1, <2>7, QuietStep
  <2>10. QED
    BY <2>8, <2>9 DEF Standing
<1>9. QED
  BY <1>7, <1>8

\* The node a pop reads is the head now.
LEMMA ReadDataStep ==
    ASSUME Standing, NEW N \in Nodes, ListInv(N), NEW c \in Consumers,
           Queue!ReadData(c), UNCHANGED <<poolVars, hand, met>>
    PROVE  Standing' /\ ListInv(N)'
<1>1. QueueTypes /\ c \in Threads /\ at[c] = "read data"
  BY DEF Standing, Queue!ReadData, Threads
<1>2. /\ UNCHANGED <<head, tail, size, next, data, live, local, put, got>>
      /\ hand' = hand /\ met' = met
      /\ at' = [at EXCEPT ![c] = "delete"]
  BY DEF Queue!ReadData, Queue!Go
<1>3. local[c] \in Locals /\ local' = [local EXCEPT ![c] = local[c]]
  BY <1>1, <1>2 DEF QueueTypes
<1>4. at'[c] = "delete" /\ "delete" \in PopPlaces
  BY <1>1, <1>2 DEF QueueTypes, PopPlaces
<1>5. Newest' = Newest /\ Oldest' = Oldest /\ InList' = InList
  BY <1>2 DEF Newest, Oldest, InList
<1>6. PopKnows(N, c)'
  <2>1. PopKnows(N, c) /\ HasTaken(c) /\ Deleting(c)
    BY <1>1 DEF ListInv, HasTaken, Deleting
  <2>2. \A p \in Producers : Trying(p)' <=> Trying(p)
    <3>1. \A p \in Producers : p \in Threads /\ p # c
      BY ThreadsPushOrPop DEF Threads
    <3>2. QED
      BY <1>1, <1>2, <3>1 DEF Trying, QueueTypes
  <2>3. QED
    BY <1>2, <1>4, <1>5, <2>1, <2>2 DEF PopKnows
<1>7. GoesOn(c, "delete")
  BY <1>1, <1>2 DEF GoesOn, HasTaken
<1>8. QueueTypes' /\ ListInv(N)'
  <2>1. hand' \in [Threads -> Pairs \cup {Nothing}] /\ MetGrows
    BY <1>1, <1>2 DEF QueueTypes, MetGrows
  <2>2. QED
    BY <1>2, <1>3, <1>4, <1>6, <2>1, PopStep
<1>9. Discipline' /\ HandsAreRight' /\ Counted' /\ PoolInv' /\ LentAreHeld'
  BY <1>1, <1>7, QuietStep
<1>10. QED
  BY <1>8, <1>9 DEF Standing

\* The head moves on to the next node, and the item is the pop's.
LEMMA TakeStep ==
    ASSUME Standing, NEW N \in Nodes, ListInv(N), NEW c \in Consumers,
           Queue!Take(c), UNCHANGED <<poolVars, hand, met>>
    PROVE  Standing' /\ ListInv(N)'
<1>1. QueueTypes /\ c \in Threads /\ at[c] = "take" /\ c \in Queue!Popping
  BY DEF Standing, Queue!Take, Threads, Queue!Popping
<1>2. /\ UNCHANGED <<tail, size, next, data, live, local, put, hand, met, lent>>
      /\ UNCHANGED poolVars
      /\ at' = [at EXCEPT ![c] = "read data"]
      /\ head' = local[c].next
      /\ got' = Append(got, data[local[c].next])
  <2>1. head = local[c].old
    BY <1>1 DEF ListInv, PopKnows
  <2>2. QED
    BY <2>1 DEF Queue!Take, Queue!Go, poolVars
<1>3. /\ at'[c] = "read data" /\ at' \in [Threads -> Places]
      /\ \A u \in Threads : u # c => at'[u] = at[u]
  BY <1>1, <1>2 DEF QueueTypes, Places, PopPlaces
<1>4. /\ local[c].old = head /\ Oldest < Newest /\ local[c].next = N[Oldest + 1]
      /\ ListIs(N)
  BY <1>1 DEF ListInv, PopKnows
<1>5. /\ Newest \in Nat /\ Oldest \in Nat /\ Oldest \in InList
      /\ InList \subseteq Nat
      /\ \A i \in InList : N[i] \in live /\ N[i] # NoNode
      /\ \A i \in InList, j \in InList : N[i] = N[j] => i = j
      /\ head = N[Oldest]
  BY <1>4, ListFacts DEF ListIs
<1>6. data[N[Oldest + 1]] = put[Oldest + 1] /\ put[Oldest + 1] \in Pairs
  <2>1. Oldest + 1 \in InList /\ Oldest + 1 > 0 /\ Oldest + 1 \in 1 .. Newest
    BY <1>4, <1>5 DEF InList
  <2>2. put[Oldest + 1] \in Pairs
    BY <1>1, <2>1, LenProperties, ElementOfSeq DEF QueueTypes, Newest
  <2>3. QED
    BY <1>4, <2>1, <2>2 DEF ListIs
<1>7. /\ Newest' = Newest /\ Oldest' = Oldest + 1
      /\ got' \in Seq(Pairs) /\ got'[Oldest + 1] = put[Oldest + 1]
      /\ \A i \in 1 .. Oldest : got'[i] = got[i]
  <2>1. got \in Seq(Pairs) /\ got' = Append(got, put[Oldest + 1])
    BY <1>1, <1>2, <1>4, <1>6 DEF QueueTypes
  <2>2. /\ Len(got') = Len(got) + 1 /\ got' \in Seq(Pairs)
        /\ got'[Len(got) + 1] = put[Oldest + 1]
        /\ \A i \in 1 .. Len(got) : got'[i] = got[i]
    BY <1>6, <2>1, AppendProperties
  <2>3. Newest' = Newest
    BY <1>2 DEF Newest
  <2>4. QED
    BY <2>2, <2>3 DEF Oldest
<1>8. ASSUME NEW p \in Producers
      PROVE  /\ at'[p] = at[p] /\ p \in Threads
             /\ Trying(p)' <=> Trying(p)
  <2>1. p \in Threads /\ p # c
    BY ThreadsPushOrPop DEF Threads
  <2>2. QED
    BY <1>3, <2>1 DEF Trying
<1>9. \A d \in Consumers : d # c => at'[d] = "idle" /\ at[d] = "idle"
  BY <1>1, <1>3, PopAlone DEF Threads
<1>10. Queue!Pushing' = Queue!Pushing /\ Queue!Popping' = Queue!Popping
  BY <1>1, <1>3, <1>8, <1>9 DEF Queue!Pushing, Queue!Popping, Threads
<1>11. QueueTypes'
  <2>1. \A p \in Producers : at'[p] \in PushPlaces
    BY <1>1, <1>8 DEF QueueTypes
  <2>2. \A d \in Consumers : at'[d] \in PopPlaces
    BY <1>3, <1>9 DEF PopPlaces
  <2>3. QED
    BY <1>1, <1>2, <1>3, <1>7, <2>1, <2>2 DEF QueueTypes
<1>12. Discipline' /\ HandsAreRight'
  BY <1>2, <1>10 DEF Standing, Discipline, HandsAreRight
<1>13. /\ Popped = 0 /\ Popped' = 1
       /\ Linked' = Linked /\ Beginning' = Beginning
  <2>1. \A d \in Consumers : ~HasTaken(d)
    BY <1>1, <1>9 DEF HasTaken
  <2>2. HasTaken(c)'
    BY <1>3 DEF HasTaken
  <2>3. \A p \in Producers : HasPut(p)' <=> HasPut(p)
    BY <1>8 DEF HasPut
  <2>4. QED
    BY <1>2, <2>1, <2>2, <2>3 DEF Popped, Linked, Beginning
<1>14. Counted'
  <2>1. Newest' - Oldest' + Popped' - Cardinality(Linked')
          = Newest - Oldest + Popped - Cardinality(Linked)
    BY <1>5, <1>7, <1>13, Numbers
  <2>2. SizeIsRight'
    BY <1>2, <2>1 DEF Standing, Counted, SizeIsRight
  <2>3. Bounded'
    BY <1>7, <1>13 DEF Standing, Counted, Bounded
  <2>4. QED
    BY <2>2, <2>3 DEF Counted
<1>15. PoolInv'
  BY <1>2, PoolStays DEF Standing
<1>16. LentAreHeld'
  <2>1. \A i : Queued(i)' <=> Queued(i)
    <3>1. \A i \in 1 .. Newest : Oldest' < i + Popped' <=> Oldest < i + Popped
      BY <1>5, <1>7, <1>13
    <3>2. QED
      BY <1>7, <3>1 DEF Queued
  <2>2. \A t \in Threads : Holding(t)' = Holding(t)
    <3>1. \A t \in Threads : HasPut(t)' <=> HasPut(t)
      BY <1>1, <1>3 DEF HasPut
    <3>2. QED
      BY <1>2, <3>1 DEF Holding
  <2>3. LentAreHeld
    BY DEF Standing
  <2>4. put' = put /\ lent' = lent /\ Newest' = Newest
    BY <1>2, <1>7
  <2>5. QED
    BY <2>1, <2>2, <2>3, <2>4 DEF LentAreHeld
<1>17. Standing'
  BY <1>11, <1>12, <1>14, <1>15, <1>16 DEF Standing
<1>18. /\ InList' \subseteq InList /\ Oldest \notin InList'
       /\ \A i \in InList : i \in InList' \/ i = Oldest
       /\ Newest \in InList' /\ Newest \in InList
  BY <1>4, <1>5, <1>7 DEF InList
<1>19. ListIs(N)'
  <2>1. Oldest' <= Newest' /\ head' = N[Oldest']
    <3>1. Oldest + 1 <= Newest
      BY <1>4, <1>5
    <3>2. head' = N[Oldest + 1]
      BY <1>2, <1>4
    <3>3. QED
      BY <1>7, <3>1, <3>2
  <2>2. \A i \in 1 .. Oldest' : got'[i] = put'[i]
    <3>1. \A i \in 1 .. Oldest' : i \in 1 .. Oldest \/ i = Oldest + 1
      BY <1>5, <1>7
    <3>2. QED
      BY <1>2, <1>4, <1>7, <3>1 DEF ListIs
  <2>3. \A i \in InList' :
          /\ N[i] \in live'
          /\ \A j \in InList' : N[i] = N[j] => i = j
          /\ next'[N[i]] = IF i = Newest' THEN NoNode ELSE N[i + 1]
          /\ i > 0 => data'[N[i]] = put'[i]
    BY <1>2, <1>4, <1>7, <1>18 DEF ListIs
  <2>4. QED
    BY <2>1, <2>2, <2>3 DEF ListIs
<1>20. Queue!Pushing # {} => met = "pop" /\ met' = "pop"
  BY <1>1, <1>2 DEF Standing, Discipline
<1>21. TailIs(N)'
  <2>1. CASE tail = N[Newest]
    BY <1>2, <1>7, <2>1 DEF TailIs
  <2>2. CASE tail # N[Newest]
    <3>1. PICK q \in Producers : /\ at[q] = "swing" /\ local[q].old = N[Newest - 1]
                                 /\ local[q].new = N[Newest]
      BY <2>2 DEF ListInv, TailIs
    <3>2. 0 < Newest /\ tail = N[Newest - 1]
      BY <2>2 DEF ListInv, TailIs
    <3>3. met' = "pop"
      BY <1>20, <3>1 DEF Queue!Pushing
    <3>4. QED
      BY <1>2, <1>7, <1>8, <3>1, <3>2, <3>3 DEF TailIs
  <2>3. QED
    BY <2>1, <2>2
<1>22. ASSUME NEW q \in Producers PROVE PushKnows(N, q)'
  <2>1. at[q] \notin {"idle", "gone"} => met = "pop" /\ met' = "pop"
    BY <1>20 DEF Queue!Pushing
  <2>2. /\ at'[q] = at[q] /\ local' = local
        /\ next' = next /\ live' = live /\ data' = data /\ hand' = hand /\ tail' = tail
    BY <1>2, <1>8
  <2>3. ASSUME Trying(q) PROVE NewNode(N, q)'
    <3>1. met = "pop"
      BY <2>1, <2>3 DEF Trying
    <3>2. /\ local[q].new \in live
          /\ \A i \in InList : local[q].new # N[i]
          /\ next[local[q].new] = NoNode
          /\ data[local[q].new] = hand[q]
          /\ local[q].null # NoNode => OthersNode(N, local[q].null)
      BY <2>3, KnowsNew
    <3>3. local[q].null = NoNode
      BY <3>1, <3>2 DEF OthersNode
    <3>4. \A r \in Producers : Trying(r)' /\ local'[r].new = local'[q].new => r = q
      BY <1>8, <2>2, <2>3, NewNodesDiffer
    <3>5. QED
      BY <1>18, <2>2, <3>2, <3>3, <3>4 DEF NewNode
  <2>4. ASSUME HasTail(q) PROVE OldTail(N, q)'
    <3>1. met = "pop" /\ Trying(q)
      BY <2>1, <2>4 DEF HasTail, Trying
    <3>2. OldTail(N, q)
      BY <2>4, KnowsTail
    <3>3. PICK i \in InList :
            /\ local[q].old = N[i]
            /\ met # "push" => i = Newest
            /\ i = Newest => tail = N[Newest]
            /\ at[q] # "load next" =>
                  \/ i < Newest /\ local[q].next = N[i + 1]
                  \/ /\ local[q].next = NoNode
                     /\ local[q].null # NoNode =>
                           \E j \in Oldest + 1 .. i : local[q].null = N[j]
            /\ at[q] = "link" => local[q].next = NoNode
            /\ at[q] = "help" => local[q].next # NoNode
      BY <3>2 DEF OldTail
    <3>4. /\ i = Newest /\ ~(i < Newest)
          /\ i \in InList' /\ i = Newest' /\ tail' = N[Newest']
      <4>1. i = Newest
        BY <3>1, <3>3
      <4>2. ~(Newest < Newest)
        BY <1>5
      <4>3. tail' = tail /\ Newest' = Newest /\ tail = N[Newest]
        BY <1>7, <2>2, <3>3, <4>1
      <4>4. QED
        BY <1>18, <4>1, <4>2, <4>3
    <3>5. local[q].null = NoNode
      BY <3>1, KnowsNew DEF OthersNode
    <3>6. at[q] # "load next" => local[q].next = NoNode
      BY <3>3, <3>4
    <3>7. QED
      BY <2>2, <3>3, <3>4, <3>5, <3>6 DEF OldTail
  <2>5. ASSUME at[q] = "swing" PROVE Swings(N, q)'
    <3>1. Swings(N, q) /\ met' = "pop"
      BY <2>1, <2>5 DEF ListInv, PushKnows
    <3>2. QED
      BY <1>2, <1>7, <2>2, <3>1 DEF Swings
  <2>6. (HasTail(q)' <=> HasTail(q)) /\ (Trying(q)' <=> Trying(q))
    BY <2>2 DEF HasTail, Trying
  <2>7. QED
    BY <2>2, <2>3, <2>4, <2>5, <2>6 DEF PushKnows
<1>23. ASSUME NEW d \in Consumers PROVE PopKnows(N, d)'
  <2>1. CASE d # c
    BY <1>9, <2>1 DEF PopKnows, HasTaken, Deleting
  <2>2. CASE d = c
    <3>1. local'[c] = local[c] /\ live' = live
      BY <1>2
    <3>2. 0 < Oldest' /\ local[c].next = N[Oldest']
      BY <1>4, <1>5, <1>7
    <3>3. local[c].old \in live /\ \A i \in InList' : local[c].old # N[i]
      BY <1>4, <1>5, <1>18
    <3>4. \A p \in Producers : Trying(p)' => local'[p].new # local[c].old
      <4>1. \A p \in Producers : Trying(p) => local[p].new # N[Oldest]
        BY <1>5, KnowsNew
      <4>2. QED
        BY <1>2, <1>4, <1>5, <1>8, <4>1
    <3>5. QED
      BY <1>3, <2>2, <3>1, <3>2, <3>3, <3>4 DEF PopKnows
  <2>3. QED
    BY <2>1, <2>2
<1>24. NodesAreKnown(N)'
  <2> SUFFICES ASSUME NEW a \in live
               PROVE  \/ \E i \in InList' : a = N[i]
                      \/ \E q \in Producers : Trying(q)' /\ a = local'[q].new
                      \/ \E d \in Consumers : Deleting(d)' /\ a = local'[d].old
    BY <1>2 DEF NodesAreKnown
  <2>1. CASE a = N[Oldest]
    <3>1. Deleting(c)' /\ local'[c].old = a
      BY <1>2, <1>3, <1>4, <1>5, <2>1 DEF Deleting
    <3>2. QED
      BY <3>1
  <2>2. CASE \E i \in InList : a = N[i] /\ i # Oldest
    BY <1>18, <2>2
  <2>3. CASE \E q \in Producers : Trying(q) /\ a = local[q].new
    BY <1>2, <1>8, <2>3
  <2>4. \A d \in Consumers : ~Deleting(d)
    BY <1>1, <1>9 DEF Deleting
  <2>5. NodesAreKnown(N)
    BY DEF ListInv
  <2>6. QED
    BY <2>1, <2>2, <2>3, <2>4, <2>5 DEF NodesAreKnown
<1>25. QED
  BY <1>17, <1>19, <1>21, <1>22, <1>23, <1>24 DEF ListInv

\* The node that goes is in nobody's list any more.
LEMMA DeleteStep ==
    ASSUME Standing, NEW N \in Nodes, ListInv(N), NEW c \in Consumers,
           Queue!Delete(c), UNCHANGED <<poolVars, hand, met>>
    PROVE  Standing' /\ ListInv(N)'
<1>1. /\ QueueTypes /\ c \in Threads /\ at[c] = "delete" /\ Deleting(c) /\ HasTaken(c)
      /\ c \in Queue!Popping
  BY DEF Standing, Queue!Delete, Threads, Queue!Popping, Deleting, HasTaken
<1> DEFINE gone == local[c].old
<1>2. /\ head' = head /\ tail' = tail /\ next' = next /\ data' = data /\ local' = local
      /\ put' = put /\ got' = got /\ hand' = hand /\ met' = met /\ size' = size
      /\ at' = [at EXCEPT ![c] = "discount"]
      /\ live' = live \ {gone}
  BY DEF Queue!Delete, Queue!Go
<1>3. /\ at'[c] = "discount" /\ at' \in [Threads -> Places]
      /\ \A u \in Threads : u # c => at'[u] = at[u]
  BY <1>1, <1>2 DEF QueueTypes, Places, PopPlaces
<1>4. PopKnows(N, c) /\ ListIs(N)
  BY DEF ListInv
<1>5. /\ \A i \in InList : gone # N[i]
      /\ \A p \in Producers : Trying(p) => local[p].new # gone
      /\ 0 < Oldest /\ local[c].next = N[Oldest]
  BY <1>1, <1>4 DEF PopKnows
<1> HIDE DEF gone
<1>6. Newest' = Newest /\ Oldest' = Oldest /\ InList' = InList
  BY <1>2 DEF Newest, Oldest, InList
<1>7. \A p \in Producers : /\ at'[p] = at[p] /\ p \in Threads
                           /\ Trying(p)' <=> Trying(p)
                           /\ HasTail(p)' <=> HasTail(p)
  <2>1. \A p \in Producers : p \in Threads /\ p # c
    BY ThreadsPushOrPop DEF Threads
  <2>2. QED
    BY <1>3, <2>1 DEF Trying, HasTail
<1>8. \A d \in Consumers : d # c => at'[d] = "idle" /\ at[d] = "idle"
  BY <1>1, <1>3, PopAlone DEF Threads
<1>9. QueueTypes'
  <2>1. \A p \in Producers : at'[p] \in PushPlaces
    BY <1>1, <1>7 DEF QueueTypes
  <2>2. \A d \in Consumers : at'[d] \in PopPlaces
    BY <1>3, <1>8 DEF PopPlaces
  <2>3. live' \subseteq Addresses
    BY <1>1, <1>2 DEF QueueTypes
  <2>4. QED
    BY <1>1, <1>2, <1>3, <2>1, <2>2, <2>3 DEF QueueTypes
<1>10. Standing'
  <2>1. GoesOn(c, "discount")
    BY <1>1, <1>2 DEF GoesOn
  <2>2. Discipline' /\ HandsAreRight' /\ Counted' /\ PoolInv' /\ LentAreHeld'
    BY <1>1, <2>1, QuietStep
  <2>3. QED
    BY <1>9, <2>2 DEF Standing
<1>11. ListIs(N)'
  <2>1. \A i \in InList : N[i] \in live'
    BY <1>2, <1>4, <1>5 DEF ListIs
  <2>2. QED
    BY <1>2, <1>4, <1>6, <2>1 DEF ListIs
<1>12. TailIs(N)'
  BY <1>2, <1>6, <1>7 DEF ListInv, TailIs
<1>13. ASSUME NEW q \in Producers PROVE PushKnows(N, q)'
  <2>1. ASSUME Trying(q) PROVE NewNode(N, q)'
    <3>1. /\ local[q].new \in live'
          /\ \A i \in InList : local[q].new # N[i]
          /\ next[local[q].new] = NoNode
          /\ data[local[q].new] = hand[q]
          /\ local[q].null # NoNode => OthersNode(N, local[q].null)
      BY <1>2, <1>5, <2>1, KnowsNew
    <3>2. \A r \in Producers : Trying(r)' /\ local'[r].new = local'[q].new => r = q
      BY <1>2, <1>7, <2>1, NewNodesDiffer
    <3>3. OthersNode(N, local[q].null) => OthersNode(N, local[q].null)'
      BY <1>2, <1>6 DEF OthersNode
    <3>4. QED
      BY <1>2, <1>6, <3>1, <3>2, <3>3 DEF NewNode
  <2>2. ASSUME HasTail(q) PROVE OldTail(N, q)'
    <3>1. OldTail(N, q)
      BY <2>2, KnowsTail
    <3>2. QED
      BY <1>2, <1>6, <1>7, <3>1 DEF OldTail
  <2>3. ASSUME at[q] = "swing" PROVE Swings(N, q)'
    <3>1. Swings(N, q)
      BY <2>3 DEF ListInv, PushKnows
    <3>2. QED
      BY <1>2, <1>6, <3>1 DEF Swings
  <2>4. QED
    BY <1>7, <2>1, <2>2, <2>3 DEF PushKnows
<1>14. ASSUME NEW d \in Consumers PROVE PopKnows(N, d)'
  <2>1. CASE d # c
    BY <1>8, <2>1 DEF PopKnows, HasTaken, Deleting
  <2>2. CASE d = c
    BY <1>2, <1>3, <1>5, <1>6, <2>2 DEF PopKnows, Deleting
  <2>3. QED
    BY <2>1, <2>2
<1>15. NodesAreKnown(N)'
  <2>1. ASSUME NEW a \in live'
        PROVE  (\E i \in InList : a = N[i]) \/ \E q \in Producers : Trying(q) /\ a = local[q].new
    <3>1. a \in live /\ a # gone /\ NodesAreKnown(N)
      BY <1>2 DEF ListInv
    <3>2. \A d \in Consumers : Deleting(d) => local[d].old = gone
      BY <1>8 DEF Deleting, gone
    <3>3. QED
      BY <3>1, <3>2 DEF NodesAreKnown
  <2>2. QED
    BY <1>2, <1>6, <1>7, <2>1 DEF NodesAreKnown
<1>16. QED
  BY <1>10, <1>11, <1>12, <1>13, <1>14, <1>15 DEF ListInv

\* The item goes from the queue into the hand of the consumer.
LEMMA PopReturnsStep ==
    ASSUME Standing, NEW N \in Nodes, ListInv(N), NEW c \in Consumers, PopReturns(c)
    PROVE  Standing' /\ ListInv(N)'
<1>1. /\ QueueTypes /\ c \in Threads /\ at[c] = "discount" /\ HasTaken(c) /\ ~Deleting(c)
      /\ c \in Queue!Popping
  BY DEF Standing, PopReturns, Queue!Discount, Threads, HasTaken, Deleting, Queue!Popping
<1> DEFINE x == data[local[c].next]
<1>2. /\ at' = [at EXCEPT ![c] = "idle"]
      /\ size' = (size + SizeModulus - 1) % SizeModulus
      /\ hand' = [hand EXCEPT ![c] = x]
      /\ UNCHANGED <<head, tail, next, data, live, put, got, met, lent>>
      /\ UNCHANGED poolVars
      /\ local' = [local EXCEPT ![c] = Queue!NoLocals]
  BY DEF PopReturns, Queue!Discount, Queue!Go, Give, poolVars
<1>3. /\ 0 < Oldest /\ local[c].next = N[Oldest] /\ ListIs(N)
  BY <1>1 DEF ListInv, PopKnows
<1>4. /\ Oldest \in Nat /\ Newest \in Nat /\ Oldest \in InList /\ Oldest <= Newest
      /\ Oldest \in 1 .. Newest
  <2>1. Oldest \in Nat /\ Newest \in Nat /\ Oldest \in InList /\ Oldest <= Newest
    BY <1>3, ListFacts
  <2>2. QED
    BY <1>3, <2>1
<1>5. x = put[Oldest] /\ x \in Pairs
  <2>1. x = put[Oldest]
    BY <1>3, <1>4 DEF ListIs
  <2>2. put[Oldest] \in Pairs
    BY <1>1, <1>4, LenProperties, ElementOfSeq DEF QueueTypes, Newest
  <2>3. QED
    BY <2>1, <2>2
<1> HIDE DEF x
<1>6. /\ at'[c] = "idle" /\ hand'[c] = x /\ hand[c] = Nothing
      /\ \A u \in Threads : u # c => at'[u] = at[u] /\ hand'[u] = hand[u]
      /\ hand' \in [Threads -> Pairs \cup {Nothing}]
  <2>1. hand[c] = Nothing
    BY <1>1 DEF Standing, HandsAreRight
  <2>2. QED
    BY <1>1, <1>2, <1>5, <2>1 DEF QueueTypes
<1>7. Newest' = Newest /\ Oldest' = Oldest
  BY <1>2 DEF Newest, Oldest
<1>8. QueueTypes' /\ ListInv(N)'
  <2>1. Queue!NoLocals \in Locals /\ "idle" \in PopPlaces
    BY DEF Queue!NoLocals, Locals, NodeOrNone, PopPlaces
  <2>2. PopKnows(N, c)'
    BY <1>6 DEF PopKnows, HasTaken, Deleting
  <2>3. MetGrows
    BY <1>2 DEF MetGrows
  <2>4. QED
    BY <1>1, <1>2, <1>6, <2>1, <2>2, <2>3, PopStep
<1>9. \A d \in Consumers : d # c => at[d] = "idle" /\ at'[d] = "idle"
  BY <1>1, <1>6, PopAlone DEF Threads
<1>10. /\ \A p \in Producers : /\ at'[p] = at[p] /\ hand'[p] = hand[p]
                               /\ HasPut(p)' <=> HasPut(p)
       /\ \A t \in Threads : HasPut(t)' <=> HasPut(t)
       /\ ~HasPut(c)
  <2>1. \A p \in Producers : p \in Threads /\ p # c
    BY ThreadsPushOrPop DEF Threads
  <2>2. QED
    BY <1>1, <1>6, <2>1 DEF HasPut
<1>11. Queue!Pushing' = Queue!Pushing /\ Queue!Popping' = {}
  BY <1>6, <1>9, <1>10 DEF Queue!Pushing, Queue!Popping
<1>12. Discipline'
  BY <1>2, <1>11 DEF Standing, Discipline
<1>13. HandsAreRight'
  <2>1. \A p \in Queue!Pushing : hand'[p] = hand[p]
    BY <1>10 DEF Queue!Pushing
  <2>2. QED
    BY <1>11, <2>1 DEF Standing, HandsAreRight
<1>14. /\ Popped = 1 /\ Popped' = 0
       /\ Linked' = Linked /\ Beginning' = Beginning
  <2>1. \A d \in Consumers : ~HasTaken(d)'
    BY <1>6, <1>9 DEF HasTaken
  <2>2. QED
    BY <1>1, <1>10, <2>1 DEF Popped, Linked, Beginning
<1>15. SizeIsRight'
  <2> DEFINE k == Newest - Oldest + Popped - Cardinality(Linked)
  <2>1. k \in Int /\ Newest' - Oldest' + Popped' - Cardinality(Linked') = k - 1
    BY <1>4, <1>7, <1>14, Numbers
  <2>2. size = k % SizeModulus
    BY DEF Standing, Counted, SizeIsRight
  <2> HIDE DEF k
  <2>3. (size + SizeModulus - 1) % SizeModulus = (k - 1) % SizeModulus
    BY <2>1, <2>2, CountsAround, SizeWraps
  <2>4. QED
    BY <1>2, <2>1, <2>3 DEF SizeIsRight
<1>16. Bounded'
  BY <1>7, <1>14 DEF Standing, Counted, Bounded
<1>17. PoolInv'
  BY <1>2, PoolStays DEF Standing
<1>18. LentAreHeld'
  <2>1. /\ Holding(c) = Nothing /\ Holding(c)' = x
        /\ \A t \in Threads : t # c => Holding(t)' = Holding(t)
    BY <1>1, <1>6, <1>10 DEF Holding
  <2>2. \A i : Queued(i) <=> i = Oldest \/ Queued(i)'
    <3>1. \A i \in 1 .. Newest : Oldest < i + 1 <=> i = Oldest \/ Oldest < i + 0
      BY <1>4
    <3>2. QED
      BY <1>4, <1>7, <1>14, <3>1 DEF Queued
  <2>3. \A i : Queued(i)' => i # Oldest
    BY <1>4, <1>7, <1>14 DEF Queued
  <2>4. LentAreHeld
    BY DEF Standing
  <2>5. /\ x \in lent /\ x # Nothing
        /\ \A j \in 1 .. Newest : Queued(j)' => put[j] # x
        /\ \A t \in Threads : Holding(t) # x
    <3>1. Queued(Oldest)
      BY <2>2
    <3>2. /\ put[Oldest] \in lent
          /\ \A j \in 1 .. Newest : Queued(j) /\ put[Oldest] = put[j] => Oldest = j
          /\ \A t \in Threads : Holding(t) # put[Oldest]
      BY <1>4, <2>4, <3>1 DEF LentAreHeld
    <3>3. QED
      BY <1>5, <2>2, <2>3, <3>2, LentIsSomething
  <2>6. ASSUME NEW b \in lent
        PROVE  \/ \E i \in 1 .. Newest : Queued(i)' /\ put[i] = b
               \/ \E t \in Threads : Holding(t)' = b
    <3>1. CASE b = x
      BY <1>1, <2>1, <3>1
    <3>2. CASE b # x
      <4>1. CASE \E i \in 1 .. Newest : Queued(i) /\ put[i] = b
        BY <1>5, <2>2, <3>2, <4>1
      <4>2. CASE \E t \in Threads : Holding(t) = b
        <5>1. b # Nothing
          BY LentIsSomething
        <5>2. QED
          BY <2>1, <4>2, <5>1
      <4>3. QED
        BY <2>4, <4>1, <4>2 DEF LentAreHeld
    <3>3. QED
      BY <3>1, <3>2
  <2>7. ASSUME NEW i \in 1 .. Newest, Queued(i)'
        PROVE  /\ put[i] \in lent
               /\ \A j \in 1 .. Newest : Queued(j)' /\ put[i] = put[j] => i = j
               /\ \A t \in Threads : Holding(t)' # put[i]
    <3>1. /\ put[i] \in lent
          /\ \A j \in 1 .. Newest : Queued(j) /\ put[i] = put[j] => i = j
          /\ \A t \in Threads : Holding(t) # put[i]
      BY <2>2, <2>4, <2>7 DEF LentAreHeld
    <3>2. QED
      BY <2>1, <2>2, <2>5, <2>7, <3>1
  <2>8. ASSUME NEW t \in Threads, Holding(t)' # Nothing
        PROVE  /\ Holding(t)' \in lent
               /\ \A u \in Threads : Holding(u)' = Holding(t)' => u = t
    <3>1. CASE t = c
      BY <1>1, <2>1, <2>5, <3>1
    <3>2. CASE t # c
      <4>1. /\ Holding(t)' = Holding(t) /\ Holding(t) \in lent
            /\ \A u \in Threads : Holding(u) = Holding(t) => u = t
            /\ Holding(t) # x
        BY <2>1, <2>4, <2>5, <2>8, <3>2 DEF LentAreHeld
      <4>2. QED
        BY <2>1, <3>2, <4>1
    <3>3. QED
      BY <3>1, <3>2
  <2>9. put' = put /\ lent' = lent
    BY <1>2
  <2>10. QED
    BY <1>7, <2>6, <2>7, <2>8, <2>9 DEF LentAreHeld
<1>19. QED
  BY <1>8, <1>12, <1>13, <1>15, <1>16, <1>17, <1>18 DEF Standing, Counted

-----------------------------------------------------------------------------
(* The pool's steps, between the two containers *)

\* The queue does not notice.
LEMMA ListIsElsewhere ==
    ASSUME Standing, NEW N \in Nodes, ListInv(N), UNCHANGED <<queueVars, met>>,
           \A p \in Producers : at[p] # "idle" => hand'[p] = hand[p]
    PROVE  ListInv(N)'
<1>1. /\ UNCHANGED <<head, tail, size, next, data, live, put, got, met>>
      /\ at' = at /\ local' = local
  BY DEF queueVars
<1>2. Newest' = Newest /\ Oldest' = Oldest /\ InList' = InList
  BY <1>1 DEF Newest, Oldest, InList
<1>3. \A p \in Threads : (Trying(p)' <=> Trying(p)) /\ (Deleting(p)' <=> Deleting(p))
  BY <1>1 DEF Trying, Deleting
<1>4. ListIs(N)'
  BY <1>1, ListStays DEF ListInv
<1>5. TailIs(N)'
  BY <1>1, TailStays
<1>6. ASSUME NEW q \in Producers PROVE PushKnows(N, q)'
  <2>1. CASE at[q] = "idle"
    BY <1>1, <2>1 DEF PushKnows, Trying, HasTail
  <2>2. CASE at[q] # "idle"
    <3>1. \A r \in Producers : Trying(q) /\ Trying(r)' /\ local'[r].new = local[q].new => r = q
      BY <1>1, <1>3, NewNodesDiffer DEF Threads
    <3>2. hand'[q] = hand[q] /\ at'[q] = at[q] /\ local'[q] = local[q] /\ MetGrows
      BY <1>1, <2>2 DEF MetGrows
    <3>3. QED
      BY <1>1, <3>1, <3>2, PushStaysRight
  <2>3. QED
    BY <2>1, <2>2
<1>7. ASSUME NEW d \in Consumers PROVE PopKnows(N, d)'
  <2>1. \A r \in Producers : Trying(r)' =>
            local'[r].new \notin live \/ (Trying(r) /\ local'[r].new = local[r].new)
    BY <1>1, <1>3 DEF Threads
  <2>2. QED
    BY <1>1, <2>1, PopStaysRight
<1>8. NodesAreKnown(N)'
  BY <1>1, <1>2, <1>3, KnownStay DEF Threads
<1>9. QED
  BY <1>4, <1>5, <1>6, <1>7, <1>8 DEF ListInv

\* Neither does who is where.
LEMMA PlacesAreElsewhere ==
    ASSUME Standing, UNCHANGED <<queueVars, met>>,
           hand' \in [Threads -> Pairs \cup {Nothing}]
    PROVE  /\ QueueTypes' /\ Discipline'
           /\ Newest' = Newest /\ Oldest' = Oldest /\ Popped' = Popped /\ SizeIsRight'
           /\ Queue!Pushing' = Queue!Pushing /\ Queue!Popping' = Queue!Popping
           /\ \A t \in Threads : HasPut(t)' <=> HasPut(t)
           /\ UNCHANGED <<put, got, at>>
<1>1. UNCHANGED <<head, tail, size, next, data, live, at, local, put, got, met>>
  BY DEF queueVars
<1>2. QueueTypes'
  BY <1>1 DEF Standing, QueueTypes
<1>3. Queue!Pushing' = Queue!Pushing /\ Queue!Popping' = Queue!Popping
  BY <1>1 DEF Queue!Pushing, Queue!Popping
<1>4. Discipline'
  BY <1>1, <1>3 DEF Standing, Discipline
<1>5. /\ Newest' = Newest /\ Oldest' = Oldest /\ Popped' = Popped /\ Linked' = Linked
      /\ \A t \in Threads : HasPut(t)' <=> HasPut(t)
  BY <1>1 DEF Newest, Oldest, Popped, Linked, HasPut, HasTaken
<1>6. SizeIsRight'
  BY <1>1, <1>5 DEF Standing, Counted, SizeIsRight
<1>7. QED
  BY <1>1, <1>2, <1>3, <1>4, <1>5, <1>6

\* A producer gets a block that was nobody's.
LEMMA AllocateStep ==
    ASSUME Standing, NEW N \in Nodes, ListInv(N), NEW p \in Producers, Allocate(p)
    PROVE  Standing' /\ ListInv(N)'
<1>1. /\ QueueTypes /\ p \in Threads /\ PoolInv /\ hand[p] = Nothing /\ at[p] = "idle"
      /\ Begun < MaxPushes /\ Pool!allocate /\ UNCHANGED <<queueVars, met>>
  BY DEF Standing, Allocate, Threads
<1>2. PICK b : b = Pool!allocated
  OBVIOUS
<1>3. /\ PoolInv' /\ lent' = lent \cup {b} /\ b \notin lent /\ b \in Pairs
  BY <1>1, <1>2, PoolAllocates
<1>4. hand' = [hand EXCEPT ![p] = b]
  BY <1>2 DEF Allocate, Give
<1>5. /\ hand'[p] = b /\ \A t \in Threads : t # p => hand'[t] = hand[t]
      /\ hand' \in [Threads -> Pairs \cup {Nothing}]
      /\ b # Nothing
  BY <1>1, <1>3, <1>4, LentIsSomething DEF QueueTypes
<1>6. /\ QueueTypes' /\ Discipline'
      /\ Newest' = Newest /\ Oldest' = Oldest /\ Popped' = Popped /\ SizeIsRight'
      /\ Queue!Pushing' = Queue!Pushing /\ Queue!Popping' = Queue!Popping
      /\ \A t \in Threads : HasPut(t)' <=> HasPut(t)
      /\ UNCHANGED <<put, got, at>>
  BY <1>1, <1>5, PlacesAreElsewhere
<1>7. ListInv(N)'
  BY <1>1, <1>5, ListIsElsewhere DEF Threads
<1>8. HandsAreRight'
  <2>1. \A t \in Queue!Pushing \cup Queue!Popping : t \in Threads /\ t # p
    BY <1>1 DEF Queue!Pushing, Queue!Popping, Threads
  <2>2. QED
    BY <1>5, <1>6, <2>1 DEF Standing, HandsAreRight
<1>9. Bounded'
  <2> DEFINE Hands == {q \in Producers : hand[q] # Nothing}
  <2>1. Cardinality(Beginning) <= Cardinality(Hands) /\ Cardinality(Hands) \in Nat
    <3>1. IsFiniteSet(Hands) /\ Beginning \subseteq Hands
      BY ThreadsPushOrPop, FS_Subset DEF Beginning
    <3>2. QED
      BY <3>1, FS_Subset, FS_CardinalityType
  <2>2. Beginning' = Beginning \cup {p} /\ p \notin Beginning
    BY <1>1, <1>5, <1>6 DEF Beginning, Threads, HasPut
  <2>3. Cardinality(Beginning') = Cardinality(Beginning) + 1
    BY <2>2, Numbers, FS_AddElement
  <2>4. Newest + Cardinality(Hands) < MaxPushes
    BY <1>1 DEF Begun, Newest
  <2> HIDE DEF Hands
  <2>5. QED
    BY <1>6, <2>1, <2>3, <2>4, Numbers, BoundsAreNumbers DEF Bounded
<1>10. LentAreHeld'
  <2>1. LentAreHeld
    BY DEF Standing
  <2>2. /\ Holding(p) = Nothing /\ Holding(p)' = b
        /\ \A t \in Threads : t # p => Holding(t)' = Holding(t)
    BY <1>1, <1>5, <1>6 DEF Holding, HasPut
  <2>3. \A i : Queued(i)' <=> Queued(i)
    BY <1>6 DEF Queued
  <2>4. /\ \A t \in Threads : Holding(t) # b
        /\ \A i \in 1 .. Newest : Queued(i) => put[i] # b /\ put[i] # Nothing
    BY <1>3, <1>5, <2>1, LentIsSomething DEF LentAreHeld
  <2>5. ASSUME NEW x \in lent \cup {b}
        PROVE  \/ \E i \in 1 .. Newest : Queued(i)' /\ put[i] = x
               \/ \E t \in Threads : Holding(t)' = x
    <3>1. CASE x = b
      BY <1>1, <2>2, <3>1
    <3>2. CASE x \in lent
      <4>1. x # Nothing
        BY <3>2, LentIsSomething
      <4>2. QED
        BY <2>1, <2>2, <2>3, <3>2, <4>1 DEF LentAreHeld
    <3>3. QED
      BY <3>1, <3>2
  <2>6. ASSUME NEW i \in 1 .. Newest, Queued(i)'
        PROVE  /\ put[i] \in lent'
               /\ \A j \in 1 .. Newest : Queued(j)' /\ put[i] = put[j] => i = j
               /\ \A t \in Threads : Holding(t)' # put[i]
    <3>1. /\ put[i] \in lent
          /\ \A j \in 1 .. Newest : Queued(j) /\ put[i] = put[j] => i = j
          /\ \A t \in Threads : Holding(t) # put[i]
      BY <2>1, <2>3, <2>6 DEF LentAreHeld
    <3>2. QED
      BY <1>3, <2>2, <2>3, <2>4, <2>6, <3>1
  <2>7. ASSUME NEW t \in Threads, Holding(t)' # Nothing
        PROVE  /\ Holding(t)' \in lent'
               /\ \A u \in Threads : Holding(u)' = Holding(t)' => u = t
    <3>1. CASE t = p
      BY <1>1, <1>3, <2>2, <2>4, <3>1
    <3>2. CASE t # p
      <4>1. /\ Holding(t)' = Holding(t) /\ Holding(t) \in lent
            /\ \A u \in Threads : Holding(u) = Holding(t) => u = t
            /\ Holding(t) # b
        BY <2>1, <2>2, <2>4, <2>7, <3>2 DEF LentAreHeld
      <4>2. QED
        BY <1>3, <2>2, <3>2, <4>1
    <3>3. QED
      BY <3>1, <3>2
  <2>8. QED
    BY <1>3, <1>6, <2>5, <2>6, <2>7 DEF LentAreHeld
<1>11. QED
  BY <1>3, <1>6, <1>7, <1>8, <1>9, <1>10 DEF Standing, Counted

\* Constructing and destroying an object moves no block.
LEMMA ObjectStep ==
    ASSUME Standing, NEW N \in Nodes, ListInv(N), NEW b,
           Pool!construct(b) \/ Pool!destroy(b), UNCHANGED <<queueVars, hand, met>>
    PROVE  Standing' /\ ListInv(N)'
<1>1. PoolInv' /\ lent' = lent
  BY PoolObjects DEF Standing
<1>2. hand' = hand /\ hand' \in [Threads -> Pairs \cup {Nothing}]
  BY DEF Standing, QueueTypes
<1>3. /\ QueueTypes' /\ Discipline'
      /\ Newest' = Newest /\ Oldest' = Oldest /\ Popped' = Popped /\ SizeIsRight'
      /\ Queue!Pushing' = Queue!Pushing /\ Queue!Popping' = Queue!Popping
      /\ \A t \in Threads : HasPut(t)' <=> HasPut(t)
      /\ UNCHANGED <<put, got, at>>
  BY <1>2, PlacesAreElsewhere
<1>4. HandsAreRight'
  BY <1>2, <1>3 DEF Standing, HandsAreRight
<1>5. Bounded'
  <2>1. Beginning' = Beginning
    BY <1>2, <1>3 DEF Beginning, Threads
  <2>2. QED
    BY <1>3, <2>1 DEF Standing, Counted, Bounded
<1>6. LentAreHeld'
  <2>1. \A t \in Threads : Holding(t)' = Holding(t)
    BY <1>2, <1>3 DEF Holding
  <2>2. QED
    BY <1>1, <1>3, <2>1, HoldersStay
<1>7. ListInv(N)'
  BY <1>2, ListIsElsewhere
<1>8. QED
  BY <1>1, <1>3, <1>4, <1>5, <1>6, <1>7 DEF Standing, Counted

\* A thread that does nothing else is rid of its block.
LEMMA GiveUpStep ==
    ASSUME Standing, NEW N \in Nodes, ListInv(N), NEW c \in Threads, NEW b,
           b = hand[c], b # Nothing, at[c] = "idle",
           PoolInv', lent' = lent \ {b}, hand' = [hand EXCEPT ![c] = Nothing],
           UNCHANGED <<queueVars, met>>
    PROVE  Standing' /\ ListInv(N)'
<1>1. QueueTypes /\ PoolInv /\ LentAreHeld
  BY DEF Standing
<1>2. Holding(c) = b /\ c \notin Queue!Popping /\ c \notin Queue!Pushing /\ ~HasPut(c)
  BY DEF Holding, HasPut, Queue!Popping, Queue!Pushing
<1>3. Holding(c) # Nothing
  BY <1>2
<1>4. /\ b \in lent /\ \A u \in Threads : Holding(u) = b => u = c
      /\ \A i \in 1 .. Newest : Queued(i) => put[i] # b
  BY <1>1, <1>2, <1>3 DEF LentAreHeld
<1>5. PoolInv' /\ lent' = lent \ {b}
  OBVIOUS
<1>6. /\ hand'[c] = Nothing /\ \A t \in Threads : t # c => hand'[t] = hand[t]
      /\ hand' \in [Threads -> Pairs \cup {Nothing}]
  BY <1>1 DEF QueueTypes
<1>7. /\ QueueTypes' /\ Discipline'
      /\ Newest' = Newest /\ Oldest' = Oldest /\ Popped' = Popped /\ SizeIsRight'
      /\ Queue!Pushing' = Queue!Pushing /\ Queue!Popping' = Queue!Popping
      /\ \A t \in Threads : HasPut(t)' <=> HasPut(t)
      /\ UNCHANGED <<put, got, at>>
  BY <1>6, PlacesAreElsewhere
<1>8. \A p \in Producers : p \in Threads /\ (at[p] # "idle" => hand'[p] = hand[p])
  BY <1>6 DEF Threads
<1>9. ListInv(N)'
  BY <1>8, ListIsElsewhere
<1>10. HandsAreRight'
  <2>1. \A d \in Queue!Popping : hand'[d] = hand[d]
    BY <1>2, <1>6 DEF Queue!Popping, Threads
  <2>2. \A p \in Queue!Pushing : hand'[p] = hand[p]
    BY <1>2, <1>6 DEF Queue!Pushing, Threads
  <2>3. QED
    BY <1>7, <2>1, <2>2 DEF Standing, HandsAreRight
<1>11. Bounded'
  <2>1. Beginning' \subseteq Beginning
    BY <1>6, <1>7 DEF Beginning, Threads
  <2>2. Cardinality(Beginning') <= Cardinality(Beginning) /\ Cardinality(Beginning') \in Nat
    BY <2>1, Numbers, FS_Subset, FS_CardinalityType
  <2>3. Newest + Cardinality(Beginning) <= MaxPushes
    BY DEF Standing, Counted, Bounded
  <2>4. QED
    BY <1>7, <2>2, <2>3, Numbers, BoundsAreNumbers DEF Bounded
<1>12. LentAreHeld'
  <2>1. /\ Holding(c)' = Nothing
        /\ \A t \in Threads : t # c => Holding(t)' = Holding(t)
    BY <1>6, <1>7 DEF Holding
  <2>2. \A i : Queued(i)' <=> Queued(i)
    BY <1>7 DEF Queued
  <2>3. ASSUME NEW x \in lent'
        PROVE  \/ \E i \in 1 .. Newest : Queued(i)' /\ put[i] = x
               \/ \E t \in Threads : Holding(t)' = x
    BY <1>1, <1>2, <1>4, <1>5, <2>1, <2>2 DEF LentAreHeld
  <2>4. ASSUME NEW i \in 1 .. Newest, Queued(i)'
        PROVE  /\ put[i] \in lent'
               /\ \A j \in 1 .. Newest : Queued(j)' /\ put[i] = put[j] => i = j
               /\ \A t \in Threads : Holding(t)' # put[i]
    <3>1. /\ put[i] \in lent /\ put[i] # b
          /\ \A j \in 1 .. Newest : Queued(j) /\ put[i] = put[j] => i = j
          /\ \A t \in Threads : Holding(t) # put[i]
      BY <1>1, <1>4, <2>2, <2>4 DEF LentAreHeld
    <3>2. put[i] # Nothing
      BY <3>1, LentIsSomething
    <3>3. QED
      BY <1>5, <2>1, <2>2, <3>1, <3>2
  <2>5. ASSUME NEW t \in Threads, Holding(t)' # Nothing
        PROVE  /\ Holding(t)' \in lent'
               /\ \A u \in Threads : Holding(u)' = Holding(t)' => u = t
    <3>1. t # c /\ Holding(t)' = Holding(t) /\ Holding(t) # b
      BY <1>4, <2>1, <2>5
    <3>2. /\ Holding(t) \in lent
          /\ \A u \in Threads : Holding(u) = Holding(t) => u = t
      BY <1>1, <2>5, <3>1 DEF LentAreHeld
    <3>3. QED
      BY <1>5, <2>1, <2>5, <3>1, <3>2
  <2>6. QED
    BY <1>7, <2>3, <2>4, <2>5 DEF LentAreHeld
<1>13. QED
  BY <1>5, <1>7, <1>9, <1>10, <1>11, <1>12 DEF Standing, Counted

\* A consumer gives its block back.
LEMMA DeallocateStep ==
    ASSUME Standing, NEW N \in Nodes, ListInv(N), NEW c \in Consumers, Deallocate(c)
    PROVE  Standing' /\ ListInv(N)'
<1>1. /\ QueueTypes /\ c \in Threads /\ PoolInv /\ LentAreHeld
      /\ hand[c] # Nothing /\ hand[c] \notin objects
      /\ Pool!deallocate(hand[c]) /\ UNCHANGED <<queueVars, met>>
      /\ hand' = [hand EXCEPT ![c] = Nothing]
  BY DEF Standing, Deallocate, Threads, Give
<1>2. at[c] = "idle"
  <2>1. c \notin Queue!Popping
    BY <1>1 DEF Standing, HandsAreRight
  <2>2. QED
    BY <1>1, <2>1 DEF Queue!Popping, QueueTypes, PopPlaces
<1>3. hand[c] \in lent
  BY <1>1 DEF Pool!deallocate
<1>4. PoolInv' /\ lent' = lent \ {hand[c]}
  BY <1>1, <1>3, PoolTakesBack
<1>5. QED
  BY <1>1, <1>2, <1>4, GiveUpStep

\* A producer whose object was not constructed has nothing.
LEMMA ConstructThrowsStep ==
    ASSUME Standing, NEW N \in Nodes, ListInv(N), NEW p \in Producers, ConstructThrows(p)
    PROVE  Standing' /\ ListInv(N)'
<1>1. /\ p \in Threads /\ PoolInv /\ hand[p] # Nothing /\ at[p] = "idle"
      /\ Pool!constructorThrows(hand[p]) /\ UNCHANGED <<queueVars, met>>
      /\ hand' = [hand EXCEPT ![p] = Nothing]
  BY DEF Standing, ConstructThrows, Threads, Give
<1>2. hand[p] \in lent \ objects
  BY <1>1 DEF Pool!constructorThrows
<1>3. PoolInv' /\ lent' = lent \ {hand[p]}
  BY <1>1, <1>2, PoolLoses
<1>4. QED
  BY <1>1, <1>3, GiveUpStep

-----------------------------------------------------------------------------
(* The containers' destruction *)

\* The queue's module counts as this one does.
LEMMA CountsTheSame == \A S : Queue!Cardinality(S) = Cardinality(S)
BY DEF Cardinality, Queue!Cardinality

\* The nodes of the list are as many as its items, and one.
LEMMA NodesOfTheList ==
    ASSUME Standing, NEW N \in Nodes, ListIs(N), NEW T, T = {N[i] : i \in InList}
    PROVE  /\ IsFiniteSet(T) /\ Cardinality(T) = Newest - Oldest + 1
           /\ T \subseteq Addresses
           /\ Newest - Oldest + 1 <= Cardinality(Addresses) /\ Cardinality(Addresses) \in Nat
<1> DEFINE f == [i \in InList |-> N[i]]
<1>1. /\ IsFiniteSet(InList) /\ Cardinality(InList) = Newest - Oldest + 1
      /\ T \subseteq Addresses
  <2>1. Oldest \in Int /\ Newest \in Int /\ Oldest <= Newest
    BY ListFacts
  <2>2. IsFiniteSet(InList) /\ Cardinality(InList) = Newest - Oldest + 1
    BY <2>1, FS_Interval DEF InList
  <2>3. T \subseteq Addresses
    BY ListFacts
  <2>4. QED
    BY <2>2, <2>3
<1>2. f \in Surjection(InList, T) /\ f \in Injection(InList, T)
  BY ListFacts DEF Surjection, Injection, IsInjective
<1> HIDE DEF f
<1>3. IsFiniteSet(T) /\ Cardinality(T) = Cardinality(InList)
  BY <1>1, <1>2, FS_Surjection
<1>4. Cardinality(T) <= Cardinality(Addresses) /\ Cardinality(Addresses) \in Nat
  BY <1>1, MemoryIsFinite, FS_Subset, FS_CardinalityType
<1>5. QED
  BY <1>1, <1>3, <1>4

\* The destructor walks through the nodes of the list.
LEMMA WalkIsTheList ==
    ASSUME Standing, NEW N \in Nodes, ListIs(N)
    PROVE  \A i \in InList :
              /\ i - Oldest \in 0 .. Cardinality(Addresses)
              /\ Queue!NodeAfterHead[i - Oldest] = N[i]
<1> DEFINE K == 0 .. Cardinality(Addresses)
           Step(h, i) == IF i = 0 THEN head
                         ELSE IF h[i - 1] = NoNode THEN NoNode ELSE next[h[i - 1]]
           g == [i \in K |-> IF i <= Newest - Oldest THEN N[Oldest + i] ELSE NoNode]
<1>1. /\ Newest - Oldest + 1 <= Cardinality(Addresses) /\ Cardinality(Addresses) \in Nat
      /\ Oldest \in Nat /\ Newest \in Nat /\ Oldest <= Newest
  BY NodesOfTheList, ListFacts
<1>2. g = [i \in K |-> Step(g, i)]
  <2> SUFFICES ASSUME NEW i \in K PROVE g[i] = Step(g, i)
    OBVIOUS
  <2>1. CASE i = 0
    BY <1>1, <2>1 DEF ListIs
  <2>2. CASE i # 0 /\ i - 1 < Newest - Oldest
    <3>1. i - 1 \in K /\ g[i - 1] = N[Oldest + (i - 1)] /\ g[i] = N[Oldest + i]
      BY <1>1, <2>2
    <3>2. /\ Oldest + (i - 1) \in InList /\ Oldest + (i - 1) # Newest
          /\ (Oldest + (i - 1)) + 1 = Oldest + i
      BY <1>1, <2>2 DEF InList
    <3>3. next[N[Oldest + (i - 1)]] = N[Oldest + i] /\ N[Oldest + (i - 1)] # NoNode
      BY <3>2, ListFacts
    <3> HIDE DEF g
    <3>4. QED
      BY <2>2, <3>1, <3>3
  <2>3. CASE i # 0 /\ i - 1 = Newest - Oldest
    <3>1. i - 1 \in K /\ g[i - 1] = N[Newest] /\ g[i] = NoNode
      BY <1>1, <2>3
    <3>2. next[N[Newest]] = NoNode /\ N[Newest] # NoNode
      BY ListFacts
    <3> HIDE DEF g
    <3>3. QED
      BY <2>3, <3>1, <3>2
  <2>4. CASE i # 0 /\ i - 1 > Newest - Oldest
    <3>1. i - 1 \in K /\ g[i - 1] = NoNode /\ g[i] = NoNode
      BY <1>1, <2>4
    <3> HIDE DEF g
    <3>2. QED
      BY <2>4, <3>1
  <2>5. QED
    BY <1>1, <2>1, <2>2, <2>3, <2>4
<1>3. ASSUME NEW h, h = [i \in K |-> Step(h, i)] PROVE h = g
  <2> DEFINE Bad == {i \in K : h[i] # g[i]}
  <2>1. \A i \in K : h[i] = Step(h, i) /\ g[i] = Step(g, i)
    BY <1>2, <1>3
  <2> HIDE DEF g
  <2>2. ASSUME Bad # {} PROVE FALSE
    <3>1. Bad \in SUBSET Nat
      BY <1>1
    <3>2. PICK m \in Bad : \A n \in Bad : m <= n
      <4> HIDE DEF Bad
      <4>1. QED
        BY <2>2, <3>1, LeastElement
    <3>3. m # 0
      BY <2>1, <3>2
    <3>4. m \in K /\ m - 1 \in K /\ m - 1 \notin Bad
      BY <1>1, <3>2, <3>3
    <3>5. h[m - 1] = g[m - 1]
      BY <3>4
    <3>6. QED
      BY <2>1, <3>2, <3>4, <3>5
  <2>3. \A i \in K : h[i] = g[i]
    BY <2>2
  <2>4. h = [i \in K |-> h[i]]
    BY <1>3
  <2>5. g = [i \in K |-> g[i]]
    BY DEF g
  <2>6. QED
    BY <2>3, <2>4, <2>5
<1> HIDE DEF g
<1>4. Queue!NodeAfterHead = g
  <2>1. Queue!NodeAfterHead = CHOOSE h : h = [i \in K |-> Step(h, i)]
    BY CountsTheSame DEF Queue!NodeAfterHead
  <2> HIDE DEF K, Step
  <2>2. QED
    BY <1>2, <1>3, <2>1
<1>5. QED
  <2> SUFFICES ASSUME NEW i \in InList
               PROVE  i - Oldest \in K /\ Queue!NodeAfterHead[i - Oldest] = N[i]
    OBVIOUS
  <2>1. i - Oldest \in K /\ i - Oldest <= Newest - Oldest /\ Oldest + (i - Oldest) = i
    BY <1>1 DEF InList
  <2>2. g[i - Oldest] = N[i]
    BY <2>1 DEF g
  <2>3. QED
    BY <1>4, <2>1, <2>2

\* The destructors leave nothing.
LEMMA CloseStep ==
    ASSUME Standing, NEW N \in Nodes, ListInv(N), Close
    PROVE  Closed'
<1>1. /\ \A t \in Threads : at[t] = "idle"
      /\ at' = [t \in Threads |-> "gone"]
      /\ live' = live \ {Queue!NodeAfterHead[i] : i \in 0 .. Cardinality(Addresses)}
      /\ chunks' = 0 /\ free_blocks' = <<>> /\ lent' = {} /\ objects' = {} /\ lost' = {}
      /\ hand' = [t \in Threads |-> Nothing]
  BY CountsTheSame DEF Close, Queue!destroy, Pool!release, Threads, Queue!Threads
<1>2. ASSUME NEW a \in live PROVE \E i \in InList : a = N[i]
  BY <1>1 DEF ListInv, NodesAreKnown, Trying, Deleting, Threads
<1>3. ListIs(N)
  BY DEF ListInv
<1>4. live' = {}
  <2> SUFFICES ASSUME NEW a \in live
               PROVE  \E i \in 0 .. Cardinality(Addresses) : a = Queue!NodeAfterHead[i]
    BY <1>1
  <2>1. PICK i \in InList : a = N[i]
    BY <1>2
  <2>2. i - Oldest \in 0 .. Cardinality(Addresses) /\ Queue!NodeAfterHead[i - Oldest] = N[i]
    BY <1>3, WalkIsTheList
  <2>3. QED
    BY <2>1, <2>2
<1>5. QED
  BY <1>1, <1>4 DEF Closed

-----------------------------------------------------------------------------
(* The invariant *)

\* The queue starts with one node, and the pool without chunks.
LEMMA InitIInv == Init => IInv
<1> SUFFICES ASSUME Init PROVE Standing /\ \E N \in Nodes : ListInv(N)
  BY DEF IInv
<1> DEFINE N == [k \in 0 .. MaxPushes |-> head]
<1>1. /\ head \in Addresses /\ tail = head /\ size = 0
      /\ next = [a \in Addresses |-> NoNode] /\ data = [a \in Addresses |-> Nothing]
      /\ live = {head} /\ put = <<>> /\ got = <<>>
      /\ at = [t \in Threads |-> "idle"]
      /\ local = [t \in Threads |-> Queue!NoLocals]
      /\ hand = [t \in Threads |-> Nothing]
      /\ chunks = 0 /\ free_blocks = <<>> /\ lent = {} /\ objects = {} /\ lost = {}
  BY MemoryIsFinite DEF Init, Queue!Init, Pool!Init, Threads, Queue!Threads
<1>2. Newest = 0 /\ Oldest = 0 /\ InList = {0} /\ N \in Nodes /\ N[0] = head
  <2>1. Newest = 0 /\ Oldest = 0
    BY <1>1 DEF Newest, Oldest
  <2>2. InList = {0}
    BY <2>1 DEF InList
  <2>3. N \in Nodes /\ N[0] = head
    BY <1>1, BoundsAreNumbers DEF Nodes
  <2>4. QED
    BY <2>1, <2>2, <2>3
<1> HIDE DEF N
<1>3. \A t \in Threads : at[t] = "idle" /\ hand[t] = Nothing /\ Holding(t) = Nothing
                         /\ ~Trying(t) /\ ~HasTail(t) /\ ~HasPut(t)
                         /\ ~HasTaken(t) /\ ~Deleting(t)
  BY <1>1 DEF Holding, Trying, HasTail, HasPut, HasTaken, Deleting
<1>4. Queue!Pushing = {} /\ Queue!Popping = {} /\ Linked = {} /\ Beginning = {} /\ Popped = 0
  BY <1>3 DEF Queue!Pushing, Queue!Popping, Linked, Beginning, Popped, Threads
<1>5. QueueTypes
  <2>1. Queue!NoLocals \in Locals
    BY DEF Queue!NoLocals, Locals, NodeOrNone
  <2>2. at \in [Threads -> Places] /\ local \in [Threads -> Locals]
    BY <1>1, <2>1 DEF Places, PushPlaces
  <2>3. /\ next \in [Addresses -> NodeOrNone] /\ data \in [Addresses -> Pairs \cup {Nothing}]
        /\ hand \in [Threads -> Pairs \cup {Nothing}] /\ live \subseteq Addresses
        /\ put \in Seq(Pairs) /\ got \in Seq(Pairs)
    BY <1>1 DEF NodeOrNone
  <2>4. QED
    BY <1>3, <2>2, <2>3 DEF QueueTypes, PushPlaces, PopPlaces, Threads
<1>6. Discipline /\ HandsAreRight
  BY <1>4 DEF Discipline, HandsAreRight
<1>7. Counted
  <2>1. Cardinality(Linked) = 0 /\ Cardinality(Beginning) = 0
    BY <1>4, FS_EmptySet
  <2>2. 0 % SizeModulus = 0
    BY SizeWraps
  <2>3. SizeIsRight
    BY <1>1, <1>2, <1>4, <2>1, <2>2 DEF SizeIsRight
  <2>4. QED
    BY <1>2, <2>1, <2>3, BoundsAreNumbers DEF Counted, Bounded
<1>8. PoolInv
  BY <1>1, PoolIsEmpty
<1>9. LentAreHeld
  BY <1>1, <1>2, <1>3 DEF LentAreHeld, Queued
<1>10. ListInv(N)
  <2>1. ListIs(N)
    BY <1>1, <1>2 DEF ListIs
  <2>2. TailIs(N)
    BY <1>1, <1>2 DEF TailIs
  <2>3. NodesAreKnown(N)
    BY <1>1, <1>2 DEF NodesAreKnown
  <2>4. \A p \in Producers : PushKnows(N, p)
    BY <1>3 DEF PushKnows, Threads
  <2>5. \A c \in Consumers : PopKnows(N, c)
    BY <1>3 DEF PopKnows, Threads
  <2>6. QED
    BY <2>1, <2>2, <2>3, <2>4, <2>5 DEF ListInv
<1>11. QED
  BY <1>2, <1>5, <1>6, <1>7, <1>8, <1>9, <1>10 DEF Standing

\* Whatever a producer does keeps the list, with one node more where it links one.
LEMMA PushNext ==
    ASSUME Standing, NEW N \in Nodes, ListInv(N), NEW p \in Producers,
           ProducerStep(p) \/ CarefulPush(p)
    PROVE  Standing' /\ \E M \in Nodes : ListInv(M)'
<1>1. CASE Allocate(p)
  BY <1>1, AllocateStep
<1>2. CASE Construct(p)
  BY <1>2, ObjectStep DEF Construct
<1>3. CASE CarefulPush(p)
  BY <1>3, PushBeginsStep
<1>4. CASE Queue!PushStep(p) /\ UNCHANGED <<poolVars, hand, met>>
  <2>1. CASE Queue!LoadTail(p)
    BY <1>4, <2>1, LoadTailStep
  <2>2. CASE Queue!LoadNext(p)
    BY <1>4, <2>2, LoadNextStep
  <2>3. CASE Queue!CheckTail(p)
    BY <1>4, <2>3, CheckTailStep
  <2>4. CASE Queue!Link(p)
    BY <1>4, <2>4, LinkStep
  <2>5. CASE Queue!Help(p)
    BY <1>4, <2>5, HelpStep
  <2>6. CASE Queue!Swing(p)
    BY <1>4, <2>6, SwingStep
  <2>7. QED
    BY <1>4, <2>1, <2>2, <2>3, <2>4, <2>5, <2>6 DEF Queue!PushStep
<1>5. CASE PushReturns(p)
  BY <1>5, PushReturnsStep
<1>6. CASE ConstructThrows(p)
  BY <1>6, ConstructThrowsStep
<1>7. QED
  BY <1>1, <1>2, <1>3, <1>4, <1>5, <1>6 DEF ProducerStep

\* Whatever a consumer does keeps the list.
LEMMA PopNext ==
    ASSUME Standing, NEW N \in Nodes, ListInv(N), NEW c \in Consumers,
           ConsumerStep(c) \/ CarefulPop(c)
    PROVE  Standing' /\ ListInv(N)'
<1>1. CASE CarefulPop(c)
  BY <1>1, PopBeginsStep
<1>2. CASE Queue!PopStep(c) /\ UNCHANGED <<poolVars, hand, met>>
  BY <1>2, LoadHeadsNextStep, TakeStep, ReadDataStep, DeleteStep DEF Queue!PopStep
<1>3. CASE PopReturns(c)
  BY <1>3, PopReturnsStep
<1>4. CASE Destroy(c)
  BY <1>4, ObjectStep DEF Destroy
<1>5. CASE Deallocate(c)
  BY <1>5, DeallocateStep
<1>6. QED
  BY <1>1, <1>2, <1>3, <1>4, <1>5 DEF ConsumerStep

\* A step in which nothing happens.
LEMMA StandingStutter ==
    ASSUME Standing, NEW N \in Nodes, ListInv(N), UNCHANGED vars
    PROVE  Standing' /\ ListInv(N)'
<1>1. UNCHANGED <<queueVars, met>> /\ UNCHANGED poolVars /\ hand' = hand /\ lent' = lent
  BY DEF vars, poolVars
<1>2. hand' \in [Threads -> Pairs \cup {Nothing}]
  BY <1>1 DEF Standing, QueueTypes
<1>3. /\ QueueTypes' /\ Discipline'
      /\ Newest' = Newest /\ Oldest' = Oldest /\ Popped' = Popped /\ SizeIsRight'
      /\ Queue!Pushing' = Queue!Pushing /\ Queue!Popping' = Queue!Popping
      /\ \A t \in Threads : HasPut(t)' <=> HasPut(t)
      /\ UNCHANGED <<put, got, at>>
  BY <1>1, <1>2, PlacesAreElsewhere
<1>4. HandsAreRight'
  BY <1>1, <1>3 DEF Standing, HandsAreRight
<1>5. Bounded'
  <2>1. Beginning' = Beginning
    BY <1>1, <1>3 DEF Beginning, Threads
  <2>2. QED
    BY <1>3, <2>1 DEF Standing, Counted, Bounded
<1>6. PoolInv'
  BY <1>1, PoolStays DEF Standing
<1>7. LentAreHeld'
  <2>1. \A t \in Threads : Holding(t)' = Holding(t)
    BY <1>1, <1>3 DEF Holding
  <2>2. QED
    BY <1>1, <1>3, <2>1, HoldersStay
<1>8. ListInv(N)'
  BY <1>1, ListIsElsewhere
<1>9. QED
  BY <1>3, <1>4, <1>5, <1>6, <1>7, <1>8 DEF Standing, Counted

\* Destroyed containers are not used again.
LEMMA ClosedStays ==
    ASSUME Closed, [CarefulNext]_vars
    PROVE  Closed' /\ UNCHANGED vars
<1>1. \A t \in Threads : at[t] = "gone" /\ hand[t] = Nothing
  BY DEF Closed
<1>2. ASSUME NEW p \in Producers PROVE ~ProducerStep(p) /\ ~CarefulPush(p)
  <2>1. p \in Threads /\ at[p] = "gone" /\ hand[p] = Nothing /\ objects = {}
    BY <1>1 DEF Closed, Threads
  <2>2. /\ ~Allocate(p) /\ ~Construct(p) /\ ~ConstructThrows(p)
        /\ ~CarefulPush(p) /\ ~PushReturns(p)
    BY <2>1 DEF Allocate, Construct, ConstructThrows, CarefulPush, Push, PushReturns,
                Queue!Count
  <2>3. ~Queue!PushStep(p)
    BY <2>1 DEF Queue!PushStep, Queue!LoadTail, Queue!LoadNext, Queue!CheckTail,
                Queue!Link, Queue!Help, Queue!Swing
  <2>4. QED
    BY <2>2, <2>3 DEF ProducerStep
<1>3. ASSUME NEW c \in Consumers PROVE ~ConsumerStep(c) /\ ~CarefulPop(c)
  <2>1. c \in Threads /\ at[c] = "gone" /\ hand[c] = Nothing /\ objects = {}
    BY <1>1 DEF Closed, Threads
  <2>2. ~CarefulPop(c) /\ ~PopReturns(c) /\ ~Destroy(c) /\ ~Deallocate(c)
    BY <2>1 DEF CarefulPop, Pop, Queue!pop, PopReturns, Queue!Discount, Destroy,
                Deallocate
  <2>3. ~Queue!PopStep(c)
    BY <2>1 DEF Queue!PopStep, Queue!LoadHeadsNext, Queue!Take, Queue!ReadData,
                Queue!Delete
  <2>4. QED
    BY <2>2, <2>3 DEF ConsumerStep
<1>4. ~Close
  BY <1>1, ThreadsPushOrPop DEF Close, Queue!destroy, Queue!Threads, Threads
<1>5. UNCHANGED vars
  BY <1>2, <1>3, <1>4 DEF CarefulNext
<1>6. UNCHANGED <<at, live, chunks, free_blocks, lent, objects, lost, hand>>
  BY <1>5 DEF vars, queueVars, poolVars
<1>7. QED
  BY <1>5, <1>6 DEF Closed

\* Every step preserves the invariant.
LEMMA NextIInv == IInv /\ [CarefulNext]_vars => IInv'
<1> SUFFICES ASSUME IInv, [CarefulNext]_vars PROVE IInv'
  OBVIOUS
<1>1. CASE Closed
  BY <1>1, ClosedStays DEF IInv
<1>2. CASE Standing /\ \E N \in Nodes : ListInv(N)
  <2>1. PICK N \in Nodes : ListInv(N)
    BY <1>2
  <2>2. ASSUME NEW p \in Producers, ProducerStep(p) \/ CarefulPush(p) PROVE IInv'
    <3>1. Standing' /\ \E M \in Nodes : ListInv(M)'
      BY <1>2, <2>1, <2>2, PushNext
    <3>2. QED
      BY <3>1 DEF IInv, Nodes
  <2>3. ASSUME NEW c \in Consumers, ConsumerStep(c) \/ CarefulPop(c) PROVE IInv'
    <3>1. Standing' /\ ListInv(N)'
      BY <1>2, <2>1, <2>3, PopNext
    <3>2. QED
      BY <3>1 DEF IInv, Nodes
  <2>4. CASE Close
    BY <1>2, <2>1, <2>4, CloseStep DEF IInv
  <2>5. CASE UNCHANGED vars
    <3>1. Standing' /\ ListInv(N)'
      BY <1>2, <2>1, <2>5, StandingStutter
    <3>2. QED
      BY <3>1 DEF IInv, Nodes
  <2>6. QED
    BY <2>2, <2>3, <2>4, <2>5 DEF CarefulNext
<1>3. QED
  BY <1>1, <1>2 DEF IInv

\* The list runs from the head through the nodes of the items put and not taken, the
\* tail is its last node or the one before, what a thread has loaded is right, and
\* each block is with one of pool, threads and queue (lock_free_queue.hpp 35-103 and
\* memory_pool.hpp 29-118).
THEOREM InductiveInvariant == CarefulSpec => []IInv
BY InitIInv, NextIInv, PTL DEF CarefulSpec

-----------------------------------------------------------------------------
(* What follows *)

\* What is proved here rests on no access to a deleted node: with the careful client a
\* push looks at the tail it loaded, which is in the list still, and a pop at the head
\* and at the node after it (lock_free_queue.hpp 55-103).
LEMMA NodesAreLive == CarefulSpec => []TouchesOnlyLiveNodes
<1>1. IInv => TouchesOnlyLiveNodes
  <2> SUFFICES ASSUME IInv, NEW t \in Threads PROVE Queue!Touched(t) \subseteq live
    BY DEF TouchesOnlyLiveNodes, Queue!TouchesOnlyLiveNodes, Threads, Queue!Threads
  <2>1. CASE Closed
    <3>1. at[t] = "gone"
      BY <2>1 DEF Closed
    <3>2. QED
      BY <3>1 DEF Queue!Touched
  <2>2. CASE Standing /\ \E N \in Nodes : ListInv(N)
    <3>1. PICK N \in Nodes : ListInv(N)
      BY <2>2
    <3>2. /\ QueueTypes /\ head = N[Oldest]
          /\ Oldest \in InList /\ \A i \in InList : N[i] \in live
      BY <2>2, <3>1, ListFacts DEF ListInv, ListIs, Standing
    <3>3. CASE t \in Producers
      <4>1. at[t] \in PushPlaces
        BY <3>2, <3>3 DEF QueueTypes
      <4>2. CASE HasTail(t)
        <5>1. OldTail(N, t)
          BY <3>1, <3>3, <4>2, KnowsTail
        <5>2. local[t].old \in live
          BY <3>2, <5>1 DEF OldTail
        <5>3. QED
          BY <4>2, <5>2 DEF HasTail, Queue!Touched
      <4>3. CASE ~HasTail(t)
        BY <4>1, <4>3 DEF HasTail, PushPlaces, Queue!Touched
      <4>4. QED
        BY <4>2, <4>3
    <3>4. CASE t \in Consumers
      <4>1. at[t] \in PopPlaces /\ PopKnows(N, t)
        BY <3>1, <3>2, <3>4 DEF QueueTypes, ListInv
      <4>2. CASE at[t] = "load head's next"
        BY <3>2, <4>1, <4>2 DEF PopKnows, Queue!Touched
      <4>3. CASE at[t] = "read data"
        BY <3>2, <4>1, <4>3 DEF PopKnows, HasTaken, Queue!Touched
      <4>4. CASE at[t] \notin {"load head's next", "read data"}
        BY <4>1, <4>4 DEF PopPlaces, Queue!Touched
      <4>5. QED
        BY <4>2, <4>3, <4>4
    <3>5. QED
      BY <3>3, <3>4 DEF Threads
  <2>3. QED
    BY <2>1, <2>2 DEF IInv
<1>2. QED
  BY <1>1, InductiveInvariant, PTL

\* When no operation is under way the size is the number of items, whatever wrapping
\* it took to get there, the tail is the last node, and one node more than there are
\* items is allocated; the destructor leaves none (lock_free_queue.hpp 35-40 and
\* 55-103).
THEOREM QueueSettles == CarefulSpec => []Settles
<1>1. IInv => Settles
  <2>1. ASSUME Closed PROVE Settles
    <3>1. (\A t \in Threads : at[t] = "gone") /\ live = {} /\ Threads # {}
      BY <2>1, ThreadsPushOrPop DEF Closed, Threads
    <3>2. ~\A t \in Threads : at[t] = "idle"
      BY <3>1
    <3>3. QED
      BY <3>1, <3>2 DEF Settles, Queue!Settles, Threads, Queue!Threads
  <2>2. ASSUME Standing, NEW N \in Nodes, ListInv(N) PROVE Settles
    <3>1. ~\A t \in Threads : at[t] = "gone"
      <4>1. \A t \in Threads : at[t] # "gone"
        BY <2>2 DEF Standing, QueueTypes, Places, PushPlaces, PopPlaces
      <4>2. QED
        BY <4>1, ThreadsPushOrPop DEF Threads
    <3>2. ASSUME \A t \in Threads : at[t] = "idle"
          PROVE  /\ size = (Len(put) - Len(got)) % SizeModulus
                 /\ next[tail] = NoNode /\ tail \in live
                 /\ Cardinality(live) = Len(put) - Len(got) + 1
      <4>1. Linked = {} /\ Popped = 0
        BY <3>2 DEF Linked, Popped, HasPut, HasTaken, Threads
      <4>2. size = (Len(put) - Len(got)) % SizeModulus
        <5>1. Cardinality(Linked) = 0
          BY <4>1, FS_EmptySet
        <5>2. Newest - Oldest + Popped - Cardinality(Linked) = Newest - Oldest
          BY <2>2, <4>1, <5>1, Numbers
        <5>3. QED
          BY <2>2, <5>2 DEF Standing, Counted, SizeIsRight, Newest, Oldest
      <4>3. tail = N[Newest]
        BY <2>2, <3>2 DEF ListInv, TailIs, Threads
      <4>4. ListIs(N)
        BY <2>2 DEF ListInv
      <4>5. next[tail] = NoNode /\ tail \in live
        BY <2>2, <4>3, <4>4, ListFacts
      <4>6. live = {N[i] : i \in InList}
        <5>1. \A a \in live : \E i \in InList : a = N[i]
          BY <2>2, <3>2 DEF ListInv, NodesAreKnown, Trying, Deleting, Threads
        <5>2. \A i \in InList : N[i] \in live
          BY <2>2, <4>4, ListFacts
        <5>3. QED
          BY <5>1, <5>2
      <4>7. Cardinality(live) = Len(put) - Len(got) + 1
        <5>1. Cardinality(live) = Newest - Oldest + 1
          BY <2>2, <4>4, <4>6, NodesOfTheList
        <5>2. QED
          BY <5>1 DEF Newest, Oldest
      <4>8. QED
        BY <4>2, <4>5, <4>7
    <3>3. QED
      BY <3>1, <3>2, CountsTheSame DEF Settles, Queue!Settles, Threads, Queue!Threads
  <2>3. QED
    BY <2>1, <2>2 DEF IInv
<1>2. QED
  BY <1>1, InductiveInvariant, PTL

\* What a holder of a block is.
LEMMA HolderIs ==
    ASSUME NEW b, NEW x
    PROVE  x \in Holders(b) <=>
              \/ \E i \in DOMAIN free_blocks : free_blocks[i] = b /\ x = <<"list", i>>
              \/ \E i \in Len(got) + 1 .. Len(put) : put[i] = b /\ x = <<"queue", i>>
              \/ \E t \in Threads : /\ hand[t] = b /\ at[t] \notin {"swing", "count"}
                                    /\ x = <<"thread", t>>
              \/ \E c \in Consumers : /\ at[c] \in {"read data", "delete", "discount"}
                                      /\ data[local[c].next] = b /\ x = <<"pop", c>>
              \/ b \in lost /\ x = <<"lost", b>>
BY DEF Holders

\* The pop under way has the last item taken.
LEMMA PopHasTheOldest ==
    ASSUME Standing, NEW N \in Nodes, ListInv(N), NEW c \in Consumers, HasTaken(c)
    PROVE  /\ Popped = 1 /\ Oldest \in 1 .. Newest /\ data[local[c].next] = put[Oldest]
           /\ \A d \in Consumers : HasTaken(d) => d = c
<1>1. local[c].next = N[Oldest] /\ 0 < Oldest
  BY DEF ListInv, PopKnows
<1>2. Oldest \in InList /\ Oldest \in 1 .. Newest /\ data[N[Oldest]] = put[Oldest]
  BY <1>1, ListFacts DEF ListInv, ListIs
<1>3. \A d \in Consumers : HasTaken(d) => d \in Queue!Popping
  BY DEF HasTaken, Queue!Popping
<1>4. \A d \in Consumers : HasTaken(d) => d = c
  BY <1>3 DEF Standing, Discipline
<1>5. QED
  BY <1>1, <1>2, <1>4 DEF Popped

\* A lent block has a holder that is the queue, a thread or the pop, and only one.
LEMMA LentIsHeldOnce ==
    ASSUME Standing, NEW N \in Nodes, ListInv(N), NEW b \in lent
    PROVE  /\ \E x : x \in Holders(b)
           /\ \A x, y \in Holders(b) : x = y
<1>1. /\ LentAreHeld /\ QueueTypes /\ b # Nothing
      /\ b \notin lost /\ \A i \in DOMAIN free_blocks : free_blocks[i] # b
  BY LentIsSomething DEF Standing, PoolInv, Pool!FreeBlocksAreFree
<1>2. Oldest \in Nat /\ Newest \in Nat /\ Popped \in 0 .. 1
  BY Numbers
<1>3. \A i \in Len(got) + 1 .. Len(put) : i \in 1 .. Newest /\ Queued(i) /\ Oldest < i
  BY <1>2 DEF Queued, Newest, Oldest
<1>4. ASSUME NEW c \in Consumers, HasTaken(c)
      PROVE  /\ Oldest \in 1 .. Newest /\ Queued(Oldest) /\ data[local[c].next] = put[Oldest]
             /\ \A d \in Consumers : HasTaken(d) => d = c
  BY <1>2, <1>4, PopHasTheOldest DEF Queued
<1>5. \A t \in Threads : hand[t] = b /\ at[t] \notin {"swing", "count"} <=> Holding(t) = b
  BY <1>1 DEF Holding, HasPut
<1>6. \A x : x \in Holders(b) <=>
              \/ \E i \in Len(got) + 1 .. Len(put) : put[i] = b /\ x = <<"queue", i>>
              \/ \E t \in Threads : Holding(t) = b /\ x = <<"thread", t>>
              \/ \E c \in Consumers : HasTaken(c) /\ put[Oldest] = b /\ x = <<"pop", c>>
  <2>1. ASSUME NEW c \in Consumers
        PROVE  /\ at[c] \in {"read data", "delete", "discount"}
               /\ data[local[c].next] = b
               <=> HasTaken(c) /\ put[Oldest] = b
    BY <1>4 DEF HasTaken
  <2>2. ASSUME NEW x
        PROVE  x \in Holders(b) <=>
                  \/ \E i \in Len(got) + 1 .. Len(put) : put[i] = b /\ x = <<"queue", i>>
                  \/ \E t \in Threads : Holding(t) = b /\ x = <<"thread", t>>
                  \/ \E c \in Consumers : HasTaken(c) /\ put[Oldest] = b /\ x = <<"pop", c>>
    <3> DEFINE L == \E i \in DOMAIN free_blocks : free_blocks[i] = b /\ x = <<"list", i>>
               Q == \E i \in Len(got) + 1 .. Len(put) : put[i] = b /\ x = <<"queue", i>>
               T == \E t \in Threads : /\ hand[t] = b /\ at[t] \notin {"swing", "count"}
                                       /\ x = <<"thread", t>>
               P == \E c \in Consumers : /\ at[c] \in {"read data", "delete", "discount"}
                                         /\ data[local[c].next] = b /\ x = <<"pop", c>>
               H == \E t \in Threads : Holding(t) = b /\ x = <<"thread", t>>
               O == \E c \in Consumers : HasTaken(c) /\ put[Oldest] = b /\ x = <<"pop", c>>
    <3>1. x \in Holders(b) <=> L \/ Q \/ T \/ P \/ (b \in lost /\ x = <<"lost", b>>)
      BY HolderIs
    <3>2. ~L /\ b \notin lost
      BY <1>1
    <3>3. T <=> H
      BY <1>5
    <3>4. P <=> O
      BY <2>1
    <3> HIDE DEF L, T, P
    <3>5. x \in Holders(b) <=> Q \/ H \/ O
      BY <3>1, <3>2, <3>3, <3>4
    <3>6. QED
      BY <3>5
  <2>3. QED
    BY <2>2
<1>7. \E x : x \in Holders(b)
  <2>1. CASE \E t \in Threads : Holding(t) = b
    BY <1>6, <2>1
  <2>2. CASE \E i \in 1 .. Newest : Queued(i) /\ put[i] = b
    <3>1. PICK i \in 1 .. Newest : Queued(i) /\ put[i] = b
      BY <2>2
    <3>2. CASE Oldest < i
      <4>1. i \in Len(got) + 1 .. Len(put)
        BY <1>2, <3>2 DEF Oldest, Newest
      <4>2. QED
        BY <1>6, <3>1, <4>1
    <3>3. CASE ~(Oldest < i)
      <4>1. i = Oldest /\ Popped = 1
        BY <1>2, <3>1, <3>3 DEF Queued
      <4>2. PICK c \in Consumers : HasTaken(c)
        BY <4>1 DEF Popped
      <4>3. QED
        BY <1>6, <3>1, <4>1, <4>2
    <3>4. QED
      BY <3>2, <3>3
  <2>3. QED
    BY <1>1, <2>1, <2>2 DEF LentAreHeld
<1>8. ASSUME NEW x \in Holders(b), NEW y \in Holders(b) PROVE x = y
  <2>1. \A i \in 1 .. Newest, j \in 1 .. Newest :
           Queued(i) /\ Queued(j) /\ put[i] = b /\ put[j] = b => i = j
    BY <1>1 DEF LentAreHeld
  <2>2. \A i \in 1 .. Newest, t \in Threads :
           ~(Queued(i) /\ put[i] = b /\ Holding(t) = b)
    BY <1>1 DEF LentAreHeld
  <2>3. \A t \in Threads, u \in Threads : Holding(t) = b /\ Holding(u) = b => t = u
    BY <1>1 DEF LentAreHeld
  <2>4. CASE \E t \in Threads : Holding(t) = b /\ x = <<"thread", t>>
    BY <1>3, <1>4, <1>6, <2>2, <2>3, <2>4
  <2>5. CASE \E i \in Len(got) + 1 .. Len(put) : put[i] = b /\ x = <<"queue", i>>
    <3>1. PICK i \in Len(got) + 1 .. Len(put) : put[i] = b /\ x = <<"queue", i>>
      BY <2>5
    <3>2. ~\E t \in Threads : Holding(t) = b
      BY <1>3, <2>2, <3>1
    <3>3. ASSUME NEW c \in Consumers, HasTaken(c), put[Oldest] = b PROVE FALSE
      BY <1>2, <1>3, <1>4, <2>1, <3>1, <3>3
    <3>4. QED
      BY <1>3, <1>6, <2>1, <3>1, <3>2, <3>3
  <2>6. CASE \E c \in Consumers : HasTaken(c) /\ put[Oldest] = b /\ x = <<"pop", c>>
    <3>1. PICK c \in Consumers : HasTaken(c) /\ put[Oldest] = b /\ x = <<"pop", c>>
      BY <2>6
    <3>2. ~\E t \in Threads : Holding(t) = b
      BY <1>4, <2>2, <3>1
    <3>3. ASSUME NEW i \in Len(got) + 1 .. Len(put), put[i] = b PROVE FALSE
      BY <1>2, <1>3, <1>4, <2>1, <3>1, <3>3
    <3>4. QED
      BY <1>4, <1>6, <3>1, <3>2, <3>3
  <2>7. QED
    BY <1>6, <2>4, <2>5, <2>6
<1>9. QED
  BY <1>7, <1>8

\* A block that is not lent is with the queue and the threads no more.
LEMMA NotLentIsNotHeld ==
    ASSUME Standing, NEW N \in Nodes, ListInv(N), NEW b \in Pairs, b \notin lent, NEW x
    PROVE  x \in Holders(b) <=>
              \/ \E i \in DOMAIN free_blocks : free_blocks[i] = b /\ x = <<"list", i>>
              \/ b \in lost /\ x = <<"lost", b>>
<1>1. LentAreHeld /\ b # Nothing
  BY LentIsSomething DEF Standing
<1>2. ASSUME NEW i \in Len(got) + 1 .. Len(put) PROVE put[i] # b
  <2>1. i \in 1 .. Newest /\ Queued(i)
    BY Numbers DEF Queued, Newest, Oldest
  <2>2. QED
    BY <1>1, <2>1 DEF LentAreHeld
<1>3. ASSUME NEW t \in Threads, hand[t] = b PROVE at[t] \in {"swing", "count"}
  <2>1. Holding(t) # b
    BY <1>1 DEF LentAreHeld
  <2>2. QED
    BY <1>3, <2>1 DEF Holding, HasPut
<1>4. ASSUME NEW c \in Consumers, HasTaken(c) PROVE data[local[c].next] # b
  <2>1. Oldest \in 1 .. Newest /\ Queued(Oldest) /\ data[local[c].next] = put[Oldest]
    BY <1>4, Numbers, PopHasTheOldest DEF Queued
  <2>2. QED
    BY <1>1, <2>1 DEF LentAreHeld
<1>5. QED
  BY <1>2, <1>3, <1>4, HolderIs DEF HasTaken

\* Between the pool's list, the producers, the queue and the consumers no block is lost
\* and none is in two places: what a pop returns is what one push put in, and is
\* given back once (memory_pool.hpp 29-55 and 72-118, lock_free_queue.hpp 45-103).
THEOREM BlocksHaveOneHolder == CarefulSpec => []EveryBlockHasOneHolder
<1>1. IInv => EveryBlockHasOneHolder
  <2> SUFFICES ASSUME IInv, NEW b \in Pool!Blocks PROVE Cardinality(Holders(b)) = 1
    BY DEF EveryBlockHasOneHolder
  <2>1. CASE Closed
    BY <2>1, ChunksHaveBlocks DEF Closed, Pool!Blocks
  <2>2. CASE Standing /\ \E N \in Nodes : ListInv(N)
    <3>1. PICK N \in Nodes : ListInv(N)
      BY <2>2
    <3>2. /\ PoolInv /\ lent \cap lost = {}
          /\ \A i, j \in DOMAIN free_blocks : i # j => free_blocks[i] # free_blocks[j]
          /\ \A i \in DOMAIN free_blocks : free_blocks[i] \notin lent \cup lost
          /\ b \in lent \/ b \in lost \/ \E i \in DOMAIN free_blocks : free_blocks[i] = b
      BY <2>2 DEF Standing, PoolInv, Pool!FreeBlocksAreFree
    <3>3. (\E x : x \in Holders(b)) /\ \A x, y \in Holders(b) : x = y
      <4>1. CASE b \in lent
        BY <2>2, <3>1, <4>1, LentIsHeldOnce
      <4>2. CASE b \notin lent
        <5>1. b \in Pairs
          BY <3>2, BlocksOfAChunk DEF PoolInv
        <5>2. \A x : x \in Holders(b) <=>
                 \/ \E i \in DOMAIN free_blocks : free_blocks[i] = b /\ x = <<"list", i>>
                 \/ b \in lost /\ x = <<"lost", b>>
          BY <2>2, <3>1, <4>2, <5>1, NotLentIsNotHeld
        <5>3. CASE b \in lost
          <6>1. PICK y : y = <<"lost", b>>
            OBVIOUS
          <6>2. ~\E i \in DOMAIN free_blocks : free_blocks[i] = b
            BY <3>2, <5>3
          <6>3. \A x : x \in Holders(b) <=> x = y
            BY <5>2, <5>3, <6>1, <6>2, Zenon
          <6>4. QED
            BY <6>3
        <5>4. CASE b \notin lost
          <6>1. PICK i \in DOMAIN free_blocks : free_blocks[i] = b
            BY <3>2, <4>2, <5>4
          <6>2. \A j \in DOMAIN free_blocks : free_blocks[j] = b => j = i
            BY <3>2, <6>1
          <6>3. PICK y : y = <<"list", i>>
            OBVIOUS
          <6>4. \A x : x \in Holders(b) <=> x = y
            BY <5>2, <5>4, <6>1, <6>2, <6>3, Zenon
          <6>5. QED
            BY <6>4
        <5>5. QED
          BY <5>3, <5>4
      <4>3. QED
        BY <4>1, <4>2
    <3>4. PICK x : Holders(b) = {x}
      BY <3>3
    <3>5. QED
      BY <3>4, FS_Singleton
  <2>3. QED
    BY <2>1, <2>2 DEF IInv
<1>2. QED
  BY <1>1, InductiveInvariant, PTL

-----------------------------------------------------------------------------
(* The queue is a first-in first-out buffer *)

FifoItems == (1 .. MaxChunks) \X (0 .. BlocksPerChunk - 1)

\* A push that links its node puts its item, whatever other pushes do.
LEMMA LinkPuts ==
    ASSUME Standing, NEW N \in Nodes, ListInv(N), NEW p \in Producers,
           Queue!Link(p), UNCHANGED <<poolVars, hand, met>>
    PROVE  [Fifo!Next]_<<put, got>>
<1>1. CASE next[local[p].old] # local[p].null
  BY <1>1 DEF Queue!Link
<1>2. CASE next[local[p].old] = local[p].null
  <2>1. PICK n, x : n = local[p].new /\ x = data[n]
    OBVIOUS
  <2>2. Links(p, n, x)
    BY <1>2, <2>1 DEF Queue!Link, Queue!Go, Links, poolVars
  <2>3. p \in Threads /\ x = hand[p] /\ x # Nothing /\ Newest + 1 <= MaxPushes
    BY <2>2, LinkFacts
  <2>4. x \in lent
    <3>1. Holding(p) = x
      BY <2>2, <2>3 DEF Holding, HasPut, Links
    <3>2. QED
      BY <2>3, <3>1 DEF Standing, LentAreHeld
  <2>5. x \in FifoItems
    <3>1. x \in Pool!Blocks /\ chunks \in 0 .. MaxChunks
      BY <2>4 DEF Standing, PoolInv
    <3>2. QED
      BY <3>1, BoundsAreNumbers DEF Pool!Blocks, FifoItems
  <2>6. Len(put) - Len(got) < MaxPushes
    BY <2>3, Numbers, BoundsAreNumbers DEF Newest, Oldest
  <2>7. put' = Append(put, x) /\ got' = got
    BY <2>2 DEF Links
  <2>8. Fifo!Put(x)
    BY <2>6, <2>7 DEF Fifo!Put
  <2>9. QED
    BY <2>5, <2>8 DEF Fifo!Next, FifoItems
<1>3. QED
  BY <1>1, <1>2

\* A pop that moves the head gets the item put first.
LEMMA TakeGets ==
    ASSUME Standing, NEW N \in Nodes, ListInv(N), NEW c \in Consumers, Queue!Take(c)
    PROVE  Fifo!Get
<1>1. Oldest < Newest /\ local[c].next = N[Oldest + 1] /\ head = local[c].old
  BY DEF Queue!Take, ListInv, PopKnows
<1>2. data[N[Oldest + 1]] = put[Oldest + 1]
  <2>1. Oldest + 1 \in InList /\ Oldest + 1 > 0
    BY <1>1, ListFacts DEF ListInv, InList
  <2>2. QED
    BY <2>1 DEF ListInv, ListIs
<1>3. got' = Append(got, put[Len(got) + 1]) /\ put' = put
  BY <1>1, <1>2 DEF Queue!Take, Oldest
<1>4. QED
  BY <1>1, <1>3 DEF Fifo!Get, Oldest, Newest

\* The queue hands out what was pushed, in the order in which the pushes linked their
\* nodes, each item once, through every interleaving of a pop with a push and of
\* pushes with one another (lock_free_queue.hpp 45-103).
THEOREM QueueIsFifo == CarefulSpec => ImplementsFifo
<1>1. Init => Fifo!Init
  BY DEF Init, Queue!Init, Fifo!Init
<1>2. IInv /\ [CarefulNext]_vars => [Fifo!Next]_<<put, got>>
  <2> SUFFICES ASSUME IInv, [CarefulNext]_vars PROVE [Fifo!Next]_<<put, got>>
    OBVIOUS
  <2>1. CASE Closed
    BY <2>1, ClosedStays DEF vars, queueVars
  <2>2. CASE Standing /\ \E N \in Nodes : ListInv(N)
    <3>1. PICK N \in Nodes : ListInv(N)
      BY <2>2
    <3>2. ASSUME NEW p \in Producers, ProducerStep(p) \/ CarefulPush(p)
          PROVE  [Fifo!Next]_<<put, got>>
      <4>1. CASE Queue!Link(p) /\ UNCHANGED <<poolVars, hand, met>>
        BY <2>2, <3>1, <4>1, LinkPuts
      <4>2. CASE Allocate(p) \/ Construct(p) \/ ConstructThrows(p)
        BY <4>2 DEF Allocate, Construct, ConstructThrows, queueVars
      <4>3. CASE CarefulPush(p) \/ PushReturns(p)
        BY <4>3 DEF CarefulPush, Push, PushReturns, Queue!push, Queue!Count
      <4>4. CASE \/ Queue!LoadTail(p) \/ Queue!LoadNext(p) \/ Queue!CheckTail(p)
                 \/ Queue!Help(p) \/ Queue!Swing(p)
        BY <4>4 DEF Queue!LoadTail, Queue!LoadNext, Queue!CheckTail, Queue!Help, Queue!Swing
      <4>5. QED
        BY <3>2, <4>1, <4>2, <4>3, <4>4 DEF ProducerStep, Queue!PushStep
    <3>3. ASSUME NEW c \in Consumers, ConsumerStep(c) \/ CarefulPop(c)
          PROVE  [Fifo!Next]_<<put, got>>
      <4>1. CASE Queue!Take(c)
        BY <2>2, <3>1, <4>1, TakeGets DEF Fifo!Next
      <4>2. CASE CarefulPop(c) \/ PopReturns(c)
        BY <4>2 DEF CarefulPop, Pop, PopReturns, Queue!pop, Queue!Discount
      <4>3. CASE Destroy(c) \/ Deallocate(c)
        BY <4>3 DEF Destroy, Deallocate, queueVars
      <4>4. CASE Queue!LoadHeadsNext(c) \/ Queue!ReadData(c) \/ Queue!Delete(c)
        BY <4>4 DEF Queue!LoadHeadsNext, Queue!ReadData, Queue!Delete
      <4>5. QED
        BY <3>3, <4>1, <4>2, <4>3, <4>4 DEF ConsumerStep, Queue!PopStep
    <3>4. CASE Close
      BY <3>4 DEF Close, Queue!destroy
    <3>5. CASE UNCHANGED vars
      BY <3>5 DEF vars, queueVars
    <3>6. QED
      BY <3>2, <3>3, <3>4, <3>5 DEF CarefulNext
  <2>3. QED
    BY <2>1, <2>2 DEF IInv
<1>3. QED
  BY <1>1, <1>2, InductiveInvariant, PTL DEF CarefulSpec, ImplementsFifo, Fifo!Spec

=============================================================================
