------------------------------ MODULE Handover ------------------------------
(***************************************************************************)
(* The containers at work together: producers take objects from an         *)
(* ObjectPool (module MemoryPool) and push them into a LockFreeQueue;      *)
(* consumers pop them and give them back to the pool.  The queue's nodes   *)
(* are not of the pool.  The client is assumed: nothing in the repository  *)
(* uses either container yet.                                              *)
(*                                                                         *)
(* Spec is any client, which pushes and pops when it likes: the queue then *)
(* deletes nodes that a thread still looks at, and what happens next is    *)
(* undefined.  CarefulSpec is a client that avoids this; the queue does    *)
(* not ask for it.  Its pops do not overlap, and a push overlaps either    *)
(* pushes or pops: once it has met a pop no other push begins before it    *)
(* ends, for the tail may still be on a deleted node; once it has met a    *)
(* push no pop begins, for the slower one may still look at an old tail.   *)
(***************************************************************************)
EXTENDS Naturals, Sequences, FiniteSets

CONSTANTS
    Producers, Consumers, Addresses, NoNode, Nothing, SizeModulus,
    BlocksPerChunk, SizeofBlock, MaxChunks,
    Scheduled,     \* the threads that are sure to go on running
    MaxPushes      \* bound: pushes in a behaviour

ASSUME ChunksHaveBlocks == BlocksPerChunk \in Nat \ {0}
ASSUME BlocksHaveASize == SizeofBlock \in Nat \ {0}
ASSUME SizeWraps == SizeModulus \in Nat \ {0}
ASSUME NoNodeIsNoAddress == NoNode \notin Addresses
ASSUME MemoryIsFinite == IsFiniteSet(Addresses) /\ Addresses # {}
ASSUME ThreadsPushOrPop ==
    /\ Producers \cap Consumers = {} /\ Producers \cup Consumers # {}
    /\ IsFiniteSet(Producers)
ASSUME NothingIsNoBlock == Nothing \notin Nat \X Nat
ASSUME BoundsAreNumbers == MaxChunks \in Nat /\ MaxPushes \in Nat

VARIABLES
    head, tail, size, next, data, live, at, local, put, got,
    chunks, free_blocks, lent, objects, lost,
    hand,          \* the block each thread has, between the two containers
    met            \* history: what the push under way has met, "push", "pop" or "none"

Queue == INSTANCE LockFreeQueue
Pool == INSTANCE MemoryPool

queueVars == <<head, tail, size, next, data, live, at, local, put, got>>
poolVars == <<chunks, free_blocks, lent, objects, lost>>
vars == <<queueVars, poolVars, hand, met>>

Threads == Producers \cup Consumers

Init ==
    /\ Queue!Init
    /\ Pool!Init
    /\ hand = [t \in Threads |-> Nothing]
    /\ met = "none"

Give(t, b) == hand' = [hand EXCEPT ![t] = b]

Begun == Len(put) + Cardinality({p \in Producers : hand[p] # Nothing})

Allocate(p) ==
    /\ hand[p] = Nothing /\ at[p] = "idle"
    /\ Begun < MaxPushes
    /\ Pool!allocate
    /\ Give(p, Pool!allocated)
    /\ UNCHANGED <<queueVars, met>>

Construct(p) ==
    /\ hand[p] # Nothing /\ hand[p] \notin objects /\ at[p] = "idle"
    /\ Pool!construct(hand[p])
    /\ UNCHANGED <<queueVars, hand, met>>

\* The object's constructor throws: the producer has nothing.
ConstructThrows(p) ==
    /\ hand[p] # Nothing /\ hand[p] \notin objects /\ at[p] = "idle"
    /\ Pool!constructorThrows(hand[p])
    /\ Give(p, Nothing)
    /\ UNCHANGED <<queueVars, met>>

Push(p) ==
    /\ hand[p] \in objects
    /\ Queue!push(p, hand[p])
    /\ met' = IF Queue!Popping # {} THEN "pop"
              ELSE IF Queue!Pushing # {} THEN "push" ELSE "none"
    /\ UNCHANGED <<poolVars, hand>>

PushReturns(p) ==
    /\ Queue!Count(p)
    /\ Give(p, Nothing)
    /\ UNCHANGED <<poolVars, met>>

Pop(c) ==
    /\ hand[c] = Nothing
    /\ Queue!pop(c)
    /\ met' = IF Queue!Pushing # {} THEN "pop" ELSE "none"
    /\ UNCHANGED <<poolVars, hand>>

PopReturns(c) ==
    /\ Queue!Discount(c)
    /\ Give(c, data[local[c].next])
    /\ UNCHANGED <<poolVars, met>>

Destroy(c) ==
    /\ hand[c] \in objects
    /\ Pool!destroy(hand[c])
    /\ UNCHANGED <<queueVars, hand, met>>

\* Given back or thrown at, the consumer is rid of it.
Deallocate(c) ==
    /\ hand[c] # Nothing /\ hand[c] \notin objects
    /\ Pool!deallocate(hand[c])
    /\ Give(c, Nothing)
    /\ UNCHANGED <<queueVars, met>>

\* The containers are destroyed; objects still in them are dropped.
Close ==
    /\ Queue!destroy
    /\ Pool!release
    /\ hand' = [t \in Threads |-> Nothing]
    /\ UNCHANGED met

\* What a thread does but for beginning a push or a pop.
ProducerStep(p) ==
    \/ Allocate(p) \/ Construct(p) \/ ConstructThrows(p)
    \/ Queue!PushStep(p) /\ UNCHANGED <<poolVars, hand, met>>
    \/ PushReturns(p)

ConsumerStep(c) ==
    \/ Queue!PopStep(c) /\ UNCHANGED <<poolVars, hand, met>>
    \/ PopReturns(c) \/ Destroy(c) \/ Deallocate(c)

Next ==
    \/ \E p \in Producers : ProducerStep(p) \/ Push(p)
    \/ \E c \in Consumers : ConsumerStep(c) \/ Pop(c)
    \/ Close

Spec == Init /\ [][Next]_vars

CarefulPush(p) ==
    /\ Queue!Pushing = {} \/ (Queue!Popping = {} /\ met # "pop")
    /\ Push(p)

CarefulPop(c) ==
    /\ Queue!Popping = {}
    /\ Queue!Pushing = {} \/ met # "push"
    /\ Pop(c)

CarefulNext ==
    \/ \E p \in Producers : ProducerStep(p) \/ CarefulPush(p)
    \/ \E c \in Consumers : ConsumerStep(c) \/ CarefulPop(c)
    \/ Close

CarefulSpec == Init /\ [][CarefulNext]_vars

\* Only the scheduled threads are sure to run: another may stop for good between
\* any two accesses.
FairSpec ==
    CarefulSpec /\ \A p \in Scheduled \cap Producers : WF_vars(ProducerStep(p))

-----------------------------------------------------------------------------
(* Properties *)

\* No thread reads or writes a node that was deleted (lock_free_queue.hpp 55-103).
\* It does not hold of Spec, for the queue deletes a node the moment it is popped.
TouchesOnlyLiveNodes == Queue!TouchesOnlyLiveNodes

\* See module LockFreeQueue.
Settles == Queue!Settles

\* Who has block b: the list, the queue, a thread on its way from one to the
\* other, or nobody any more.
Holders(b) ==
    {<<"list", i>> : i \in {i \in DOMAIN free_blocks : free_blocks[i] = b}}
    \cup {<<"queue", i>> : i \in {i \in Len(got) + 1 .. Len(put) : put[i] = b}}
    \cup {<<"thread", t>> : t \in {t \in Threads :
            hand[t] = b /\ at[t] \notin {"swing", "count"}}}
    \cup {<<"pop", c>> : c \in {c \in Consumers :
            /\ at[c] \in {"read data", "delete", "discount"}
            /\ data[local[c].next] = b}}
    \cup {<<"lost", r>> : r \in lost \cap {b}}

\* Between pool, producers, queue and consumer no block is lost and none is in
\* two places (memory_pool.hpp 29-55, lock_free_queue.hpp 45-103).
EveryBlockHasOneHolder == \A b \in Pool!Blocks : Cardinality(Holders(b)) = 1

Fifo == INSTANCE BoundedFifo WITH
            Items <- (1 .. MaxChunks) \X (0 .. BlocksPerChunk - 1),
            Capacity <- MaxPushes

\* The queue hands out what was pushed, in the order of the links, each once.
ImplementsFifo == Fifo!Spec

\* A push ends wherever the other threads stop, for none holds a lock
\* (lock_free_queue.hpp 82-103).  Pushes are bounded: others that go on pushing for
\* ever could make it try again for ever.
StalledThreadsBlockNobody ==
    \A p \in Scheduled \cap Producers : p \in Queue!Pushing ~> p \notin Queue!Pushing

=============================================================================
