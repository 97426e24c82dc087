--------------------------- MODULE CircularBuffer ---------------------------
(***************************************************************************)
(* data::CircularBuffer (src/core/data/circular_buffer.hpp): an array with *)
(* a head, a tail and a size.  push, pop and peek hold mutex_ throughout   *)
(* and are one action each; size_ is atomic and size(), empty() and full() *)
(* read it without the lock, so a client acts on a size that has passed.   *)
(* The reference that peek returns is read after the lock is released.     *)
(***************************************************************************)
EXTENDS Naturals, Sequences

CONSTANTS
    Producers, Consumers,   \* the threads that push, and those that pop and peek
    Items,                  \* what is pushed
    Capacity,               \* the template parameter
    Moved,                  \* what a slot holds after its item was moved out
    Nothing,                \* no size seen; no reference held
    MaxPushes               \* bound: items accepted in a behaviour

ASSUME CapacityIsPositive == Capacity \in Nat \ {0}
ASSUME MovedIsNoItem == Moved \notin Items
ASSUME NothingIsNoSize == Nothing \notin Nat

VARIABLES
    buffer,   \* buffer_, indexed from 0
    head,     \* head_
    tail,     \* tail_
    size,     \* size_
    seen,     \* the size a thread read without the lock and may still act on
    ref,      \* the reference a consumer holds from peek, with the item it was for
    put,      \* history: the items accepted
    got       \* history: the items popped

bufferVars == <<buffer, head, tail, size, seen, ref, put, got>>

Threads == Producers \cup Consumers
Slots == 0 .. (Capacity - 1)

BufferInit ==
    /\ buffer \in [Slots -> {Moved}]
    /\ head = 0 /\ tail = 0 /\ size = 0
    /\ seen = [t \in Threads |-> Nothing]
    /\ ref = [c \in Consumers |-> Nothing]
    /\ put = <<>> /\ got = <<>>

\* Mutants of Push: a full buffer has its oldest item overwritten; a full buffer
\* starts over.
PushOverwriting(p, x) ==
    /\ Len(put) < MaxPushes
    /\ buffer' = [buffer EXCEPT ![tail] = x]
    /\ tail' = (tail + 1) % Capacity
    /\ size' = IF size = Capacity THEN size ELSE size + 1
    /\ put' = Append(put, x)
    /\ seen' = [seen EXCEPT ![p] = Nothing]
    /\ UNCHANGED <<head, ref, got>>

PushStartingOver(p, x) ==
    /\ Len(put) < MaxPushes
    /\ buffer' = [buffer EXCEPT ![tail] = x]
    /\ tail' = (tail + 1) % Capacity
    /\ size' = IF size = Capacity THEN 1 ELSE size + 1
    /\ put' = Append(put, x)
    /\ seen' = [seen EXCEPT ![p] = Nothing]
    /\ UNCHANGED <<head, ref, got>>

\* push that returns true, by copy or by move.
Push(p, x) ==
    /\ size < Capacity
    /\ Len(put) < MaxPushes
    /\ buffer' = [buffer EXCEPT ![tail] = x]
    /\ tail' = (tail + 1) % Capacity
    /\ size' = size + 1
    /\ put' = Append(put, x)
    /\ seen' = [seen EXCEPT ![p] = Nothing]
    /\ UNCHANGED <<head, ref, got>>

\* push that returns false.
PushFull(p) ==
    /\ size = Capacity
    /\ seen[p] # Nothing
    /\ seen' = [seen EXCEPT ![p] = Nothing]
    /\ UNCHANGED <<buffer, head, tail, size, ref, put, got>>

\* Mutant of Pop: the newest item.
PopNewest(c) ==
    /\ size > 0
    /\ tail' = (tail + Capacity - 1) % Capacity
    /\ got' = Append(got, buffer[tail'])
    /\ buffer' = [buffer EXCEPT ![tail'] = Moved]
    /\ size' = size - 1
    /\ seen' = [seen EXCEPT ![c] = Nothing]
    /\ ref' = [ref EXCEPT ![c] = Nothing]
    /\ UNCHANGED <<head, put>>

\* pop of an item, which moving leaves behind or not, as its type has it.  A
\* consumer that pops gives up its reference.
Pop(c) ==
    /\ size > 0
    /\ got' = Append(got, buffer[head])
    /\ buffer' \in {buffer, [buffer EXCEPT ![head] = Moved]}
    /\ head' = (head + 1) % Capacity
    /\ size' = size - 1
    /\ seen' = [seen EXCEPT ![c] = Nothing]
    /\ ref' = [ref EXCEPT ![c] = Nothing]
    /\ UNCHANGED <<tail, put>>

\* pop that returns nullopt.
PopEmpty(c) ==
    /\ size = 0
    /\ seen[c] # Nothing
    /\ seen' = [seen EXCEPT ![c] = Nothing]
    /\ UNCHANGED <<buffer, head, tail, size, ref, put, got>>

\* size(), empty() or full(), without the lock.
Look(t) ==
    /\ seen' = [seen EXCEPT ![t] = size]
    /\ UNCHANGED <<buffer, head, tail, size, ref, put, got>>

\* peek of an item: the caller keeps a reference to the slot.
Peek(c) ==
    /\ size > 0
    /\ ref' = [ref EXCEPT ![c] = [slot |-> head, item |-> buffer[head]]]
    /\ UNCHANGED <<buffer, head, tail, size, seen, put, got>>

\* The caller is done with the reference.
DropRef(c) ==
    /\ ref[c] # Nothing
    /\ ref' = [ref EXCEPT ![c] = Nothing]
    /\ UNCHANGED <<buffer, head, tail, size, seen, put, got>>

BufferNext ==
    \/ \E p \in Producers : PushFull(p) \/ \E x \in Items : Push(p, x)
    \/ \E c \in Consumers : Pop(c) \/ PopEmpty(c) \/ Peek(c) \/ DropRef(c)
    \/ \E t \in Threads : Look(t)

BufferSpec == BufferInit /\ [][BufferNext]_bufferVars

-----------------------------------------------------------------------------
(* Properties *)

\* The shape of the members of circular_buffer.hpp lines 84-87.
BufferTypeOK ==
    /\ buffer \in [Slots -> Items \cup {Moved}]
    /\ head \in Slots
    /\ tail \in Slots
    /\ size \in 0 .. Capacity
    /\ seen \in [Threads -> 0 .. Capacity \cup {Nothing}]
    /\ ref \in [Consumers ->
                  [slot : Slots, item : Items \cup {Moved}] \cup {Nothing}]
    /\ put \in Seq(Items)
    /\ got \in Seq(Items \cup {Moved})

\* Where the k-th item after the head lies.
Slot(k) == IF head + k < Capacity THEN head + k ELSE head + k - Capacity

\* The array holds exactly the items that were put and not yet popped, in order
\* from the head, however often head and tail have wrapped around; and as
\* test/test_circular_buffer.cpp line 123 requires, size() is pushes minus pops
\* (circular_buffer.hpp 24-26 and 53-55).
HoldsWhatIsLeft ==
    /\ size = Len(put) - Len(got)
    /\ tail = Slot(size)
    /\ \A k \in 0 .. (size - 1) : buffer[Slot(k)] = put[Len(got) + k + 1]

\* The buffer is a bounded FIFO for any number of producers and consumers.
Fifo == INSTANCE BoundedFifo
ImplementsBoundedFifo == Fifo!Spec

\* With one producer and one consumer a size read without the lock is a safe
\* bound until the thread's own next operation: who saw room can push, who saw
\* an item can pop (circular_buffer.hpp 70-81).
SeenIsABound ==
    /\ \A p \in Producers : seen[p] # Nothing => size <= seen[p]
    /\ \A c \in Consumers : seen[c] # Nothing => size >= seen[c]

\* What peek referred to stays what it was while the reference is held.  It does
\* with one consumer (circular_buffer.hpp 60-68).  With two, the other's pop and
\* then a push change the slot, though test/test_circular_buffer.cpp line 92
\* speaks of "CircularBuffer thread safety".
PeekedItemStays ==
    \A c \in Consumers : ref[c] # Nothing => buffer[ref[c].slot] = ref[c].item

=============================================================================
