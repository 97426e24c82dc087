--------------------------- MODULE LockFreeQueue ---------------------------
(***************************************************************************)
(* data::LockFreeQueue (src/core/data/lock_free_queue.hpp): a linked list  *)
(* that starts with a node already popped.  Each action is one atomic      *)
(* access: a load, a compare-exchange, a counter's update, or the read or  *)
(* the deletion of a node.  A compare-exchange fails only if the values    *)
(* differ, as on x86-64.  Deleted nodes' addresses are used again.         *)
(*                                                                         *)
(* Nothing keeps a node alive for a thread that still looks at it: a       *)
(* thread may touch a node that another has deleted.  What such an access  *)
(* finds is undefined in the code; here it finds the node as it was left,  *)
(* or the one that has its address by now.                                 *)
(***************************************************************************)
EXTENDS Naturals, Sequences, FiniteSets

CONSTANTS
    Producers, Consumers,   \* the threads that push and those that pop
    Addresses,              \* where nodes may be
    NoNode,                 \* nullptr
    Nothing,                \* the data of the first node
    SizeModulus             \* the values of a size_t

VARIABLES
    head,    \* head_
    tail,    \* tail_
    size,    \* size_
    next,    \* of each address: the node's next
    data,    \* of each address: the node's data
    live,    \* the addresses of nodes not deleted
    at,      \* the access each thread makes next
    local,   \* each thread's variables: new_node, old_tail or old_head, what was
             \* read from its next, and null_node
    put,     \* history: what was linked
    got      \* history: what was taken

vars == <<head, tail, size, next, data, live, at, local, put, got>>

Threads == Producers \cup Consumers

NoLocals == [new |-> NoNode, old |-> NoNode, next |-> NoNode, null |-> NoNode]

Init ==
    /\ head = CHOOSE a \in Addresses : TRUE
    /\ tail = head
    /\ size = 0
    /\ next = [a \in Addresses |-> NoNode]
    /\ data = [a \in Addresses |-> Nothing]
    /\ live = {head}
    /\ at = [t \in Threads |-> "idle"]
    /\ local = [t \in Threads |-> NoLocals]
    /\ put = <<>> /\ got = <<>>

Go(t, access) == at' = [at EXCEPT ![t] = access]

-----------------------------------------------------------------------------
(* push_node *)

\* push: the new node.
push(p, x) ==
    /\ at[p] = "idle"
    /\ \E n \in Addresses \ live :
          /\ live' = live \cup {n}
          /\ next' = [next EXCEPT ![n] = NoNode]
          /\ data' = [data EXCEPT ![n] = x]
          /\ local' = [local EXCEPT ![p] = [NoLocals EXCEPT !.new = n]]
    /\ Go(p, "load tail")
    /\ UNCHANGED <<head, tail, size, put, got>>

LoadTail(p) ==
    /\ at[p] = "load tail"
    /\ local' = [local EXCEPT ![p].old = tail]
    /\ Go(p, "load next")
    /\ UNCHANGED <<head, tail, size, next, data, live, put, got>>

LoadNext(p) ==
    /\ at[p] = "load next"
    /\ local' = [local EXCEPT ![p].next = next[local[p].old]]
    /\ Go(p, "check tail")
    /\ UNCHANGED <<head, tail, size, next, data, live, put, got>>

CheckTail(p) ==
    /\ at[p] = "check tail"
    /\ Go(p, CASE local[p].old # tail -> "load tail"
               [] local[p].old = tail /\ local[p].next = NoNode -> "link"
               [] local[p].old = tail /\ local[p].next # NoNode -> "help")
    /\ UNCHANGED <<head, tail, size, next, data, live, local, put, got>>

\* Mutant of Link: a store instead of the compare-exchange.
LinkByStore(p) ==
    /\ at[p] = "link"
    /\ next' = [next EXCEPT ![local[p].old] = local[p].new]
    /\ put' = Append(put, data[local[p].new])
    /\ Go(p, "swing")
    /\ UNCHANGED <<head, tail, size, data, live, local, got>>

\* old_tail->next.compare_exchange_weak(null_node, new_node).  Failing leaves the
\* other's node in null_node, which is not reset: the next try fails as well and
\* brings the nullptr back.
Link(p) ==
    /\ at[p] = "link"
    /\ \/ /\ next[local[p].old] = local[p].null
          /\ next' = [next EXCEPT ![local[p].old] = local[p].new]
          /\ put' = Append(put, data[local[p].new])
          /\ Go(p, "swing")
          /\ UNCHANGED local
       \/ /\ next[local[p].old] # local[p].null
          /\ local' = [local EXCEPT ![p].null = next[local[p].old]]
          /\ Go(p, "load tail")
          /\ UNCHANGED <<next, put>>
    /\ UNCHANGED <<head, tail, size, data, live, got>>

\* Mutant of Help: wait until the other has moved the tail.
HelpNobody(p) ==
    /\ at[p] = "help" /\ Go(p, "load tail")
    /\ UNCHANGED <<head, tail, size, next, data, live, local, put, got>>

\* Another thread has linked its node and not moved the tail.
Help(p) ==
    /\ at[p] = "help"
    /\ tail' = IF tail = local[p].old THEN local[p].next ELSE tail
    /\ Go(p, "load tail")
    /\ UNCHANGED <<head, size, next, data, live, local, put, got>>

\* Mutant of Swing: the tail is left behind.
SwingNot(p) ==
    /\ at[p] = "swing" /\ Go(p, "count")
    /\ UNCHANGED <<head, tail, size, next, data, live, local, put, got>>

Swing(p) ==
    /\ at[p] = "swing"
    /\ tail' = IF tail = local[p].old THEN local[p].new ELSE tail
    /\ Go(p, "count")
    /\ UNCHANGED <<head, size, next, data, live, local, put, got>>

\* size_.fetch_add, and push returns.
Count(p) ==
    /\ at[p] = "count"
    /\ size' = (size + 1) % SizeModulus
    /\ local' = [local EXCEPT ![p] = NoLocals]
    /\ Go(p, "idle")
    /\ UNCHANGED <<head, tail, next, data, live, put, got>>

PushStep(p) ==
    \/ LoadTail(p) \/ LoadNext(p) \/ CheckTail(p)
    \/ Link(p) \/ Help(p) \/ Swing(p)

-----------------------------------------------------------------------------
(* pop *)

pop(c) ==
    /\ at[c] = "idle"
    /\ local' = [local EXCEPT ![c].old = head]
    /\ Go(c, "load head's next")
    /\ UNCHANGED <<head, tail, size, next, data, live, put, got>>

\* Without a next node pop returns nothing.
LoadHeadsNext(c) ==
    /\ at[c] = "load head's next"
    /\ IF next[local[c].old] = NoNode
       THEN Go(c, "idle") /\ local' = [local EXCEPT ![c] = NoLocals]
       ELSE Go(c, "take") /\ local' = [local EXCEPT ![c].next = next[local[c].old]]
    /\ UNCHANGED <<head, tail, size, next, data, live, put, got>>

\* head_.compare_exchange_weak(old_head, next_node).  Failing leaves the head in
\* old_head, and the loop begins again.
Take(c) ==
    /\ at[c] = "take"
    /\ IF head = local[c].old
       THEN /\ head' = local[c].next
            /\ got' = Append(got, data[local[c].next])
            /\ Go(c, "read data")
            /\ UNCHANGED local
       ELSE /\ local' = [local EXCEPT ![c].old = head]
            /\ Go(c, "load head's next")
            /\ UNCHANGED <<head, got>>
    /\ UNCHANGED <<tail, size, next, data, live, put>>

\* next_node->data
ReadData(c) ==
    /\ at[c] = "read data"
    /\ Go(c, "delete")
    /\ UNCHANGED <<head, tail, size, next, data, live, local, put, got>>

\* Mutant of Delete: the node that was read is deleted, not the one before it.
DeleteNext(c) ==
    /\ at[c] = "delete"
    /\ live' = live \ {local[c].next}
    /\ Go(c, "discount")
    /\ UNCHANGED <<head, tail, size, next, data, local, put, got>>

\* delete old_head
Delete(c) ==
    /\ at[c] = "delete"
    /\ live' = live \ {local[c].old}
    /\ Go(c, "discount")
    /\ UNCHANGED <<head, tail, size, next, data, local, put, got>>

\* size_.fetch_sub, and pop returns what it read.
Discount(c) ==
    /\ at[c] = "discount"
    /\ size' = (size + SizeModulus - 1) % SizeModulus
    /\ local' = [local EXCEPT ![c] = NoLocals]
    /\ Go(c, "idle")
    /\ UNCHANGED <<head, tail, next, data, live, put, got>>

PopStep(c) == LoadHeadsNext(c) \/ Take(c) \/ ReadData(c) \/ Delete(c)

\* The i-th node after the head.
NodeAfterHead[i \in 0 .. Cardinality(Addresses)] ==
    IF i = 0 THEN head
    ELSE IF NodeAfterHead[i - 1] = NoNode THEN NoNode ELSE next[NodeAfterHead[i - 1]]

\* The destructor, when no thread uses the queue any more: it pops what is left,
\* which deletes all nodes but the last, and deletes that one.
destroy ==
    /\ \A t \in Threads : at[t] = "idle"
    /\ at' = [t \in Threads |-> "gone"]
    /\ live' = live \ {NodeAfterHead[i] : i \in 0 .. Cardinality(Addresses)}
    /\ UNCHANGED <<head, tail, size, next, data, local, put, got>>

-----------------------------------------------------------------------------
(* Properties *)

Pushing == {p \in Producers : at[p] \notin {"idle", "gone"}}
Popping == {c \in Consumers : at[c] \notin {"idle", "gone"}}

\* The node a thread's next access goes to.
Touched(t) ==
    CASE at[t] \in {"load next", "link", "load head's next"} -> {local[t].old}
      [] at[t] = "read data" -> {local[t].next}
      [] OTHER -> {}

\* No thread reads or writes a node that was deleted (lock_free_queue.hpp 55-103).
TouchesOnlyLiveNodes == \A t \in Threads : Touched(t) \subseteq live

\* When no operation is under way the size is exact, though it wraps while a pop
\* overtakes the push it takes from; the tail is the last node; and there is one
\* node more than there are items.  The destructor leaves none
\* (lock_free_queue.hpp 35-40 and 55-103).
Settles ==
    /\ (\A t \in Threads : at[t] = "idle") =>
          /\ size = (Len(put) - Len(got)) % SizeModulus
          /\ next[tail] = NoNode /\ tail \in live
          /\ Cardinality(live) = Len(put) - Len(got) + 1
    /\ (\A t \in Threads : at[t] = "gone") => live = {}

=============================================================================
