---------------------------- MODULE BoundedFifo ----------------------------
(***************************************************************************)
(* What a bounded buffer promises its clients: items are taken in the      *)
(* order they were put, each once, and no more than Capacity wait.         *)
(***************************************************************************)
EXTENDS Naturals, Sequences

CONSTANTS Items, Capacity

VARIABLES
    put,   \* the items accepted so far
    got    \* the items handed out so far

Init == put = <<>> /\ got = <<>>

Put(x) ==
    /\ Len(put) - Len(got) < Capacity
    /\ put' = Append(put, x)
    /\ UNCHANGED got

Get ==
    /\ Len(got) < Len(put)
    /\ got' = Append(got, put[Len(got) + 1])
    /\ UNCHANGED put

Next == Get \/ \E x \in Items : Put(x)

Spec == Init /\ [][Next]_<<put, got>>

=============================================================================
