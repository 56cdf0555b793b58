------------------------------- MODULE MCHeap --------------------------------
(***************************************************************************)
(* Values for the constants of the heap.                                   *)
(***************************************************************************)
EXTENDS Heap, TLC

\* One address is as good as another.
AnyAddress == Permutations(Addresses)
=============================================================================
