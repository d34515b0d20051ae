------------------------------- MODULE MCHeap -------------------------------
(* An instance of Heap: pages of 64 bytes, with three slots of 16 bytes or one *)
(* of 32, small objects, large ones of one and of two pages, and a small one   *)
(* with an alignment beyond the page.                                          *)
EXTENDS Heap

TwoClasses == <<16, 32>>

Shapes == {[size |-> 12, align |-> 8], [size |-> 32, align |-> 16],
           [size |-> 40, align |-> 8], [size |-> 56, align |-> 16],
           [size |-> 8, align |-> 64]}
=============================================================================
