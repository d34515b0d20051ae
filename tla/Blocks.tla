------------------------------- MODULE Blocks -------------------------------
(***************************************************************************)
(* What the page allocator promises its callers (mem::alloc_pages and      *)
(* mem::free_pages): a block of 2^order pages, aligned to its size, none   *)
(* of whose pages anybody else holds, and the block back when its first    *)
(* page is given back.  Which block it is, and when an allocation fails,   *)
(* is left open.  Buddy implements this specification; Heap is written     *)
(* over it.                                                                *)
(***************************************************************************)
EXTENDS Integers

VARIABLES count,   \* the number of pages
          held     \* the blocks <<first page, order>> that callers hold

Extent(p, o) == p..(p + 2^o - 1)

\* alloc_pages may return the block <<p, o>> while H is held
Available(H, p, o) ==
    /\ p % 2^o = 0 /\ p + 2^o <= count
    /\ \A b \in H : Extent(p, o) \cap Extent(b[1], b[2]) = {}

AllocPages(o) ==
    /\ \E p \in 0..(count - 1) : /\ held' = held \cup {<<p, o>>}
                                 /\ Available(held, p, o)
    /\ UNCHANGED count

FreePages(b) ==
    /\ held' = held \ {b}
    /\ UNCHANGED count

Init == count \in Nat /\ held = {}

Next == \/ \E o \in 0..count : AllocPages(o)
        \/ \E b \in held : FreePages(b)

Spec == Init /\ [][Next]_<<count, held>>
=============================================================================
