-------------------------------- MODULE Heap --------------------------------
(***************************************************************************)
(* The kernel heap (heap.rs): size classes whose slots are chained through *)
(* their first word, the lazy return of empty slab pages before a class    *)
(* grows, and whole blocks of pages for large or strictly aligned objects. *)
(* Every operation runs under the HEAP lock and is one action; the pages   *)
(* come from Blocks.                                                       *)
(*                                                                         *)
(* Memory is modelled word by word where the heap keeps its own data: the  *)
(* header of a slab page, the link in a free slot, the base address before *)
(* a large object.  Whoever gets memory is taken to overwrite all of it,   *)
(* and so is the page allocator with a page it gets back.                  *)
(***************************************************************************)
EXTENDS Integers, Sequences, FiniteSets, SequencesExt

CONSTANTS PAGE_SIZE,
          SLAB_SIZES,   \* the sizes of the classes, ascending
          MAX_ORDER,
          Base,         \* mem::base()
          Count,        \* mem::page_count()
          Layouts,      \* the layouts [size, align] that are asked for
          MaxLive       \* bound: objects allocated at the same time

ASSUME HeapAssumption ==
    /\ PAGE_SIZE \in Nat \ {0} /\ Base % PAGE_SIZE = 0 /\ Base > 0
    /\ \A i \in DOMAIN SLAB_SIZES : 2 * SLAB_SIZES[i] <= PAGE_SIZE /\ SLAB_SIZES[i] >= 16

VARIABLES count, held,  \* the page allocator
          head,         \* classes[i].head
          class,        \* SLAB_PAGE_CLASS
          word,         \* the words of memory the heap wrote, by address
          live          \* the objects [ptr, size, align] in use

vars == <<count, held, head, class, word, live>>

Pool == INSTANCE Blocks

Class    == DOMAIN SLAB_SIZES
NOT_SLAB == 0
Null     == 0
END      == -1       \* usize::MAX
WORD     == 8
Junk     == -2       \* what somebody else wrote

PageOf(a)  == (a \div PAGE_SIZE) * PAGE_SIZE
Index(pg)  == (pg - Base) \div PAGE_SIZE
Addr(p)    == Base + p * PAGE_SIZE
CeilDiv(a, b) == (a + b - 1) \div b

Words(a, n) == {a + WORD * i : i \in 0..(CeilDiv(n, WORD) - 1)}

\* The memory W after its owner has overwritten the n bytes from a.
Overwritten(W, a, n) == [x \in DOMAIN W \ Words(a, n) |-> W[x]]
Read(W, a) == IF a \in DOMAIN W THEN W[a] ELSE Junk
Put(W, a, v) == [x \in DOMAIN W \cup {a} |-> IF x = a THEN v ELSE W[x]]

FreeList(W, pg) == Read(W, pg + WORD)

\* The chain of addresses from a: the link is the first word of a header, and of a
\* free slot.  Cut at a length no sound chain has, or where the link is not an address.
RECURSIVE Follow(_, _, _)
Follow(W, a, n) ==
    IF a <= 0 \/ n = 0 THEN <<>> ELSE <<a>> \o Follow(W, Read(W, a), n - 1)

Chain(W, a)  == Follow(W, a, Count + 1)
Slots(W, pg) == Follow(W, FreeList(W, pg), PAGE_SIZE)

-----------------------------------------------------------------------------
(* Slab pages *)

\* class_index: the first class that holds size bytes
Fits(size) == {i \in Class : size <= SLAB_SIZES[i]}
ClassIndex(size) == CHOOSE i \in Fits(size) : \A j \in Fits(size) : i <= j
IsSmall(l) == Fits(l.size) # {} /\ l.align <= SLAB_SIZES[ClassIndex(l.size)]

Capacity(i) == (PAGE_SIZE - SLAB_SIZES[i]) \div SLAB_SIZES[i]

\* Mutant: the header's slot is counted as well.
PageEmptyWhole(W, pg, i) == Len(Slots(W, pg)) = PAGE_SIZE \div SLAB_SIZES[i]

\* slab_page_empty: the free list is as long as the page has slots
PageEmpty(W, pg, i) == Len(Slots(W, pg)) = Capacity(i)

\* sweep_empty_pages: what stays in the chain of class i, and what goes
Stay(i) == LET pages   == Chain(word, head[i])
               Keep(pg) == pg = head[i] \/ ~PageEmpty(word, pg, i)
           IN  SelectSeq(pages, Keep)
Swept == UNION {ToSet(Chain(word, head[i])) \ ToSet(Stay(i)) : i \in Class}

\* the words of memory after the sweep: the chains are relinked
SweptWords ==
    LET kept == UNION {ToSet(Stay(i)) : i \in Class}
        Succ(pg) == LET i == CHOOSE c \in Class : pg \in ToSet(Stay(c))
                        k == CHOOSE n \in DOMAIN Stay(i) : Stay(i)[n] = pg
                    IN  IF k = Len(Stay(i)) THEN Null ELSE Stay(i)[k + 1]
    IN  [x \in {y \in DOMAIN word : PageOf(y) \notin Swept} |->
            IF x \in kept THEN Succ(x) ELSE word[x]]

\* new_slab: the header of the page and its list of free slots
Formatted(W, pg, i) ==
    LET size  == SLAB_SIZES[i]
        slots == {pg + size * k : k \in 1..Capacity(i)}
    IN  [x \in (DOMAIN W \ Words(pg, PAGE_SIZE)) \cup {pg, pg + WORD} \cup slots |->
            CASE x \in slots   -> IF x + size \in slots THEN x + size ELSE END
              [] x = pg        -> head[i]
              [] x = pg + WORD -> pg + size
              [] OTHER         -> W[x]]

\* Mutant: the slot stays the first of the list.
PopKept(W, pg, l) ==
    LET slot == FreeList(W, pg)
    IN  /\ word' = Overwritten(W, slot, l.size)
        /\ live' = live \cup {[ptr |-> slot, size |-> l.size, align |-> l.align]}

\* the first free slot of pg goes to the caller
Pop(W, pg, l) ==
    LET slot == FreeList(W, pg)
    IN  /\ word' = Overwritten(Put(W, pg + WORD, Read(W, slot)), slot, l.size)
        /\ live' = live \cup {[ptr |-> slot, size |-> l.size, align |-> l.align]}

\* slab_alloc, some page of the class has a free slot
SlabReuse(l) ==
    LET i     == ClassIndex(l.size)
        Some(pg) == FreeList(word, pg) # END
        pages == SelectSeq(Chain(word, head[i]), Some)
    IN  /\ IsSmall(l) /\ pages # <<>> /\ Cardinality(live) < MaxLive
        /\ Pop(word, pages[1], l)
        /\ UNCHANGED <<count, held, head, class>>

\* Mutant: a swept page keeps its entry in the table of classes.
SlabGrowStale(l) ==
    LET i    == ClassIndex(l.size)
        kept == held \ {<<Index(pg), 0>> : pg \in Swept}
    IN  /\ IsSmall(l) /\ Cardinality(live) < MaxLive
        /\ \A k \in DOMAIN Chain(word, head[i]) : FreeList(word, Chain(word, head[i])[k]) = END
        /\ \E p \in 0..(Count - 1) :
              /\ Pool!Available(kept, p, 0)
              /\ held' = kept \cup {<<p, 0>>}
              /\ class' = [q \in DOMAIN class |->
                              IF q = p THEN i ELSE class[q]]
              /\ head' = [head EXCEPT ![i] = Addr(p)]
              /\ Pop(Formatted(SweptWords, Addr(p), i), Addr(p), l)
        /\ UNCHANGED count

\* Mutant: a swept page is not given back.
SlabGrowLeak(l) ==
    LET i    == ClassIndex(l.size)
        kept == held
    IN  /\ IsSmall(l) /\ Cardinality(live) < MaxLive
        /\ \A k \in DOMAIN Chain(word, head[i]) : FreeList(word, Chain(word, head[i])[k]) = END
        /\ \E p \in 0..(Count - 1) :
              /\ Pool!Available(kept, p, 0)
              /\ held' = kept \cup {<<p, 0>>}
              /\ class' = [q \in DOMAIN class |->
                              IF q = p THEN i ELSE IF Addr(q) \in Swept THEN NOT_SLAB
                              ELSE class[q]]
              /\ head' = [head EXCEPT ![i] = Addr(p)]
              /\ Pop(Formatted(SweptWords, Addr(p), i), Addr(p), l)
        /\ UNCHANGED count

\* slab_alloc, all pages of the class are full: sweep all classes, then grow
SlabGrow(l) ==
    LET i    == ClassIndex(l.size)
        kept == held \ {<<Index(pg), 0>> : pg \in Swept}
    IN  /\ IsSmall(l) /\ Cardinality(live) < MaxLive
        /\ \A k \in DOMAIN Chain(word, head[i]) : FreeList(word, Chain(word, head[i])[k]) = END
        /\ \E p \in 0..(Count - 1) :
              /\ Pool!Available(kept, p, 0)
              /\ held' = kept \cup {<<p, 0>>}
              /\ class' = [q \in DOMAIN class |->
                              IF q = p THEN i ELSE IF Addr(q) \in Swept THEN NOT_SLAB
                              ELSE class[q]]
              /\ head' = [head EXCEPT ![i] = Addr(p)]
              /\ Pop(Formatted(SweptWords, Addr(p), i), Addr(p), l)
        /\ UNCHANGED count

-----------------------------------------------------------------------------
(* Whole blocks *)

\* the order of the block that holds size bytes, the base address before
\* them and the slack for the alignment
OrderFor(l) ==
    LET pages == CeilDiv(l.size + 8 + l.align - 1, PAGE_SIZE)
    IN  CHOOSE o \in 0..pages : 2^o >= pages /\ (o = 0 \/ 2^(o - 1) < pages)

PageAlloc(l) ==
    /\ ~IsSmall(l) /\ Cardinality(live) < MaxLive
    /\ OrderFor(l) <= MAX_ORDER
    /\ \E p \in 0..(Count - 1) :
          LET block   == Addr(p)
              aligned == CeilDiv(block + 8, l.align) * l.align
          IN  /\ Pool!Available(held, p, OrderFor(l))
              /\ held' = held \cup {<<p, OrderFor(l)>>}
              /\ word' = Overwritten(Put(Overwritten(word, block, 2^OrderFor(l) * PAGE_SIZE),
                                         aligned - 8, block), aligned, l.size)
              /\ live' = live \cup {[ptr |-> aligned, size |-> l.size, align |-> l.align]}
    /\ UNCHANGED <<count, head, class>>

-----------------------------------------------------------------------------
(* dealloc *)

ClassOf(ptr) == class[Index(PageOf(ptr))]

\* the tests that dealloc panics on
BadPointer(ptr) == PageOf(ptr) < Base \/ PageOf(ptr) - Base >= Count * PAGE_SIZE
BadSlot(ptr) == LET size == SLAB_SIZES[ClassOf(ptr)]
                    off  == ptr - PageOf(ptr)
                IN  off < size \/ off % size # 0 \/ off + size > PAGE_SIZE

\* slab: the slot becomes the first of its page's list
DeallocSlot(m) ==
    /\ ClassOf(m.ptr) # NOT_SLAB
    /\ LET pg == PageOf(m.ptr)
       IN  word' = Put(Put(word, m.ptr, FreeList(word, pg)), pg + WORD, m.ptr)
    /\ live' = live \ {m}
    /\ UNCHANGED <<count, held, head, class>>

\* free_pages of the address found before the object
BlockOf(m) == {b \in held : Addr(b[1]) = Read(word, m.ptr - 8)}

DeallocBlock(m) ==
    /\ ClassOf(m.ptr) = NOT_SLAB
    /\ \E b \in BlockOf(m) :
          /\ held' = held \ {b}
          /\ word' = Overwritten(word, Addr(b[1]), 2^b[2] * PAGE_SIZE)
    /\ live' = live \ {m}
    /\ UNCHANGED <<count, head, class>>

Init ==
    /\ count = Count /\ held = {}
    /\ head = [i \in Class |-> Null]
    /\ class = [p \in 0..(Count - 1) |-> NOT_SLAB]
    /\ word = <<>>
    /\ live = {}

Next == \/ \E l \in Layouts : SlabReuse(l) \/ SlabGrow(l) \/ PageAlloc(l)
        \/ \E m \in live : DeallocSlot(m) \/ DeallocBlock(m)

Spec == Init /\ [][Next]_vars

-----------------------------------------------------------------------------
(* Properties *)

SlabPages(i) == ToSet(Chain(word, head[i]))
Area(m) == m.ptr..(m.ptr + m.size - 1)
BlockArea(b) == Addr(b[1])..(Addr(b[1]) + 2^b[2] * PAGE_SIZE - 1)
IsLarge(m) == ~IsSmall([size |-> m.size, align |-> m.align])

\* What the heap keeps for itself: headers and free slots, and the word before
\* a large object.
Own == UNION {UNION {pg..(pg + 15) \cup
                     UNION {s..(s + SLAB_SIZES[i] - 1) : s \in ToSet(Slots(word, pg))} :
                         pg \in SlabPages(i)} : i \in Class}
          \cup UNION {(m.ptr - 8)..(m.ptr - 1) : m \in {n \in live : IsLarge(n)}}

\* The tables have their types.
TypeOK ==
    /\ head \in [Class -> {Null} \cup {Addr(p) : p \in 0..(Count - 1)}]
    /\ class \in [0..(Count - 1) -> Class \cup {NOT_SLAB}]
    /\ \A x \in DOMAIN word :
          x % WORD = 0 /\ Pool!Extent(Index(PageOf(x)), 0) \subseteq 0..(Count - 1)

\* alloc: an object is aligned as asked, lies in one block that the heap holds,
\* and shares no byte with another object or with the heap's own data, so that
\* no slot is handed out twice and nobody overwrites a list or a header.
ObjectsApart ==
    /\ TypeOK
    /\ \A m \in live :
        /\ m.ptr % m.align = 0
        /\ \E b \in held : Area(m) \subseteq BlockArea(b)
        /\ Area(m) \cap Own = {}
        /\ \A n \in live \ {m} : Area(m) \cap Area(n) = {}

\* SLAB_PAGE_CLASS tells slab pages from others: a page is entered under a class exactly while it is in the chain of that class,
\* and there once, also after the page was returned and used for an object.
ClassTableExact ==
    /\ \A i \in Class : IsInjective(Chain(word, head[i]))
    /\ \A p \in 0..(Count - 1), i \in Class : class[p] = i <=> Addr(p) \in SlabPages(i)

\* dealloc of what alloc returned neither panics nor frees a block that is not
\* the object's own, and it finds the class of each page in SLAB_PAGE_CLASS.
FreesAccepted ==
    /\ ClassTableExact
    /\ \A m \in live :
        /\ ~BadPointer(m.ptr)
        /\ IF IsLarge(m)
           THEN ClassOf(m.ptr) = NOT_SLAB /\
                \E b \in BlockOf(m) : Area(m) \subseteq BlockArea(b)
           ELSE ClassOf(m.ptr) = ClassIndex(m.size) /\ ~BadSlot(m.ptr)

\* Every slot of a slab page is free or in use.
SlotsConserved ==
    \A i \in Class : \A pg \in SlabPages(i) :
        Len(Slots(word, pg)) + Cardinality({m \in live : PageOf(m.ptr) = pg /\ ~IsLarge(m)})
            = Capacity(i)

\* No page and no slot is lost: each block that the heap holds is a slab page or
\* the block of one large object, and each slot of a slab page is free or in use.
NothingLost ==
    /\ SlotsConserved
    /\ \A b \in held :
        \/ b[2] = 0 /\ class[b[1]] # NOT_SLAB
        \/ \E m \in live : IsLarge(m) /\ b \in BlockOf(m)

\* When a class has grown, no page but the head of a chain is empty ("全空的非 head
\* slab 页在下次任一档 grow 时被懒回收", heap.rs 16-19).
SweptAtGrow ==
    [][\A i \in Class : head'[i] # head[i] =>
          \A c \in Class : \A pg \in ToSet(Chain(word', head'[c])) \ {head'[c]} :
              \E m \in live' : PageOf(m.ptr) = pg]_vars
=============================================================================
