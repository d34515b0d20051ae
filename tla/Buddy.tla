------------------------------- MODULE Buddy --------------------------------
(***************************************************************************)
(* The buddy allocator of physical pages (kernel/src/mem.rs): collecting   *)
(* the reserved regions of the device tree (kernel/src/fdt.rs), building   *)
(* the free lists around them, splitting on allocation and merging on      *)
(* release.  Every operation runs under the ALLOCATOR lock and is one      *)
(* action.                                                                 *)
(*                                                                         *)
(* A block is the index of its first page and its order.  The intrusive    *)
(* list of an order is the sequence of its page indices; owned is a ghost: *)
(* the blocks the callers hold.  Callers free what they were given, once;  *)
(* what free would do with other addresses is Accepts.                     *)
(***************************************************************************)
EXTENDS Integers, Sequences, SequencesExt

CONSTANTS
    MAX_ORDER,
    PAGE_SIZE,
    Base,          \* first byte of the allocator's region (page aligned)
    RamEnds,       \* the possible values of ram_end
    Reports,       \* the possible lists of regions <<addr, size>> that the device
                   \* tree reserves, in the order parse meets them
    MAX_RESERVED,  \* the length of BoardParams::reserved
    WORD           \* addresses are below WORD

ASSUME BuddyAssumption ==
    /\ MAX_ORDER \in Nat /\ PAGE_SIZE \in Nat \ {0}
    /\ Base \in Nat /\ Base % PAGE_SIZE = 0
    /\ MAX_RESERVED \in Nat
    /\ \A e \in RamEnds : e \in Nat /\ Base + PAGE_SIZE <= e /\ e < WORD

VARIABLES
    reported,          \* ghost: what the device tree reserves
    dropped,           \* ghost: add_reserved found its table full
    ram_end, regions,  \* what mem::init was given
    reserved,          \* what BuddyAllocator::init was given, page intervals
    meta,              \* page index -> [order, used]
    free_lists,        \* order -> page indices, head first
    owned              \* the blocks <<index, order>> that callers hold

board == <<reported, dropped, ram_end, regions, reserved>>
vars == <<reported, dropped, ram_end, regions, reserved, meta, free_lists, owned>>

Order == 0..MAX_ORDER
NEVER == 255       \* u8::MAX: the order of a reserved block

CeilDiv(a, b) == (a + b - 1) \div b
Minimum(a, b) == IF a < b THEN a ELSE b
Maximum(a, b) == IF a < b THEN b ELSE a
MinusOr0(a, b) == IF a > b THEN a - b ELSE 0

-----------------------------------------------------------------------------
(* BoardParams::add_reserved, for every region of the device tree *)

SaturatingEnd(r) == Minimum(r[1] + r[2], WORD - 1)

\* Mutant: the entry swapped in is not looked at.
RECURSIVE ScanSkips(_, _, _, _)
ScanSkips(table, i, addr, end) ==
    LET last == Len(table) IN
    IF i > last THEN [table |-> table, addr |-> addr, end |-> end]
    ELSE IF addr < SaturatingEnd(table[i]) /\ end > table[i][1]
    THEN ScanSkips(SubSeq([table EXCEPT ![i] = table[last]], 1, last - 1), i + 1,
                   Minimum(addr, table[i][1]), Maximum(end, SaturatingEnd(table[i])))
    ELSE ScanSkips(table, i + 1, addr, end)

\* The loop from entry i: an entry that overlaps [addr, end) is merged into it
\* and the last entry takes its place.
RECURSIVE Scan(_, _, _, _)
Scan(table, i, addr, end) ==
    LET last == Len(table) IN
    IF i > last THEN [table |-> table, addr |-> addr, end |-> end]
    ELSE IF addr < SaturatingEnd(table[i]) /\ end > table[i][1]
    THEN Scan(SubSeq([table EXCEPT ![i] = table[last]], 1, last - 1), i,
              Minimum(addr, table[i][1]), Maximum(end, SaturatingEnd(table[i])))
    ELSE Scan(table, i + 1, addr, end)

\* A region that merged with nothing keeps its size; it is dropped if the
\* table is full.
AddReserved(params, r) ==
    LET s    == Scan(params.table, 1, r[1], SaturatingEnd(r))
        size == IF s.table = params.table THEN r[2] ELSE s.end - s.addr
    IN  IF r[1] = 0 \/ r[2] = 0 THEN params
        ELSE IF Len(s.table) < MAX_RESERVED
        THEN [params EXCEPT !.table = Append(s.table, <<s.addr, size>>)]
        ELSE [params EXCEPT !.dropped = TRUE]

\* parse, as far as reserved regions go.
Parsed(list) == FoldLeft(AddReserved, [table |-> <<>>, dropped |-> FALSE], list)

-----------------------------------------------------------------------------
(* mem::init: from the board's bytes to page indices *)

real_count == (ram_end - Base) \div PAGE_SIZE
page_count == CeilDiv(real_count, 2^MAX_ORDER) * 2^MAX_ORDER

\* The end of a region, cut at ram_end before it is rounded up.
RegionEnd(r) ==
    LET raw == IF r[1] + r[2] >= WORD THEN ram_end ELSE r[1] + r[2]
    IN  CeilDiv(Minimum(raw, ram_end), PAGE_SIZE) * PAGE_SIZE

RegionStart(r) == (r[1] \div PAGE_SIZE) * PAGE_SIZE

\* The intervals [rs, re) handed to the allocator, in page indices.
reserved_pairs ==
    LET rs(r)   == MinusOr0(RegionStart(r), Base) \div PAGE_SIZE
        re(r)   == CeilDiv(MinusOr0(RegionEnd(r), Base), PAGE_SIZE)
        Kept(r) == /\ r[2] # 0
                   /\ RegionEnd(r) > Base /\ RegionStart(r) < ram_end
                   /\ rs(r) < re(r)
        kept    == SelectSeq(regions, Kept)
    IN  [i \in DOMAIN kept |-> <<Minimum(rs(kept[i]), real_count),
                                 Minimum(re(kept[i]), real_count)>>]

-----------------------------------------------------------------------------
(* BuddyAllocator::init and carve *)

Pages(p, o) == p..(p + 2^o - 1)

\* The loop of carve over the intervals stops at the first that contains the
\* block; an overlap counts only if it comes before.
Inside(p, o) ==
    {i \in DOMAIN reserved : p >= reserved[i][1] /\ p + 2^o <= reserved[i][2]}

Overlaps(p, o) ==
    \E i \in DOMAIN reserved :
        /\ \A j \in Inside(p, o) : i < j
        /\ p + 2^o > reserved[i][1] /\ p < reserved[i][2]

\* What carve does with a block: the sequence of the blocks it pushes and of
\* those it marks as used for ever.
RECURSIVE Carve(_, _)
Carve(p, o) ==
    LET halves == Carve(p, o - 1) \o Carve(p + 2^(o - 1), o - 1)
    IN  CASE p >= real_count           -> <<>>
          [] p < real_count /\ p + 2^o > real_count -> halves
          [] p + 2^o <= real_count /\ ~Overlaps(p, o) ->
                 <<[idx |-> p, order |-> o, free |-> TRUE]>>
          [] p + 2^o <= real_count /\ Overlaps(p, o) /\ Inside(p, o) # {} ->
                 <<[idx |-> p, order |-> o, free |-> FALSE]>>
          [] OTHER -> halves

RECURSIVE CarveFrom(_)
CarveFrom(p) ==
    IF p >= real_count THEN <<>>
    ELSE Carve(p, MAX_ORDER) \o CarveFrom(p + 2^MAX_ORDER)

\* Without reserved regions: the largest blocks that fit, one after another.
RECURSIVE WholeFrom(_)
WholeFrom(p) ==
    IF p >= real_count THEN <<>>
    ELSE LET fits == {o \in Order : p + 2^o <= real_count}
             o    == CHOOSE o \in fits : \A q \in fits : q <= o
         IN  <<[idx |-> p, order |-> o, free |-> TRUE]>> \o WholeFrom(p + 2^o)

Carved == IF reserved = <<>> THEN WholeFrom(0) ELSE CarveFrom(0)

Init ==
    /\ ram_end \in RamEnds /\ reported \in Reports
    /\ regions = Parsed(reported).table /\ dropped = Parsed(reported).dropped
    /\ reserved = reserved_pairs
    /\ LET blocks  == Carved
           made(p) == {i \in DOMAIN blocks : blocks[i].idx = p}
       IN  meta = [p \in 0..(page_count - 1) |->
                     IF p >= real_count THEN [order |-> MAX_ORDER, used |-> TRUE]
                     ELSE IF made(p) = {} THEN [order |-> 0, used |-> FALSE]
                     ELSE LET b == blocks[CHOOSE i \in made(p) : TRUE]
                          IN  [order |-> IF b.free THEN b.order ELSE NEVER,
                               used  |-> ~b.free]]
    /\ free_lists =
         [o \in Order |->
            LET Of(b) == b.free /\ b.order = o
                bs    == SelectSeq(Carved, Of)
            IN  Reverse([i \in DOMAIN bs |-> bs[i].idx])]
    /\ owned = {}

-----------------------------------------------------------------------------
(* alloc and free *)

\* The blocks that alloc pushes while it splits <<p, from>> down to order o.
Split(p, from, o) == {<<p + 2^c, c>> : c \in o..(from - 1)}

\* Mutant: the block is not marked as used.
AllocatedUnmarked(M, p, o) == [M EXCEPT ![p].order = o]

Allocated(M, p, o) == [M EXCEPT ![p] = [order |-> o, used |-> TRUE]]

\* alloc(o): the head of the first list from o upwards that is not empty.
Alloc(o) ==
    LET able == {c \in o..MAX_ORDER : free_lists[c] # <<>>}
        from == CHOOSE c \in able : \A d \in able : c <= d
        p    == Head(free_lists[from])
        new  == Split(p, from, o)
    IN  /\ able # {}
        /\ free_lists' = [c \in Order |->
              LET rest == IF c = from THEN Tail(free_lists[c]) ELSE free_lists[c]
              IN  IF \E b \in new : b[2] = c
                  THEN <<(CHOOSE b \in new : b[2] = c)[1]>> \o rest
                  ELSE rest]
        /\ meta' = Allocated([q \in DOMAIN meta |->
                       IF \E b \in new : b[1] = q
                       THEN [order |-> (CHOOSE b \in new : b[1] = q)[2],
                             used |-> FALSE]
                       ELSE meta[q]], p, o)
        /\ owned' = owned \cup {<<p, o>>}
        /\ UNCHANGED board

\* What free tests before it does anything.
Accepts(p) ==
    /\ p < real_count
    /\ meta[p].order <= MAX_ORDER /\ meta[p].used
    /\ p % 2^meta[p].order = 0

Down(p, o) == (p \div 2^o) * 2^o
BuddyOf(p, o) == IF (p \div 2^o) % 2 = 0 THEN p + 2^o ELSE p - 2^o

\* The loop of free goes past order o if the buddy there is free and whole.
Joins(p, o) ==
    LET b == BuddyOf(Down(p, o), o) IN
    /\ b + 2^o <= page_count
    /\ ~meta[b].used /\ meta[b].order = o

\* Mutant: merging stops one order early.
MergedOrderLow(p, o) ==
    LET tops == {t \in o..MAX_ORDER : /\ t = o \/ t < MAX_ORDER
                                      /\ \A c \in o..(t - 1) : Joins(p, c)}
    IN  CHOOSE t \in tops : \A u \in tops : u <= t

\* The order at which the merged block is pushed.
MergedOrder(p, o) ==
    LET tops == {t \in o..MAX_ORDER : \A c \in o..(t - 1) : Joins(p, c)}
    IN  CHOOSE t \in tops : \A u \in tops : u <= t

\* Mutant: the buddy stays in its list.
UnlinkNothing(q, p) == q

Unlink(q, p) == LET Other(x) == x # p IN SelectSeq(q, Other)

Free(b) ==
    LET o == meta[b[1]].order
        t == MergedOrder(b[1], o)
        p == Down(b[1], t)
    IN  /\ b \in owned /\ Accepts(b[1])
        /\ free_lists' = [c \in Order |->
              LET rest == IF c \in o..(t - 1)
                          THEN Unlink(free_lists[c], BuddyOf(Down(b[1], c), c))
                          ELSE free_lists[c]
              IN  IF c = t THEN <<p>> \o rest ELSE rest]
        /\ meta' = [meta EXCEPT ![p] = [order |-> t, used |-> FALSE]]
        /\ owned' = owned \ {b}
        /\ UNCHANGED board

Next == \/ \E o \in Order : Alloc(o)
        \/ \E b \in owned : Free(b)

Spec == Init /\ [][Next]_vars

-----------------------------------------------------------------------------
(* Properties *)

FreeBlocks == UNION {{<<free_lists[o][i], o>> : i \in DOMAIN free_lists[o]} :
                        o \in Order}
FreePages == UNION {Pages(b[1], b[2]) : b \in FreeBlocks}

\* A page the board asked to keep: some byte of it is in a reported region.
Kept(p) ==
    \E i \in DOMAIN reported :
        /\ reported[i][1] < Base + (p + 1) * PAGE_SIZE
        /\ reported[i][1] + reported[i][2] > Base + p * PAGE_SIZE
        /\ reported[i][2] # 0

\* Orders and indices stay in the tables (push: order <= MAX_ORDER, the block
\* ends within page_count; pop and unlink: list nodes below page_count).
TypeOK ==
    /\ Len(regions) <= MAX_RESERVED
    /\ meta \in [0..(page_count - 1) -> [order : Order \cup {NEVER},
                                         used : BOOLEAN]]
    /\ \A o \in Order : \A i \in DOMAIN free_lists[o] :
          free_lists[o][i] + 2^o <= page_count

\* No page is in two blocks, free or held, no block is in a list twice, each
\* is aligned to its size and lies in RAM, and no page that may be used gets
\* lost between the lists and the callers.
BlocksPartition ==
    /\ \A b, c \in FreeBlocks \cup owned :
          b # c => Pages(b[1], b[2]) \cap Pages(c[1], c[2]) = {}
    /\ FreeBlocks \cap owned = {}
    /\ \A o \in Order : IsInjective(free_lists[o])
    /\ \A b \in FreeBlocks \cup owned :
          b[1] % 2^b[2] = 0 /\ b[1] + 2^b[2] <= real_count
    /\ \A p \in 0..(real_count - 1) :
          ~Kept(p) => \E b \in FreeBlocks \cup owned : p \in Pages(b[1], b[2])

\* The metadata agrees with the lists and the callers: free takes back every
\* block that alloc gave out, with the order it had, and merging never takes
\* a block for free that is not.
MetaAgrees ==
    /\ TypeOK
    /\ \A b \in owned : Accepts(b[1]) /\ meta[b[1]].order = b[2]
    /\ \A b \in FreeBlocks : meta[b[1]] = [order |-> b[2], used |-> FALSE]

\* Merging leaves no fragmentation behind: in a memory without reserved regions
\* alloc fails only when there is no aligned run of free pages of the size
\* asked for (self_test, part 2).
NoSpuriousFailure ==
    \A o \in Order, p \in 0..(real_count - 1) :
        regions = <<>> /\ p % 2^o = 0 /\ Pages(p, o) \subseteq FreePages
            => \E c \in o..MAX_ORDER : free_lists[c] # <<>>

\* free: "double free, or a pointer that was not allocated" is refused.
FreeIsChecked ==
    \A p \in 0..(real_count - 1) : Accepts(p) => \E o \in Order : <<p, o>> \in owned

\* carve: a block with reserved pages in it never gets into a free list.
ReservedIsKept == \A p \in FreePages : ~Kept(p)

Bytes(list) ==
    UNION {list[i][1]..(SaturatingEnd(list[i]) - 1) : i \in DOMAIN list}

\* The entries of the table are apart and hold just the reported bytes, unless it
\* ran full.
TableMerged ==
    /\ \A i, j \in DOMAIN regions :
          i # j => Bytes(<<regions[i]>>) \cap Bytes(<<regions[j]>>) = {}
    /\ ~dropped => Bytes(regions) = Bytes(reported) \ {0}

\* add_reserved, parse and mem::init: whatever the order and overlaps of the
\* regions, the table merges them exactly, and the page intervals cover every page
\* that a region of the device tree touches, unless add_reserved dropped one.
RegionsCovered ==
    /\ TableMerged
    /\ \A p \in 0..(real_count - 1) :
        ~dropped /\ Kept(p) => \E i \in DOMAIN reserved :
                                  reserved[i][1] <= p /\ p < reserved[i][2]

Promise == INSTANCE Blocks WITH count <- real_count, held <- owned

\* The allocator keeps its promise to the heap, the page tables and the shared
\* pages, whatever it splits and merges: every block it hands out is aligned, in
\* RAM and free of pages that somebody holds.
ImplementsBlocks == Promise!Spec

=============================================================================
