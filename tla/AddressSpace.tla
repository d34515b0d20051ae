---------------------------- MODULE AddressSpace ----------------------------
(***************************************************************************)
(* Page tables and the ELF loader (mmu.rs, elf.rs, the guard pages of      *)
(* kernel stacks in sched.rs): three levels of tables, the kernel's region *)
(* in every root, user pages, the splitting of a superpage, the loader     *)
(* with its roll-back, and the walk that frees an address space.           *)
(*                                                                         *)
(* A virtual page is <<l2, l1, l0>>; the kernel's region is mapped to      *)
(* itself, so a physical page is the number of a virtual one.  Pages come  *)
(* from the page allocator (Blocks, order 0), which gives the lowest free  *)
(* one: pages differ only in the superpage they lie in, which matters to   *)
(* the guard pages of kernel stacks, and these are taken from StackBases.  *)
(* The other pages of a kernel stack play no part.                         *)
(***************************************************************************)
EXTENDS Integers, Sequences, FiniteSets, SequencesExt

CONSTANTS
    FANOUT,      \* entries of a table (512)
    Proc,        \* process slots
    Firmware,    \* superpages <<l2, l1>> before the kernel's image
    Image,       \* the pages of the image: <<page number, permission>>, in order
    Guards,      \* pages of the image that are unmapped again
    Ram,         \* superpages after the image
    Uart,        \* the device's page
    Pages,       \* the pages of the allocator
    Files,       \* the ELF files: whether the file's header is right, its length,
                 \* its PT_LOAD headers, and the arguments it is loaded with
    PAGE_SIZE,   \* bytes of a page
    USER_VA_LIMIT,
    MAX_ARGS,
    Stack,       \* the pages of the user stack, in order
    UserPages,   \* the pages that a program asks for
    StackBases,  \* the pages where the block of a kernel stack may begin
    MaxCreates   \* bound: processes created

VARIABLES
    tab,     \* the contents of the pages that are tables
    free,    \* the pages of the allocator that nobody has
    kroot,   \* KERNEL_ROOT
    root,    \* root[p]: the root table of process p, or None
    load,    \* load[p]: where elf::load is, and the pages it mapped and filled
    guard,   \* the guard pages of the live kernel stacks
    lost,    \* pages that nobody has and that are not free
    made,    \* processes created so far
    panic    \* "no", or what the kernel stopped for

vars == <<tab, free, kroot, root, load, guard, lost, made, panic>>

None == 0
Entry == 0..(FANOUT - 1)
Number(va) == (va[1] * FANOUT + va[2]) * FANOUT + va[3]
Va(n) == <<n \div (FANOUT * FANOUT), (n \div FANOUT) % FANOUT, n % FANOUT>>

Empty     == [kind |-> "none", pa |-> None, perm |-> "", u |-> FALSE]
Leaf(pa, perm, u) == [kind |-> "leaf", pa |-> pa, perm |-> perm, u |-> u]
Table(pa) == [kind |-> "table", pa |-> pa, perm |-> "", u |-> FALSE]

\* What the table operations work on: the tables, the free pages, and whether
\* they have succeeded so far.
Now == [tab |-> tab, free |-> free, ok |-> TRUE, at |-> None]

Lowest(S) == CHOOSE p \in S : \A q \in S : p <= q

Write(m, t, i, e) == [m EXCEPT !.tab[t][i] = e]

-----------------------------------------------------------------------------
(* mmu.rs *)

\* alloc_pages(0) and zero_page
NewTable(m) ==
    IF m.free = {} THEN [m EXCEPT !.ok = FALSE]
    ELSE LET p == Lowest(m.free)
         IN  [m EXCEPT !.free = @ \ {p}, !.at = p,
                       !.tab = [q \in DOMAIN @ \cup {p} |->
                                   IF q = p THEN [i \in Entry |-> Empty] ELSE @[q]]]

\* ensure_table, ensure_table_user: go from the table m.at down to its entry i
EnsureTable(m, i) ==
    LET e == m.tab[m.at][i]
        n == NewTable(m)
    IN  CASE ~m.ok            -> m
          [] m.ok /\ e.kind = "table" -> [m EXCEPT !.at = e.pa]
          [] m.ok /\ e.kind = "leaf"  -> [m EXCEPT !.ok = FALSE]
          [] m.ok /\ e.kind = "none"  -> IF n.ok THEN Write(n, m.at, i, Table(n.at)) ELSE n

\* the L0 table of va in the tree at r
Descend(m, r, va) == EnsureTable(EnsureTable([m EXCEPT !.at = r], va[1]), va[2])

\* map_4k overwrites what is there
Map4k(m, r, va, e) ==
    LET d == Descend(m, r, va) IN IF d.ok THEN Write(d, d.at, va[3], e) ELSE d

\* map_user_page, map_device_page: refuse to overwrite
MapUserPage(m, r, va, pa, perm) ==
    LET d == Descend(m, r, va)
    IN  IF Number(va) >= USER_VA_LIMIT \/ (perm # "device" /\ pa \notin Pages)
        THEN [m EXCEPT !.ok = FALSE]
        ELSE IF d.ok /\ d.tab[d.at][va[3]].kind = "none"
        THEN Write(d, d.at, va[3], Leaf(pa, perm, TRUE))
        ELSE [d EXCEPT !.ok = FALSE]

MapSuper(m, r, s, perm) ==
    LET d == EnsureTable([m EXCEPT !.at = r], s[1])
    IN  IF d.ok THEN Write(d, d.at, s[2], Leaf(Number(<<s[1], s[2], 0>>), perm, FALSE)) ELSE d

\* leaf_pte: what the walk of va ends at
LeafPte(T, r, va) ==
    LET e2 == T[r][va[1]]
        e1 == T[e2.pa][va[2]]
    IN  IF e2.kind # "table" THEN e2
        ELSE IF e1.kind # "table" THEN e1 ELSE T[e1.pa][va[3]]

IsMapped(T, r, va) == LeafPte(T, r, va).kind # "none"

\* unmap_4k of what is not mapped changes nothing
Unmap4k(m, r, va) == IF IsMapped(m.tab, r, va) THEN Map4k(m, r, va, Empty) ELSE m

\* map_kernel_region, after the root has been cleared
MapKernelRegion(m, r) ==
    LET Supers(x, s, perm) == FoldLeft(LAMBDA y, v : MapSuper(y, r, v, perm), x, s)
        Image4k(x) == FoldLeft(LAMBDA y, i : Map4k(y, r, Va(i[1]), Leaf(i[1], i[2], FALSE)),
                               x, Image)
        Guard4k(x) == FoldLeft(LAMBDA y, g : Unmap4k(y, r, Va(g)), x, Guards)
        Device(x)  == Map4k(x, r, Va(Uart), Leaf(Uart, "RW", FALSE))
    IN  Device(Guard4k(Supers(Image4k(Supers(m, Firmware, "R")), Ram, "RW")))

\* create_user_root, and init for the kernel's own root; .from is the root
CreateRoot(m) ==
    LET r == NewTable(m)
        k == MapKernelRegion(r, r.at)
    IN  [tab |-> k.tab, free |-> k.free, ok |-> k.ok, from |-> r.at]

\* Mutant: every entry of the new table names the first page.
SplitSame(m, r, va) ==
    LET d == EnsureTable([m EXCEPT !.at = r], va[1])
        e == d.tab[d.at][va[2]]
        n == NewTable(d)
    IN  IF ~d.ok \/ e.kind = "none" THEN [d EXCEPT !.ok = FALSE]
        ELSE IF e.kind = "table" THEN d
        ELSE IF ~n.ok THEN n
        ELSE Write([n EXCEPT !.tab[n.at] = [i \in Entry |-> e]], d.at, va[2], Table(n.at))

\* split_superpage of the one that va lies in
Split(m, r, va) ==
    LET d == EnsureTable([m EXCEPT !.at = r], va[1])
        e == d.tab[d.at][va[2]]
        n == NewTable(d)
        leaves == [i \in Entry |-> Leaf(e.pa + i, e.perm, e.u)]
    IN  IF ~d.ok \/ e.kind = "none" THEN [d EXCEPT !.ok = FALSE]
        ELSE IF e.kind = "table" THEN d
        ELSE IF ~n.ok THEN n
        ELSE Write([n EXCEPT !.tab[n.at] = leaves], d.at, va[2], Table(n.at))

UnmapKernel4k(m, r, va) ==
    LET s == Split(m, r, va) IN IF s.ok THEN Unmap4k(s, r, va) ELSE s

RemapKernel4k(m, r, va) ==
    LET s == Split(m, r, va)
    IN  IF s.ok THEN Map4k(s, r, va, Leaf(Number(va), "RW", FALSE)) ELSE s

\* destroy_root: the pages it frees, one after another
Children(T, t, kind) == {T[t][i].pa : i \in {j \in Entry : T[t][j].kind = kind}}
UserLeaves(T, t) == {i \in Entry : T[t][i].kind = "leaf" /\ T[t][i].u /\ T[t][i].pa \in Pages}

Freed(T, r) ==
    LET l1 == Children(T, r, "table")
        l0 == UNION {Children(T, t, "table") : t \in l1}
    IN  {r} \cup l1 \cup l0 \cup UNION {{T[t][i].pa : i \in UserLeaves(T, t)} : t \in l0}

\* how often it calls free_pages; more than Cardinality(Freed) is a double free
Frees(T, r) ==
    LET Count(t, kind) == Cardinality({i \in Entry : T[t][i].kind = kind})
        Sum(S, f(_)) == FoldLeft(LAMBDA n, t : n + f(t), 0, SetToSeq(S))
        l1 == Children(T, r, "table")
        l0 == UNION {Children(T, t, "table") : t \in l1}
    IN  1 + Count(r, "table") + Sum(l1, LAMBDA t : Count(t, "table"))
          + Sum(l0, LAMBDA t : Cardinality(UserLeaves(T, t)))

-----------------------------------------------------------------------------
(* elf.rs *)

Top    == (Stack[Len(Stack)] + 1) * PAGE_SIZE
Bottom == Stack[1] * PAGE_SIZE
Limit  == USER_VA_LIMIT * PAGE_SIZE
RoundDown(x, a) == x - (x % a)
RoundUp(x, a) == RoundDown(x + a - 1, a)
Least(a, b)    == IF a < b THEN a ELSE b
Greatest(a, b) == IF a < b THEN b ELSE a

\* the tests of parse on one header
GoodHeader(f, h) ==
    /\ h.vaddr < Limit /\ h.vaddr + h.memsz <= Limit
    /\ h.filesz <= h.memsz
    /\ h.offset + h.filesz <= f.len
    /\ h.vaddr % PAGE_SIZE = h.offset % PAGE_SIZE

Segments(f) == SortSeq(f.heads, LAMBDA a, b : a.vaddr < b.vaddr)

\* parse: the file is a RISC-V executable, every header is good and neighbours
\* do not meet in a page
Parses(f) ==
    LET s == Segments(f)
    IN  /\ f.elf
        /\ \A i \in DOMAIN s : GoodHeader(f, s[i])
        /\ \A i \in 1..(Len(s) - 1) :
              RoundUp(s[i].vaddr + s[i].memsz, PAGE_SIZE) <= RoundDown(s[i + 1].vaddr, PAGE_SIZE)

SegmentFlags(flags) ==
    IF "X" \in flags THEN "RX" ELSE IF "W" \in flags THEN "RW" ELSE "R"

\* Mutant: the bytes go to the start of the page.
SegmentPagesLow(h) ==
    LET first == h.vaddr \div PAGE_SIZE
        last  == RoundUp(h.vaddr + h.memsz, PAGE_SIZE) \div PAGE_SIZE - 1
        base(n) == h.offset + n * PAGE_SIZE - h.vaddr
        lo(n)   == Greatest(base(n), h.offset)
        hi(n)   == Least(base(n) + PAGE_SIZE, h.offset + h.filesz)
    IN  [i \in 1..(last - first + 1) |->
            LET n == first + i - 1
            IN  [page |-> n, perm |-> SegmentFlags(h.flags), stack |-> FALSE,
                 fill |-> [lo |-> lo(n), hi |-> Greatest(lo(n), hi(n)), at |-> 0]]]

\* the pages that map_segment goes through, and what each is filled with: the
\* bytes lo..hi-1 of the file, from the offset lo - base of the page on
SegmentPages(h) ==
    LET first == h.vaddr \div PAGE_SIZE
        last  == RoundUp(h.vaddr + h.memsz, PAGE_SIZE) \div PAGE_SIZE - 1
        base(n) == h.offset + n * PAGE_SIZE - h.vaddr
        lo(n)   == Greatest(base(n), h.offset)
        hi(n)   == Least(base(n) + PAGE_SIZE, h.offset + h.filesz)
    IN  [i \in 1..(last - first + 1) |->
            LET n == first + i - 1
            IN  [page |-> n, perm |-> SegmentFlags(h.flags), stack |-> FALSE,
                 fill |-> IF lo(n) < hi(n)
                          THEN [lo |-> lo(n), hi |-> hi(n), at |-> lo(n) - base(n)]
                          ELSE [lo |-> 0, hi |-> 0, at |-> 0]]]

StackPages == [i \in DOMAIN Stack |-> [page |-> Stack[i], perm |-> "RW", stack |-> TRUE,
                                       fill |-> [lo |-> 0, hi |-> 0, at |-> 0]]]

Todo(f) == FlattenSeq([i \in DOMAIN f.heads |-> SegmentPages(Segments(f)[i])]) \o StackPages

\* build_user_stack: the strings, the pointers to them and their number, from
\* the top of the stack downwards
StrTotal(args) == FoldLeft(LAMBDA n, a : n + a + 1, 0, args)
ArgsFit(args)  == /\ Len(args) <= MAX_ARGS
                  /\ StrTotal(args) <= Len(Stack) * PAGE_SIZE - (Len(args) + 2) * 8 - 16
StrArea(args)  == RoundDown(Top - StrTotal(args), 16)
ArgvArray(args) == RoundDown(StrArea(args) - (Len(args) + 1) * 8, 16)
Sp(args)       == RoundDown(ArgvArray(args) - 8, 16)

NoLoad == [stage |-> "none", todo |-> <<>>, mapped |-> <<>>, file |-> <<>>]

Become(p, m) == tab' = m.tab /\ free' = m.free

-----------------------------------------------------------------------------
(* Processes *)

Stop(why) == panic' = why /\ UNCHANGED <<tab, free, kroot, root, load, guard, lost, made>>

\* a kernel that has panicked does nothing more
Up == panic = "no"

\* create and load are called by the boot thread alone, one after another
Booting == Up /\ \A p \in Proc : load[p].stage \in {"none", "done"}

\* process::create; map_kernel_region panics when a table cannot be had
Create(p) ==
    LET c == CreateRoot(Now)
    IN  /\ Booting /\ root[p] = None /\ free # {} /\ made < MaxCreates
        /\ IF c.ok THEN /\ Become(p, c)
                        /\ root' = [root EXCEPT ![p] = c.from]
                        /\ made' = made + 1
                        /\ UNCHANGED <<kroot, load, guard, lost, panic>>
                   ELSE Stop("no memory")

LoadStart(p, f) ==
    /\ Booting /\ root[p] # None /\ load[p] = NoLoad /\ Parses(f)
    /\ load' = [load EXCEPT ![p] = [stage |-> "pages", todo |-> Todo(f),
                                    mapped |-> <<>>, file |-> f]]
    /\ UNCHANGED <<tab, free, kroot, root, guard, lost, made, panic>>

\* one turn of the loop of map_segment or build_user_stack
Next4k(p) == Up /\ load[p].stage = "pages" /\ load[p].todo # <<>>

Fails(p) == load' = [load EXCEPT ![p].stage = "rollback"]

LoadPage(p) ==
    LET t  == load[p].todo[1]
        va == Va(t.page)
        pa == Lowest(free)
        m  == MapUserPage([Now EXCEPT !.free = @ \ {pa}], root[p], va, pa, t.perm)
    IN  /\ Next4k(p) /\ (t.stack => ArgsFit(load[p].file.args))
        /\ ~IsMapped(tab, root[p], va) /\ free # {}
        /\ tab' = m.tab
        /\ IF m.ok
           THEN /\ free' = m.free
                /\ load' = [load EXCEPT ![p].todo = Tail(@),
                                        ![p].mapped = Append(@, <<t.page, pa, t.fill>>)]
                /\ UNCHANGED lost
           ELSE /\ free' = IF t.stack THEN m.free ELSE m.free \cup {pa}
                /\ lost' = IF t.stack THEN lost \cup {pa} ELSE lost
                /\ Fails(p)
        /\ UNCHANGED <<kroot, root, guard, made, panic>>

\* the early returns: too many argument bytes, an occupied page, no memory
LoadStops(p) ==
    LET t == load[p].todo[1]
    IN  /\ Next4k(p)
        /\ \/ t.stack /\ ~ArgsFit(load[p].file.args)
           \/ IsMapped(tab, root[p], Va(t.page))
           \/ free = {}
        /\ Fails(p)
        /\ UNCHANGED <<tab, free, kroot, root, guard, lost, made, panic>>

\* the arguments are written, if the arrays are inside the stack
LoadDone(p) ==
    /\ Up /\ load[p].stage = "pages" /\ load[p].todo = <<>>
    /\ IF ArgvArray(load[p].file.args) < Bottom + 16 THEN Fails(p)
       ELSE load' = [load EXCEPT ![p].stage = "done"]
    /\ UNCHANGED <<tab, free, kroot, root, guard, lost, made, panic>>

\* Mutant: the pages are freed and stay mapped.
RollbackMapped(p) ==
    /\ Up /\ load[p].stage = "rollback"
    /\ free' = free \cup {e[2] : e \in ToSet(load[p].mapped)}
    /\ load' = [load EXCEPT ![p] = NoLoad]
    /\ UNCHANGED <<tab, kroot, root, guard, lost, made, panic>>

\* unmap and free what was mapped
Rollback(p) ==
    LET m == FoldLeft(LAMBDA x, e : Unmap4k(x, root[p], Va(e[1])), Now, load[p].mapped)
    IN  /\ Up /\ load[p].stage = "rollback"
        /\ tab' = m.tab
        /\ free' = m.free \cup {e[2] : e \in ToSet(load[p].mapped)}
        /\ load' = [load EXCEPT ![p] = NoLoad]
        /\ UNCHANGED <<kroot, root, guard, lost, made, panic>>

\* Mutant: the page is not given back when it cannot be mapped.
MapPageKept(p, n, perm) ==
    LET pa == IF perm = "device" THEN Uart ELSE Lowest(free)
        m  == MapUserPage([Now EXCEPT !.free = @ \ {pa}], root[p], Va(n), pa, perm)
    IN  /\ Up /\ load[p].stage = "done" /\ (perm # "device" => free # {})
        /\ tab' = m.tab /\ free' = m.free
        /\ UNCHANGED <<kroot, root, load, guard, lost, made, panic>>

\* mem_map, mmap_share: a new page, or a device's, where the program wants it
MapPage(p, n, perm) ==
    LET pa == IF perm = "device" THEN Uart ELSE Lowest(free)
        m  == MapUserPage([Now EXCEPT !.free = @ \ {pa}], root[p], Va(n), pa, perm)
    IN  /\ Up /\ load[p].stage = "done" /\ (perm # "device" => free # {})
        /\ tab' = m.tab
        /\ free' = IF m.ok \/ perm = "device" THEN m.free ELSE m.free \cup {pa}
        /\ UNCHANGED <<kroot, root, load, guard, lost, made, panic>>

\* revoke: unmap, then free
UnmapPage(p, n) ==
    LET e == LeafPte(tab, root[p], Va(n))
    IN  /\ Up /\ load[p].stage = "done" /\ n \in UserPages /\ e.u
        /\ tab' = Unmap4k(Now, root[p], Va(n)).tab
        /\ free' = free \cup ({e.pa} \cap Pages)
        /\ UNCHANGED <<kroot, root, load, guard, lost, made, panic>>

\* destroy_root: free_pages of a page that is free already panics
Destroy(p) ==
    /\ Up /\ root[p] # None /\ load[p].stage \in {"none", "done"}
    /\ IF Frees(tab, root[p]) = Cardinality(Freed(tab, root[p]))
          /\ Freed(tab, root[p]) \cap free = {}
       THEN /\ free' = free \cup Freed(tab, root[p])
            /\ tab' = [t \in DOMAIN tab \ Freed(tab, root[p]) |-> tab[t]]
            /\ root' = [root EXCEPT ![p] = None]
            /\ load' = [load EXCEPT ![p] = NoLoad]
            /\ UNCHANGED <<kroot, guard, lost, made, panic>>
       ELSE Stop("double free")

-----------------------------------------------------------------------------
(* The guard page of a kernel stack *)

StackAlloc(g) ==
    LET m == UnmapKernel4k([Now EXCEPT !.free = @ \ {g}], kroot, Va(g))
    IN  /\ Up /\ g \in free
        /\ IF m.ok THEN /\ Become(None, m)
                        /\ guard' = guard \cup {g}
                        /\ UNCHANGED <<kroot, root, load, lost, made, panic>>
                   ELSE Stop("no memory")

StackDrop(g) ==
    LET m == RemapKernel4k(Now, kroot, Va(g))
    IN  /\ Up /\ g \in guard
        /\ IF m.ok THEN /\ tab' = m.tab /\ free' = m.free \cup {g}
                        /\ guard' = guard \ {g}
                        /\ UNCHANGED <<kroot, root, load, lost, made, panic>>
                   ELSE Stop("remap")

Init ==
    /\ LET c == CreateRoot([tab |-> <<>>, free |-> Pages, ok |-> TRUE, at |-> None])
       IN  tab = c.tab /\ free = c.free /\ kroot = c.from
    /\ root = [p \in Proc |-> None]
    /\ load = [p \in Proc |-> NoLoad]
    /\ guard = {} /\ lost = {} /\ made = 0 /\ panic = "no"

Next ==
    \/ \E p \in Proc : Create(p)
    \/ \E p \in Proc, f \in Files : LoadStart(p, f)
    \/ \E p \in Proc : LoadPage(p)
    \/ \E p \in Proc : LoadStops(p)
    \/ \E p \in Proc : LoadDone(p)
    \/ \E p \in Proc : Rollback(p)
    \/ \E p \in Proc, n \in UserPages, perm \in {"RW", "device"} : MapPage(p, n, perm)
    \/ \E p \in Proc, n \in UserPages : UnmapPage(p, n)
    \/ \E p \in Proc : Destroy(p)
    \/ \E g \in StackBases : StackAlloc(g)
    \/ \E g \in StackBases : StackDrop(g)

Spec == Init /\ [][Next]_vars

-----------------------------------------------------------------------------
(* Properties *)

Roots == {kroot} \cup {root[p] : p \in {q \in Proc : root[q] # None}}
Virtual == 0..(FANOUT * FANOUT * FANOUT - 1)
Owns(p) == {n \in Virtual : LeafPte(tab, root[p], Va(n)).u}
Mine(p) == {LeafPte(tab, root[p], Va(n)).pa : n \in Owns(p)} \cap Pages
TablesOf(r) == LET l1 == Children(tab, r, "table")
               IN  {r} \cup l1 \cup UNION {Children(tab, t, "table") : t \in l1}
Translated(r, n) ==
    LET l1 == tab[r][Va(n)[1]].pa
        e  == tab[l1][Va(n)[2]]
    IN  IF e.kind = "leaf" THEN e.pa + Va(n)[3] ELSE tab[e.pa][Va(n)[3]].pa
Live == {p \in Proc : root[p] # None}

\* Tables and pages have their types; only pages of the allocator are tables.
TypeOK ==
    /\ free \subseteq Pages /\ DOMAIN tab \subseteq Pages /\ guard \subseteq Pages
    /\ \A t \in DOMAIN tab : tab[t] \in [Entry -> [kind : {"none", "leaf", "table"},
          pa : {None} \cup Virtual, perm : {"", "R", "RW", "RX", "device"}, u : BOOLEAN]]
    /\ \A p \in Live : root[p] \in DOMAIN tab

\* Every page of the allocator is exactly one of: free, a table of exactly one
\* address space, mapped for the user at exactly one place, a guard page, or
\* lost; so no process reaches a table, a free page or another's page.
PagesPartitioned ==
    LET parts == {free, guard, lost} \cup {Mine(p) : p \in Live}
                    \cup {TablesOf(r) : r \in Roots}
    IN  /\ TypeOK
        /\ UNION parts = Pages
        /\ \A A, B \in parts : A = B \/ A \cap B = {}
        /\ Cardinality(Pages) = Cardinality(free) + Cardinality(guard) + Cardinality(lost)
              + FoldLeft(LAMBDA n, p : n + Cardinality({v \in Owns(p) :
                            LeafPte(tab, root[p], Va(v)).pa \in Pages}), 0, SetToSeq(Live))
              + FoldLeft(LAMBDA n, r : n + Cardinality(TablesOf(r)), 0, SetToSeq(Roots))

\* The kernel's region in an address space: what create_user_root mapped stays,
\* with its permissions and without U, whatever programs map and whichever
\* superpages are split, except for the guard pages of live kernel stacks, which
\* are not mapped in the kernel's own root.  The kernel touches every page it allocates through this mapping.
KernelRegionIntact ==
    LET kept(r) == Pages \ (IF r = kroot THEN guard ELSE {})
    IN  /\ \A g \in guard : ~IsMapped(tab, kroot, Va(g))
        /\ \A r \in Roots :
          /\ \A n \in kept(r) :
                LET e == LeafPte(tab, r, Va(n))
                IN  e.kind = "leaf" /\ ~e.u /\ e.perm = "RW" /\ Translated(r, n) = n
          /\ \A i \in ToSet(Image) : i[1] \notin ToSet(Guards) =>
                LeafPte(tab, r, Va(i[1])) = Leaf(i[1], i[2], FALSE)
          /\ LeafPte(tab, r, Va(Uart)) = Leaf(Uart, "RW", FALSE)

\* The kernel panics only when a page table or the kernel region needs a page
\* and there is none: destroy_root frees nothing twice (its expects), and the
\* guard page of a stack can always be mapped again (KernelStack::drop).
PanicsOnlyOutOfMemory == panic \in {"no", "no memory"}

\* The arguments: strings, pointers and their number lie in the stack in this
\* order, sp is aligned, and the second test of build_user_stack never fails.
ArgumentsFit ==
    \A p \in Proc : load[p].stage \in {"pages", "done"} /\ load[p].todo = <<>> =>
        LET args == load[p].file.args
        IN  /\ Bottom + 16 <= ArgvArray(args)
            /\ Bottom <= Sp(args) /\ Sp(args) % 16 = 0
            /\ Sp(args) + 8 <= ArgvArray(args)
            /\ ArgvArray(args) + (Len(args) + 1) * 8 <= StrArea(args)
            /\ StrArea(args) + StrTotal(args) <= Top

\* The place in the file of the byte that process p finds in frame pa, mapped as
\* page n; -1 is a zero.
ByteAt(p, n, pa, off) ==
    LET f == (CHOOSE e \in ToSet(load[p].mapped) : e[1] = n /\ e[2] = pa)[3]
    IN  IF off >= f.at /\ off < f.at + f.hi - f.lo THEN f.lo + off - f.at ELSE -1

\* A program that was loaded finds at each address of a segment the byte of the
\* file or, after these, zero, with the segment's permission, up to the page's
\* end (load_segment), and its arguments on its stack (build_user_stack).
LoadedAsLinked ==
    /\ ArgumentsFit
    /\ \A p \in Proc : load[p].stage = "done" =>
        \A h \in ToSet(load[p].file.heads) :
            \A v \in RoundDown(h.vaddr, PAGE_SIZE)..(RoundUp(h.vaddr + h.memsz, PAGE_SIZE) - 1) :
                LET e == LeafPte(tab, root[p], Va(v \div PAGE_SIZE))
                IN  /\ e.u /\ e.perm = SegmentFlags(h.flags)
                    /\ ByteAt(p, v \div PAGE_SIZE, e.pa, v % PAGE_SIZE) =
                          IF h.vaddr <= v /\ v < h.vaddr + h.filesz
                          THEN h.offset + v - h.vaddr ELSE -1

\* load: "失败逐页回退:已映射页全部 unmap_4k + free_pages 归还,不残留" (elf.rs 297).
NothingResidual == lost = {}
=============================================================================
