-------------------------------- MODULE Caps --------------------------------
(***************************************************************************)
(* The process table with its capabilities (kernel/src/process.rs) and the *)
(* four registries that follow from them: shared pages (shm.rs), page      *)
(* capabilities (pages.rs), services (services.rs), devices (device.rs).   *)
(*                                                                         *)
(* The locks TABLE, SHM and PAGES are never held together, so a system     *)
(* call is a sequence of critical sections and page-table writes.  Each of *)
(* these is one action; op[h] holds the call that hart h is in: the next   *)
(* step, its arguments and what it has read so far.  A call that returns   *)
(* an error before it has changed anything is a call that did not happen.  *)
(*                                                                         *)
(* External: the allocator hands out a frame that is not in use (Buddy),   *)
(* and a page table is a function from virtual pages to frames.            *)
(***************************************************************************)
EXTENDS Integers, Sequences, FiniteSets

CONSTANTS
    Hart,
    MAX_PROCESSES, MAX_CAPS, MAX_SHMS, MAX_PAGES,
    Frame,         \* the physical pages that the allocator manages
    Service,       \* service ids, 1..MAX_SERVICES-1
    VA, SHM_VA,    \* the user pages that programs map; the one for sharing
    Boot,          \* the capabilities granted by the boot code, per process
    Setups,        \* what the system may be started with, see setup
    Overwrites     \* whether programs name slots that hold a page

Pid    == 0..(MAX_PROCESSES - 1)
Slot   == 0..(MAX_CAPS - 1)
Root   == 1..(MAX_PROCESSES + Cardinality(Hart))
ShmId  == 0..(MAX_SHMS - 1)
PageId == 0..(MAX_PAGES - 1)
None == -1
DEV  == 0          \* the frame of the one device on the white list

NoCap   == <<"none", 0>>
Proc(p) == <<"proc", p>>
Shm(i)  == <<"shm", i>>
Page(i) == <<"page", i>>
Cap == {NoCap} \cup {Proc(p) : p \in Pid} \cup {Shm(i) : i \in ShmId}
               \cup {Page(i) : i \in PageId}

ASSUME CapsConstants ==
    /\ {MAX_PROCESSES, MAX_CAPS, MAX_SHMS, MAX_PAGES} \subseteq Nat
    /\ Frame \subseteq Nat \ {DEV} /\ IsFiniteSet(Frame)
    /\ IsFiniteSet(Hart) /\ Cardinality(Hart) \in Nat
    /\ SHM_VA \in VA /\ VA \subseteq Nat
    /\ Boot \in [Pid -> [Slot -> Cap]]
    /\ Overwrites \in BOOLEAN
    /\ Setups \subseteq [home : [Pid -> SUBSET Hart], frames : SUBSET Frame,
                         server : SUBSET Pid, services : SUBSET Service, dev : SUBSET VA,
                         shares : BOOLEAN, kills : {"never", "apart", "any time"}]

VARIABLES
    table,      \* ProcessTable::slots
    free,       \* ProcessTable::free
    shms,       \* ShmTable::shms
    shm_free,   \* ShmTable::free
    pages,      \* PageTable::pages
    page_free,  \* PageTable::free
    services,   \* ServiceTable::slots
    claim,      \* DeviceTable::slots[0]
    space,      \* the user leaves below each root
    live,       \* the roots in existence
    avail,      \* frames in the allocator
    setup,      \* the harts where a process has a thread, the frames there are,
                \* the processes that get pages, offer services and map the
                \* device, the services and device pages asked for, whether
                \* programs share pages, and whether processes are killed, also
                \* while others are in a call; it never changes
    op,         \* the call that a hart is executing
    faults      \* ghost: frees of free frames, writes to roots torn down

shmreg  == <<shms, shm_free>>
pagereg == <<pages, page_free>>
procs   == <<table, free>>
names   == <<services, claim>>
memory  == <<space, live, avail, faults, setup>>
vars == <<procs, shmreg, pagereg, names, memory, op>>

-----------------------------------------------------------------------------
(* Processes, page tables and calls *)

Set(f, x, v) == [f EXCEPT ![x] = v]

\* Which free page or root the code takes makes no difference.
Some(S) == CHOOSE x \in S : TRUE

\* An entry of a registry whose id was set to usize::MAX.
Gone == [id |-> None]
Has(reg, i) == i \in 0..(Len(reg) - 1) /\ reg[i + 1].id = i
Put(reg, i, r) == IF i < Len(reg) THEN Set(reg, i + 1, r) ELSE Append(reg, r)

\* A place in a registry: an entry given back before, or a new one.
NextId(reg, pool) == IF pool = <<>> THEN Len(reg) ELSE Head(pool)
Rest(pool) == IF pool = <<>> THEN pool ELSE Tail(pool)

Alive(p) == Has(table, p)
PidRoot(p) == IF Alive(p) THEN table[p + 1].root ELSE None
CapTarget(p, s) == IF Alive(p) THEN table[p + 1].caps[s] ELSE NoCap
WithCap(p, s, c) == [table EXCEPT ![p + 1].caps[s] = c]

\* grant_typed_cap and clear_cap do nothing to a process that is gone.
Written(p, s, c) == IF Alive(p) THEN WithCap(p, s, c) ELSE table

Done == [at |-> "idle", p |-> None, s |-> None, s2 |-> None, pslot |-> None,
         va |-> None, id |-> None, peer |-> None, ra |-> None, rb |-> None,
         frame |-> None, todo |-> <<>>, strip |-> <<>>, then |-> "idle"]
At(h, l) == op[h].at = l

\* The record o with the fields of r in place of its own.
With(o, r) == [x \in DOMAIN o |-> IF x \in DOMAIN r THEN r[x] ELSE o[x]]
Goto(h, r) == op' = Set(op, h, With(op[h], r))
Return(h) == op' = Set(op, h, Done)

\* Back from revoke, or from the unmapping of a grant, to the caller.
Resume(h) == IF op[h].then = "idle" THEN Return(h)
             ELSE Goto(h, [at |-> op[h].then, then |-> "idle"])

Killing(h) == op[h].then = "invalidate" \/ op[h].at \in {"invalidate", "teardown"}

\* Calls overlap a kill only where kills come at any time.
Apart == setup.kills = "any time" \/ \A h \in Hart : ~Killing(h)

\* A thread of p that runs on h makes a call.
Enter(h, p) ==
    /\ At(h, "idle") /\ Alive(p) /\ h \in setup.home[p] /\ Apart
    /\ \A g \in Hart : ~(Killing(g) /\ op[g].p = p)
Begin(h, p, r) == op' = Set(op, h, With([Done EXCEPT !.p = p], r))

\* The slots that a program names for a new capability.
Names(p, s) == Overwrites \/ CapTarget(p, s)[1] \in {"none", "proc"}

Fault(f) == faults' = faults \cup {f}

\* map_user_page refuses a page that is mapped, and fails without tables.
MapPage(r, va, f) ==
    IF r \in live THEN /\ space[r][va] = None
                       /\ space' = [space EXCEPT ![r][va] = f]
                       /\ UNCHANGED faults
                  ELSE Fault("dead root") /\ UNCHANGED space
MapFails(r, va) ==
    /\ r \in live /\ (space[r][va] # None \/ avail = {})
    /\ UNCHANGED <<space, faults>>

\* unmap_4k: nothing to do where nothing is mapped.
Unmap(r, va) ==
    IF r \in live THEN /\ space' = [space EXCEPT ![r][va] = None]
                       /\ UNCHANGED faults
                  ELSE Fault("dead root") /\ UNCHANGED space

\* free_pages: refuses a page that is free.
FreePages(F) ==
    /\ avail' = avail \cup F
    /\ faults' = faults \cup (IF F \cap avail = {} THEN {} ELSE {"double free"})

Init ==
    /\ table = [i \in 1..MAX_PROCESSES |->
                  [id |-> i - 1, root |-> i, caps |-> Boot[i - 1]]]
    /\ free = <<>> /\ shms = <<>> /\ shm_free = <<>>
    /\ pages = <<>> /\ page_free = <<>>
    /\ services = [i \in Service |-> None]
    /\ claim = [owner |-> None, va |-> None]
    /\ space = [r \in Root |-> [va \in VA |-> None]]
    /\ live = 1..MAX_PROCESSES
    /\ setup \in Setups /\ avail = setup.frames
    /\ op = [h \in Hart |-> Done]
    /\ faults = {}

-----------------------------------------------------------------------------
(* Process table *)

\* Mutant: the slot that is used again stays in the pool.
CreateKeepsFree(h) ==
    /\ At(h, "idle") /\ Len(table) - Len(free) < MAX_PROCESSES
    /\ Apart
    /\ LET p == NextId(table, free)
           r == Some(Root \ live)
       IN  /\ table' = Put(table, p, [id |-> p, root |-> r, caps |-> Boot[p]])
           /\ live' = live \cup {r}
           /\ space' = Set(space, r, [va \in VA |-> None])
    /\ UNCHANGED <<free, shmreg, pagereg, names, avail, faults, op, setup>>

\* create, with the grants of the boot code that follow it.
Create(h) ==
    /\ At(h, "idle") /\ Len(table) - Len(free) < MAX_PROCESSES
    /\ Apart
    /\ LET p == NextId(table, free)
           r == Some(Root \ live)
       IN  /\ table' = Put(table, p, [id |-> p, root |-> r, caps |-> Boot[p]])
           /\ free' = Rest(free)
           /\ live' = live \cup {r}
           /\ space' = Set(space, r, [va \in VA |-> None])
    /\ UNCHANGED <<shmreg, pagereg, names, avail, faults, op, setup>>

\* Mutant: a page is duplicated like any capability.
CapDupAny(h, p, s, t) ==
    /\ Enter(h, p) /\ Names(p, t) /\ s # t
    /\ CapTarget(p, s) # NoCap
    /\ table' = WithCap(p, t, CapTarget(p, s))
    /\ UNCHANGED <<free, shmreg, pagereg, names, memory, op>>

\* cap_duplicate: a page has one reference.
CapDup(h, p, s, t) ==
    /\ Enter(h, p) /\ Names(p, t) /\ s # t
    /\ CapTarget(p, s)[1] \in {"proc", "shm"}
    /\ table' = WithCap(p, t, CapTarget(p, s))
    /\ UNCHANGED <<free, shmreg, pagereg, names, memory, op>>

\* cap_revoke: what the slot holds decides.
CapRevoke(h, p, s) ==
    /\ Enter(h, p)
    /\ LET c == CapTarget(p, s) IN
       \/ c[1] = "proc" /\ Begin(h, p, [at |-> "clear", s |-> s])
       \/ c[1] = "shm" /\ Begin(h, p, [at |-> "revoke", todo |-> <<c>>])
       \/ c[1] = "page" /\ Begin(h, p, [at |-> "revoke", todo |-> <<c>>,
                                        s |-> s, then |-> "clear"])
    /\ UNCHANGED <<procs, shmreg, pagereg, names, memory>>

\* clear_cap, the last step of several calls.
ClearCap(h) ==
    /\ At(h, "clear")
    /\ table' = Written(op[h].p, op[h].s, NoCap)
    /\ Return(h)
    /\ UNCHANGED <<free, shmreg, pagereg, names, memory>>

\* destroy, step 1: the shared and the page capabilities, under TABLE.
Destroy(h, p) ==
    /\ setup.kills # "never" /\ At(h, "idle") /\ Alive(p)
    /\ \A g \in Hart : op[g].p # p /\ (setup.kills = "apart" => At(g, "idle"))
    /\ LET Of(k) == SelectSeq([i \in 1..MAX_CAPS |-> CapTarget(p, i - 1)],
                              LAMBDA c : c[1] = k)
       IN  Begin(h, p, [at |-> "revoke", then |-> "invalidate",
                        todo |-> Of("shm") \o Of("page")])
    /\ UNCHANGED <<procs, shmreg, pagereg, names, memory>>

\* Mutant: the services stay registered.
InvalidateKeepsNames(h) ==
    /\ At(h, "invalidate") /\ Alive(op[h].p)
    /\ table' = Set(table, op[h].p + 1, Gone)
    /\ free' = Append(free, op[h].p)
    /\ Goto(h, [at |-> "teardown", p |-> None, ra |-> PidRoot(op[h].p)])
    /\ UNCHANGED <<shmreg, pagereg, names, memory>>

\* destroy, step 2: the slot becomes invalid and its names are released.
Invalidate(h) ==
    /\ At(h, "invalidate")
    /\ LET p == op[h].p IN
       IF ~Alive(p) THEN Return(h) /\ UNCHANGED <<procs, names>>
       ELSE /\ table' = Set(table, p + 1, Gone)
            /\ free' = Append(free, p)
            /\ services' = [i \in Service |->
                              IF services[i] = p THEN None ELSE services[i]]
            /\ claim' = IF claim.owner = p
                        THEN [owner |-> None, va |-> None] ELSE claim
            /\ Goto(h, [at |-> "teardown", p |-> None, ra |-> PidRoot(p)])
    /\ UNCHANGED <<shmreg, pagereg, memory>>

\* destroy, step 3, destroy_root: every frame that is still mapped is freed.
Teardown(h) ==
    /\ At(h, "teardown")
    /\ live' = live \ {op[h].ra}
    /\ FreePages({space[op[h].ra][va] : va \in VA} \cap Frame)
    /\ space' = Set(space, op[h].ra, [va \in VA |-> None])
    /\ Return(h)
    /\ UNCHANGED <<procs, shmreg, pagereg, names, setup>>

-----------------------------------------------------------------------------
(* Revocation: shm::shm_revoke, pages::revoke *)

Entry(c) == IF c[1] = "shm" THEN shms[c[2] + 1] ELSE pages[c[2] + 1]
Valid(c) == IF c[1] = "shm" THEN Has(shms, c[2]) ELSE Has(pages, c[2])

\* The mappings to remove, and the slot to clear with each of them.
Strip(c) ==
    IF c[1] = "shm"
    THEN [i \in 1..2 |-> [p |-> Entry(c).owners[i][1], va |-> SHM_VA,
                          s |-> Entry(c).owners[i][2]]]
    ELSE IF Entry(c).map_va = None THEN <<>>
    ELSE <<[p |-> Entry(c).owner, va |-> Entry(c).map_va, s |-> None]>>

\* The entry leaves the registry, under SHM or PAGES.
Revoke(h) ==
    /\ At(h, "revoke") /\ op[h].todo # <<>>
    /\ LET c == Head(op[h].todo) IN
       IF ~Valid(c)
       THEN /\ IF op[h].then = "clear" THEN Return(h)
               ELSE Goto(h, [todo |-> Tail(op[h].todo)])
            /\ UNCHANGED <<shmreg, pagereg>>
       ELSE /\ Goto(h, [at |-> "strip", todo |-> Tail(op[h].todo),
                        strip |-> Strip(c), frame |-> Entry(c).paddr])
            /\ IF c[1] = "shm"
               THEN /\ shms' = Set(shms, c[2] + 1, Gone)
                    /\ shm_free' = Append(shm_free, c[2])
                    /\ UNCHANGED pagereg
               ELSE /\ pages' = Set(pages, c[2] + 1, Gone)
                    /\ page_free' = Append(page_free, c[2])
                    /\ UNCHANGED shmreg
    /\ UNCHANGED <<procs, names, memory>>

Revoked(h) ==
    /\ At(h, "revoke") /\ op[h].todo = <<>>
    /\ Resume(h)
    /\ UNCHANGED <<procs, shmreg, pagereg, names, memory>>

\* pid_root of the owner: whoever has that pid now.
StripRoot(h) ==
    /\ At(h, "strip") /\ op[h].strip # <<>>
    /\ LET r == PidRoot(Head(op[h].strip).p)
       IN  Goto(h, [at |-> IF r = None THEN "strip_clear" ELSE "strip_unmap",
                    ra |-> r])
    /\ UNCHANGED <<procs, shmreg, pagereg, names, memory>>

StripUnmap(h) ==
    /\ At(h, "strip_unmap")
    /\ Unmap(op[h].ra, Head(op[h].strip).va)
    /\ Goto(h, [at |-> "strip_clear", ra |-> None])
    /\ UNCHANGED <<procs, shmreg, pagereg, names, live, avail, setup>>

StripClear(h) ==
    /\ At(h, "strip_clear")
    /\ LET o == Head(op[h].strip)
       IN  table' = IF o.s = None THEN table ELSE Written(o.p, o.s, NoCap)
    /\ Goto(h, [at |-> "strip", strip |-> Tail(op[h].strip)])
    /\ UNCHANGED <<free, shmreg, pagereg, names, memory>>

\* The frame of a revoked entry goes back; a grant only loses its mapping.
Stripped(h) ==
    /\ At(h, "strip") /\ op[h].strip = <<>>
    /\ IF op[h].frame = None THEN UNCHANGED <<avail, faults>>
       ELSE FreePages({op[h].frame})
    /\ IF op[h].frame # None THEN Goto(h, [at |-> "revoke", frame |-> None])
       ELSE Resume(h)
    /\ UNCHANGED <<procs, shmreg, pagereg, names, space, live, setup>>

-----------------------------------------------------------------------------
(* shm::mmap_share *)

ShmMap(h, p, s, t) ==
    /\ Enter(h, p) /\ setup.shares /\ CapTarget(p, s)[1] = "proc"
    /\ Names(CapTarget(p, s)[2], t)
    /\ Begin(h, p, [at |-> "share_root_b", s |-> s, s2 |-> t,
                    peer |-> CapTarget(p, s)[2]])
    /\ UNCHANGED <<procs, shmreg, pagereg, names, memory>>

ShareRootB(h) ==
    /\ At(h, "share_root_b")
    /\ IF Alive(op[h].peer)
       THEN Goto(h, [at |-> "share_root_a", rb |-> PidRoot(op[h].peer)])
       ELSE Return(h)
    /\ UNCHANGED <<procs, shmreg, pagereg, names, memory>>

ShareRootA(h) ==
    /\ At(h, "share_root_a")
    /\ IF Alive(op[h].p)
       THEN Goto(h, [at |-> "share_alloc", ra |-> PidRoot(op[h].p)])
       ELSE Return(h)
    /\ UNCHANGED <<procs, shmreg, pagereg, names, memory>>

\* Mutant: the frame stays in the allocator.
ShareAllocKept(h) ==
    /\ At(h, "share_alloc")
    /\ IF avail = {} THEN Return(h)
       ELSE Goto(h, [at |-> "share_map_a", frame |-> Some(avail)])
    /\ UNCHANGED <<procs, shmreg, pagereg, names, memory>>

ShareAlloc(h) ==
    /\ At(h, "share_alloc")
    /\ IF avail = {} THEN Return(h) /\ UNCHANGED avail
       ELSE /\ avail' = avail \ {Some(avail)}
            /\ Goto(h, [at |-> "share_map_a", frame |-> Some(avail)])
    /\ UNCHANGED <<procs, shmreg, pagereg, names, space, live, faults, setup>>

ShareMapA(h) ==
    /\ At(h, "share_map_a")
    /\ \/ /\ MapPage(op[h].ra, SHM_VA, op[h].frame)
          /\ Goto(h, [at |-> "share_map_b"])
       \/ /\ MapFails(op[h].ra, SHM_VA)
          /\ Goto(h, [at |-> "share_undo", ra |-> None, rb |-> None])
    /\ UNCHANGED <<procs, shmreg, pagereg, names, live, avail, setup>>

ShareMapB(h) ==
    /\ At(h, "share_map_b")
    /\ \/ /\ MapPage(op[h].rb, SHM_VA, op[h].frame)
          /\ Goto(h, [at |-> "share_enter"])
       \/ /\ MapFails(op[h].rb, SHM_VA)
          /\ Goto(h, [at |-> "share_undo", rb |-> None])
    /\ UNCHANGED <<procs, shmreg, pagereg, names, live, avail, setup>>

\* The table counts as full by its length, entries given back included.
ShareEnter(h) ==
    /\ At(h, "share_enter")
    /\ IF Len(shms) >= MAX_SHMS
       THEN Goto(h, [at |-> "share_undo"]) /\ UNCHANGED shmreg
       ELSE LET i == NextId(shms, shm_free) IN
            /\ shms' = Put(shms, i, [id |-> i, paddr |-> op[h].frame,
                 owners |-> <<<<op[h].p, op[h].s>>, <<op[h].peer, op[h].s2>>>>])
            /\ shm_free' = Rest(shm_free)
            /\ Goto(h, [at |-> "share_grant_a", id |-> i, frame |-> None,
                        ra |-> None, rb |-> None])
    /\ UNCHANGED <<procs, pagereg, names, memory>>

\* Rollback: the mappings made so far, then the frame.
ShareUndo(h) ==
    /\ At(h, "share_undo")
    /\ IF op[h].ra # None
       THEN /\ Unmap(op[h].ra, SHM_VA)
            /\ Goto(h, [ra |-> op[h].rb, rb |-> None])
            /\ UNCHANGED avail
       ELSE /\ FreePages({op[h].frame}) /\ Return(h) /\ UNCHANGED space
    /\ UNCHANGED <<procs, shmreg, pagereg, names, live, setup>>

\* grant_shm_cap to both; a failure revokes the page again.
ShareGrant(h, at, p, s, next) ==
    /\ At(h, at)
    /\ table' = Written(p, s, Shm(op[h].id))
    /\ IF ~Alive(p) THEN Goto(h, [at |-> "revoke", todo |-> <<Shm(op[h].id)>>])
       ELSE IF next = "idle" THEN Return(h)
       ELSE Goto(h, [at |-> next])
    /\ UNCHANGED <<free, shmreg, pagereg, names, memory>>
ShareGrantA(h) ==
    ShareGrant(h, "share_grant_a", op[h].p, op[h].s, "share_grant_b")
ShareGrantB(h) ==
    ShareGrant(h, "share_grant_b", op[h].peer, op[h].s2, "idle")

-----------------------------------------------------------------------------
(* Page capabilities *)

\* pages::alloc and the grant of the page: only the boot code, for the pool.
PageAlloc(h, p, s) ==
    /\ Enter(h, p) /\ p \in setup.server /\ CapTarget(p, s) = NoCap /\ avail # {}
    /\ avail' = avail \ {Some(avail)}
    /\ Begin(h, p, [at |-> "page_enter", s |-> s, frame |-> Some(avail)])
    /\ UNCHANGED <<procs, shmreg, pagereg, names, space, live, faults, setup>>

\* Mutant: the frame is not given back when the table is full.
PageEnterLeak(h) ==
    /\ At(h, "page_enter")
    /\ IF Len(pages) >= MAX_PAGES THEN Return(h) /\ UNCHANGED pagereg
       ELSE LET i == NextId(pages, page_free) IN
            /\ pages' = Put(pages, i, [id |-> i, paddr |-> op[h].frame,
                                       owner |-> op[h].p, map_va |-> None])
            /\ page_free' = Rest(page_free)
            /\ Goto(h, [at |-> "pool_slot", id |-> i, frame |-> None])
    /\ UNCHANGED <<procs, shmreg, names, memory>>

PageEnter(h) ==
    /\ At(h, "page_enter")
    /\ IF Len(pages) >= MAX_PAGES
       THEN /\ FreePages({op[h].frame}) /\ Return(h) /\ UNCHANGED pagereg
       ELSE LET i == NextId(pages, page_free) IN
            /\ pages' = Put(pages, i, [id |-> i, paddr |-> op[h].frame,
                                       owner |-> op[h].p, map_va |-> None])
            /\ page_free' = Rest(page_free)
            /\ Goto(h, [at |-> "pool_slot", id |-> i, frame |-> None])
            /\ UNCHANGED <<avail, faults>>
    /\ UNCHANGED <<procs, shmreg, names, space, live, setup>>

PoolSlot(h) ==
    /\ At(h, "pool_slot")
    /\ table' = Written(op[h].p, op[h].s, Page(op[h].id))
    /\ Return(h)
    /\ UNCHANGED <<free, shmreg, pagereg, names, memory>>

\* mem_grant: the page, the peer, and the peer's slot, one after the other.
MemGrant(h, p, s, t, u) ==
    /\ Enter(h, p) /\ CapTarget(p, s)[1] = "page"
    /\ Begin(h, p, [at |-> "grant_peer", s |-> s, id |-> CapTarget(p, s)[2],
                    pslot |-> t, s2 |-> u])
    /\ UNCHANGED <<procs, shmreg, pagereg, names, memory>>

GrantPeer(h) ==
    /\ At(h, "grant_peer")
    /\ LET c == CapTarget(op[h].p, op[h].pslot) IN
       IF c[1] = "proc"
       THEN Goto(h, [at |-> "grant_alive", peer |-> c[2], pslot |-> None])
       ELSE Return(h)
    /\ UNCHANGED <<procs, shmreg, pagereg, names, memory>>

GrantAlive(h) ==
    /\ At(h, "grant_alive")
    /\ IF Alive(op[h].peer) THEN Goto(h, [at |-> "grant_dst"]) ELSE Return(h)
    /\ UNCHANGED <<procs, shmreg, pagereg, names, memory>>

GrantDst(h) ==
    /\ At(h, "grant_dst")
    /\ IF CapTarget(op[h].peer, op[h].s2) = NoCap
       THEN Goto(h, [at |-> "grant"]) ELSE Return(h)
    /\ UNCHANGED <<procs, shmreg, pagereg, names, memory>>

\* Mutant: the old owner keeps its mapping.
GrantToMapped(h, p, next) ==
    IF ~Has(pages, op[h].id) THEN Return(h) /\ UNCHANGED pages
    ELSE /\ pages' = [pages EXCEPT ![op[h].id + 1].owner = p,
                                   ![op[h].id + 1].map_va = None]
         /\ Goto(h, [at |-> "strip", strip |-> <<>>, then |-> next])

\* pages::grant: the new owner is recorded before the old mapping goes.
GrantTo(h, p, next) ==
    IF ~Has(pages, op[h].id) THEN Return(h) /\ UNCHANGED pages
    ELSE /\ pages' = [pages EXCEPT ![op[h].id + 1].owner = p,
                                   ![op[h].id + 1].map_va = None]
         /\ Goto(h, [at |-> "strip", strip |-> Strip(Page(op[h].id)),
                     then |-> next])

Grant(h) ==
    /\ At(h, "grant") /\ GrantTo(h, op[h].peer, "page_slot")
    /\ UNCHANGED <<procs, shmreg, page_free, names, memory>>

\* grant_typed_cap; when the peer is gone the owner is set back.
PageSlot(h) ==
    /\ At(h, "page_slot")
    /\ table' = Written(op[h].peer, op[h].s2, Page(op[h].id))
    /\ Goto(h, [at |-> IF Alive(op[h].peer) THEN "clear" ELSE "grant_back"])
    /\ UNCHANGED <<free, shmreg, pagereg, names, memory>>

GrantBack(h) ==
    /\ At(h, "grant_back") /\ GrantTo(h, op[h].p, "idle")
    /\ UNCHANGED <<procs, shmreg, page_free, names, memory>>

\* mem_map: tests, maps and records in sections of their own.
MemMap(h, p, s, va) ==
    /\ Enter(h, p) /\ CapTarget(p, s)[1] = "page"
    /\ Begin(h, p, [at |-> "map_test", id |-> CapTarget(p, s)[2], va |-> va])
    /\ UNCHANGED <<procs, shmreg, pagereg, names, memory>>

MapTest(h) ==
    /\ At(h, "map_test")
    /\ IF Has(pages, op[h].id) /\ pages[op[h].id + 1].map_va # None
       THEN Return(h) ELSE Goto(h, [at |-> "map_paddr"])
    /\ UNCHANGED <<procs, shmreg, pagereg, names, memory>>

MapPaddr(h) ==
    /\ At(h, "map_paddr")
    /\ IF Has(pages, op[h].id)
       THEN Goto(h, [at |-> "map_root", frame |-> pages[op[h].id + 1].paddr])
       ELSE Return(h)
    /\ UNCHANGED <<procs, shmreg, pagereg, names, memory>>

MapRoot(h) ==
    /\ At(h, "map_root")
    /\ IF Alive(op[h].p) THEN Goto(h, [at |-> "map", ra |-> PidRoot(op[h].p)])
       ELSE Return(h)
    /\ UNCHANGED <<procs, shmreg, pagereg, names, memory>>

Map(h) ==
    /\ At(h, "map")
    /\ \/ /\ MapPage(op[h].ra, op[h].va, op[h].frame)
          /\ Goto(h, [at |-> "map_record"])
       \/ MapFails(op[h].ra, op[h].va) /\ Return(h)
    /\ UNCHANGED <<procs, shmreg, pagereg, names, live, avail, setup>>

MapRecord(h) ==
    /\ At(h, "map_record")
    /\ IF Has(pages, op[h].id) /\ pages[op[h].id + 1].map_va = None
       THEN /\ pages' = [pages EXCEPT ![op[h].id + 1].map_va = op[h].va]
            /\ Return(h)
       ELSE Goto(h, [at |-> "map_undo"]) /\ UNCHANGED pages
    /\ UNCHANGED <<procs, shmreg, page_free, names, memory>>

MapUndo(h) ==
    /\ At(h, "map_undo") /\ Unmap(op[h].ra, op[h].va) /\ Return(h)
    /\ UNCHANGED <<procs, shmreg, pagereg, names, live, avail, setup>>

-----------------------------------------------------------------------------
(* Services and devices *)

\* register_service: SERVICES inside TABLE.
Register(h, p, i) ==
    /\ Enter(h, p) /\ p \in setup.server /\ i \in setup.services /\ services[i] = None
    /\ services' = Set(services, i, p)
    /\ UNCHANGED <<procs, shmreg, pagereg, claim, memory, op>>

Connect(h, p, i, s, t) ==
    /\ Enter(h, p) /\ services[i] \notin {None, p}
    /\ Names(p, s) /\ Names(services[i], t)
    /\ Begin(h, p, [at |-> "connect_client", peer |-> services[i],
                    s |-> s, s2 |-> t])
    /\ UNCHANGED <<procs, shmreg, pagereg, names, memory>>

ConnectClient(h) ==
    /\ At(h, "connect_client")
    /\ table' = Written(op[h].p, op[h].s, Proc(op[h].peer))
    /\ IF Alive(op[h].p) THEN Goto(h, [at |-> "connect_server"]) ELSE Return(h)
    /\ UNCHANGED <<free, shmreg, pagereg, names, memory>>

ConnectServer(h) ==
    /\ At(h, "connect_server")
    /\ table' = Written(op[h].peer, op[h].s2, Proc(op[h].p))
    /\ IF Alive(op[h].peer) THEN Return(h) ELSE Goto(h, [at |-> "clear"])
    /\ UNCHANGED <<free, shmreg, pagereg, names, memory>>

\* device::map: the root is read before DEVICES is taken.
MapDevice(h, p, va) ==
    /\ Enter(h, p) /\ p \in setup.server /\ va \in setup.dev /\ claim.owner = None
    /\ Begin(h, p, [at |-> "claim", va |-> va, ra |-> PidRoot(p)])
    /\ UNCHANGED <<procs, shmreg, pagereg, names, memory>>

Claim(h) ==
    /\ At(h, "claim") /\ Return(h)
    /\ \/ /\ claim.owner = None
          /\ MapPage(op[h].ra, op[h].va, DEV)
          /\ claim' = [owner |-> op[h].p, va |-> op[h].va]
       \/ /\ claim.owner = None /\ MapFails(op[h].ra, op[h].va)
          /\ UNCHANGED claim
       \/ claim.owner # None /\ UNCHANGED <<claim, space, faults>>
    /\ UNCHANGED <<procs, shmreg, pagereg, services, live, avail, setup>>

-----------------------------------------------------------------------------
Call(h, p) ==
    \/ \E s \in Slot : CapRevoke(h, p, s) \/ PageAlloc(h, p, s)
    \/ \E s, t \in Slot : CapDup(h, p, s, t) \/ ShmMap(h, p, s, t)
    \/ \E s, t, u \in Slot : MemGrant(h, p, s, t, u)
    \/ \E s \in Slot, va \in VA : MemMap(h, p, s, va)
    \/ \E i \in Service : Register(h, p, i)
    \/ \E i \in Service, s, t \in Slot : Connect(h, p, i, s, t)
    \/ \E va \in VA : MapDevice(h, p, va)
    \/ Destroy(h, p)

Step(h) ==
    \/ ClearCap(h) \/ Invalidate(h) \/ Teardown(h)
    \/ Revoke(h) \/ Revoked(h)
    \/ StripRoot(h) \/ StripUnmap(h) \/ StripClear(h) \/ Stripped(h)
    \/ ShareRootB(h) \/ ShareRootA(h) \/ ShareAlloc(h)
    \/ ShareMapA(h) \/ ShareMapB(h) \/ ShareEnter(h) \/ ShareUndo(h)
    \/ ShareGrantA(h) \/ ShareGrantB(h)
    \/ PageEnter(h) \/ PoolSlot(h)
    \/ GrantPeer(h) \/ GrantAlive(h) \/ GrantDst(h) \/ Grant(h)
    \/ PageSlot(h) \/ GrantBack(h)
    \/ MapTest(h) \/ MapPaddr(h) \/ MapRoot(h) \/ Map(h) \/ MapRecord(h)
    \/ MapUndo(h)
    \/ ConnectClient(h) \/ ConnectServer(h) \/ Claim(h)

Next == \E h \in Hart : Create(h) \/ Step(h) \/ \E p \in Pid : Call(h, p)

Spec == Init /\ [][Next]_vars

-----------------------------------------------------------------------------
(* Properties *)

\* No two calls are of one process and no kill overlaps a call; no calls overlap.
Single == setup.kills # "any time" /\ \A p \in Pid : Cardinality(setup.home[p]) <= 1
Alone  == Single /\ \E h \in Hart : \A p \in Pid : setup.home[p] \subseteq {h}
Quiet == \A h \in Hart : At(h, "idle")
ShmIds == {i \in ShmId : Has(shms, i)}
PageIds == {i \in PageId : Has(pages, i)}
Owners(i) == {shms[i + 1].owners[k] : k \in 1..2}

\* Every table of process.rs, shm.rs, pages.rs, services.rs and device.rs keeps
\* its shape, whatever the calls.
TypeOK ==
    /\ Len(table) <= MAX_PROCESSES /\ Len(shms) <= MAX_SHMS
    /\ Len(pages) <= MAX_PAGES
    /\ \A p \in Pid : Alive(p) => /\ table[p + 1].root \in live
                                  /\ table[p + 1].caps \in [Slot -> Cap]
    /\ space \in [Root -> [VA -> Frame \cup {DEV, None}]]
    /\ live \subseteq Root /\ avail \subseteq Frame
    /\ services \in [Service -> Pid \cup {None}]
    /\ claim \in [owner : Pid \cup {None}, va : VA \cup {None}]
    /\ \A h \in Hart : op[h].frame \in Frame \cup {None}

\* A hart that has taken a frame out of the allocator or a registry and has
\* not put it anywhere yet; mem_map only remembers the address.
Carries(h, f) ==
    op[h].frame = f /\ ~At(h, "map_root") /\ ~At(h, "map")
    /\ ~At(h, "map_record") /\ ~At(h, "map_undo")

\* Where a frame is.
PlacesOf(f) ==
    {<<"avail", x>> : x \in {f} \cap avail}
    \cup {<<"shm", i>> : i \in {j \in ShmIds : shms[j + 1].paddr = f}}
    \cup {<<"page", i>> : i \in {j \in PageIds : pages[j + 1].paddr = f}}
    \cup {<<"hart", h>> : h \in {g \in Hart : Carries(g, f)}}

\* Every frame is in exactly one place: the allocator, a shared page, a page
\* capability, or the hands of one system call.  None is lost by an error
\* path and none is in two registries; so no page is freed twice and no page
\* table is written after its teardown.
FramesConserved ==
    /\ TypeOK /\ faults = {}
    /\ \A f \in setup.frames :
        \E x \in PlacesOf(f) : PlacesOf(f) = {x}

\* The page tables map what the registries say and nothing else: a process
\* reaches exactly the pages it owns or shares and the device it claimed.  The
\* threads of a process must not race each other.
MappingsAgree ==
    Single /\ Quiet =>
      {<<p, va, space[PidRoot(p)][va]>> : p \in {q \in Pid : Alive(q)}, va \in VA}
        \ (Pid \X VA \X {None})
      = {<<pages[i + 1].owner, pages[i + 1].map_va, pages[i + 1].paddr>> :
           i \in {j \in PageIds : pages[j + 1].map_va # None}}
        \cup UNION {{<<o[1], SHM_VA, shms[i + 1].paddr>> : o \in Owners(i)} : i \in ShmIds}
        \cup {<<c.owner, c.va, DEV>> : c \in {claim} \ {[owner |-> None, va |-> None]}}

\* Between calls a page that is registered is in exactly one slot, of its recorded
\* owner, and no slot names a page that is not registered (the single reference of
\* pages.rs); and both owners of a shared page hold it in the slots that a
\* revocation will clear, so that destroy finds it in whichever dies first.  Calls
\* must not overlap.
SlotsAgree ==
    Alone /\ Quiet =>
      /\ \A i \in PageId :
            LET at == {x \in Pid \X Slot : CapTarget(x[1], x[2]) = Page(i)}
            IN  IF i \in PageIds THEN \E s \in Slot : at = {<<pages[i + 1].owner, s>>}
                ELSE at = {}
      /\ \A i \in ShmIds : \A o \in Owners(i) : CapTarget(o[1], o[2]) = Shm(i)

\* The free pools hold exactly the entries that are out of use, each once.
PoolsExact ==
    \A x \in {<<table, free>>, <<shms, shm_free>>, <<pages, page_free>>} :
        /\ {x[2][k] : k \in DOMAIN x[2]} = {i \in 0..(Len(x[1]) - 1) : ~Has(x[1], i)}
        /\ \A j, k \in DOMAIN x[2] : x[2][j] = x[2][k] => j = k

\* A service and a device belong to a process that exists.
NamesAlive ==
    /\ \A i \in Service : services[i] # None => Alive(services[i])
    /\ claim.owner # None => Alive(claim.owner)

\* Who owns a frame, according to the registries.
OwnersOf(f) ==
    {pages[i + 1].owner : i \in {j \in PageIds : pages[j + 1].paddr = f}}
    \cup UNION {{o[1] : o \in Owners(i)} :
                  i \in {j \in ShmIds : shms[j + 1].paddr = f}}

O == INSTANCE Ownership WITH owners <- [f \in Frame |-> OwnersOf(f)]

\* The registries of shm.rs and pages.rs implement Ownership: no sequence of
\* calls gives a page that somebody owns to somebody else, makes a private page
\* shared, or takes a shared page from only one of the two.
ImplementsOwnership == O!Spec
=============================================================================
