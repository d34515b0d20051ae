-------------------------- MODULE OwnershipProofs --------------------------
(***************************************************************************)
(* While no process is killed, no physical page is lost, freed twice or in *)
(* two registries, and the registries of shm.rs and pages.rs implement     *)
(* Ownership: for any number of harts and processes, whatever the threads  *)
(* of one process or of several do to each other's calls.                  *)
(***************************************************************************)
EXTENDS CapsProofs

Roots == 1..MAX_PROCESSES

\* The steps of mem_map remember a frame; the others hold it.
Mapping == {"map_root", "map", "map_record", "map_undo"}
Holding == {"share_map_a", "share_map_b", "share_enter", "share_undo", "page_enter"}
Stripping == {"strip", "strip_unmap", "strip_clear"}

\* The steps of a call that names another process.
Pairing == {"share_root_b", "share_root_a", "share_alloc", "share_map_a", "share_map_b",
            "share_enter", "share_grant_a", "share_grant_b", "grant_alive", "grant_dst",
            "grant", "page_slot", "connect_client", "connect_server"}

\* What is known of the call o of a hart at each of its steps; F are the frames
\* that there are.
CallOK(o, F) ==
    /\ DOMAIN o = DOMAIN Done
    /\ o.then \in {"idle", "clear", "page_slot"}
    /\ o.then # "idle" => o.at \in Stripping \cup {"revoke"}
    /\ o.at \notin {"invalidate", "teardown"}
    /\ o.at # "idle" => o.p \in Pid
    /\ o.at = "grant_peer" => o.pslot \in Slot
    /\ o.at \in Pairing \/ o.then = "page_slot" => o.peer \in Pid
    /\ o.frame \in F \cup {None}
    /\ o.frame # None => o.at \in Mapping \cup Holding \cup Stripping
    /\ o.at \in Mapping \cup Holding => o.frame \in F
    /\ o.at \in {"share_grant_a", "share_grant_b"} => o.id \in ShmId
    /\ o.at \in {"pool_slot", "page_slot"} \/ o.then = "page_slot" => o.id \in PageId
    /\ o.at \in Mapping \cup {"map_test", "map_paddr", "claim"} => o.va \in VA
    /\ o.at \in {"strip_unmap", "share_alloc", "share_map_a", "share_map_b", "share_enter",
                 "map", "map_record", "map_undo", "claim"} => o.ra \in Roots
    /\ o.at \in {"share_root_a", "share_alloc", "share_map_a", "share_map_b", "share_enter"}
         => o.rb \in Roots
    /\ o.at = "share_undo" => {o.ra, o.rb} \subseteq Roots \cup {None}

CallsOK == DOMAIN op = Hart /\ \A h \in Hart : CallOK(op[h], setup.frames)

\* The processes of the boot are there, each with its root.
Processes ==
    /\ live = Roots /\ free = <<>> /\ Len(table) = MAX_PROCESSES
    /\ \A p \in Pid : table[p + 1] \in [id : {p}, root : {p + 1}, caps : [Slot -> Cap]]

ShmOK(e, F)  == e.paddr \in F /\ \E p, q \in Pid : \E s, t : e.owners = <<<<p, s>>, <<q, t>>>>
PageOK(e, F) == e \in [id : PageId, paddr : F, owner : Pid, map_va : VA \cup {None}]

Entries ==
    /\ Len(shms) <= MAX_SHMS /\ Len(pages) <= MAX_PAGES
    /\ \A i : Has(shms, i) => ShmOK(shms[i + 1], setup.frames)
    /\ \A i : Has(pages, i) => PageOK(pages[i + 1], setup.frames)

Memory ==
    /\ avail \subseteq setup.frames /\ faults = {}
    /\ space \in [Root -> [VA -> Frame \cup {DEV, None}]]
    /\ services \in [Service -> Pid \cup {None}]
    /\ claim \in [owner : Pid \cup {None}, va : VA \cup {None}]

Calm == setup \in Setups /\ setup.kills = "never"

\* The invariant but for where the frames are.
Shape == Registries /\ Calm /\ CallsOK /\ Processes /\ Entries /\ Memory

-----------------------------------------------------------------------------

\* The frame that the allocator hands out is one of those it has.
LEMMA SomeIn == ASSUME NEW S, S # {} PROVE Some(S) \in S
BY Zenon DEF Some

\* Processes exist, have a root that exists, and hold capabilities.
LEMMA ProcessRead ==
    ASSUME Shape
    PROVE  /\ \A p : Alive(p) <=> p \in Pid
           /\ \A p \in Pid : PidRoot(p) \in Roots
           /\ \A p : PidRoot(p) \in Roots \cup {None}
           /\ \A p \in Pid, s \in Slot : CapTarget(p, s) \in Cap
<1>1. MAX_PROCESSES \in Nat
  BY CapsConstants, Zenon
<1>2. \A p \in Pid : /\ table[p + 1].id = p /\ table[p + 1].root = p + 1
                    /\ table[p + 1].caps \in [Slot -> Cap]
  BY Zenon DEF Shape, Processes
<1>3. \A p : Alive(p) <=> p \in Pid
  <2>1. Len(table) = MAX_PROCESSES
    BY Zenon DEF Shape, Processes
  <2> QED
    BY <1>1, <1>2, <2>1, Zenon DEF Alive, Has, Pid
<1>4. \A p \in Pid : PidRoot(p) = p + 1
  BY <1>2, <1>3, Zenon DEF PidRoot
<1>5. \A p \in Pid : p + 1 \in Roots
  BY <1>1 DEF Pid, Roots
<1>6. \A p \in Pid, s \in Slot : CapTarget(p, s) \in Cap
  BY <1>2, <1>3, Zenon DEF CapTarget
<1>7. \A p : PidRoot(p) \in Roots \cup {None}
  BY <1>3, <1>4, <1>5, Zenon DEF PidRoot
<1> QED
  BY <1>3, <1>4, <1>5, <1>6, <1>7, Zenon

\* A capability names what its kind says.
LEMMA CapRead ==
    ASSUME NEW c \in Cap
    PROVE  /\ c[1] = "proc" => c[2] \in Pid
           /\ c[1] = "shm" => c[2] \in ShmId
           /\ c[1] = "page" => c[2] \in PageId
BY DEF Cap, NoCap, Proc, Shm, Page

\* The frames of a setup are numbers, and not None.
LEMMA FramesAre ==
    ASSUME Calm
    PROVE  setup.frames \subseteq Frame /\ setup.frames \subseteq Nat \ {DEV} /\ None \notin setup.frames
<1>1. setup.frames \subseteq Frame
  BY CapsConstants, Zenon DEF Calm
<1>2. Frame \subseteq Nat \ {DEV}
  BY CapsConstants, Zenon
<1>3. None \notin Nat
  BY DEF None
<1> QED
  BY <1>1, <1>2, <1>3, Zenon

\* The entry that a registry hands out is in range.
LEMMA NextIdIn ==
    ASSUME NEW R, NEW F, Registry(R, F), NEW m \in Nat, ~(Len(R) >= m)
    PROVE  NextId(R, F) \in 0..(m - 1)
<1>1. PICK S, U : R \in Seq(S) /\ F \in Seq(U)
  BY Zenon DEF Registry, Vec
<1>2. CASE F = <<>>
  BY <1>1, <1>2 DEF NextId
<1>3. CASE F # <<>>
  <2>1. NextId(R, F) = F[1] /\ 1 \in DOMAIN F
    BY <1>1, <1>3 DEF NextId
  <2>2. F[1] \in 0..(Len(R) - 1)
    BY <2>1, Zenon DEF Registry, Exact
  <2> QED
    BY <1>1, <2>1, <2>2
<1> QED
  BY <1>2, <1>3, Zenon

\* A call goes on, returns or begins, and what is known of it stays true.
LEMMA CallGoes ==
    ASSUME NEW h \in Hart, CallsOK, setup' = setup, NEW o, CallOK(o, setup.frames),
           op' = Set(op, h, o)
    PROVE  CallsOK'
BY Zenon DEF CallsOK, Set

\* A hart between two calls.
LEMMA DoneOK == ASSUME NEW F PROVE CallOK(Done, F)
BY Zenon DEF CallOK, Done, Mapping, Holding, Stripping, Pairing, None

\* The fields of a call that a step does not assign keep their values.
LEMMA WithFields ==
    ASSUME NEW o, DOMAIN o = DOMAIN Done, NEW r
    PROVE  LET f(x) == IF x \in DOMAIN r THEN r[x] ELSE o[x]
               n == With(o, r)
           IN  /\ DOMAIN n = DOMAIN Done
               /\ n.at = f("at") /\ n.p = f("p") /\ n.pslot = f("pslot") /\ n.va = f("va")
               /\ n.id = f("id") /\ n.peer = f("peer") /\ n.ra = f("ra") /\ n.rb = f("rb")
               /\ n.frame = f("frame") /\ n.then = f("then")
BY Zenon DEF With, Done

\* The ids in use are in range.
LEMMA IdsIn ==
    ASSUME Shape
    PROVE  /\ \A i : Has(shms, i) => i \in ShmId
           /\ \A i : Has(pages, i) => i \in PageId
<1>1. PICK S, T : shms \in Seq(S) /\ pages \in Seq(T)
  BY Zenon DEF Shape, Registries, Registry, Vec
<1>3. {MAX_SHMS, MAX_PAGES} \subseteq Nat
  BY CapsConstants, Zenon
<1>2. Len(shms) \in 0..MAX_SHMS /\ Len(pages) \in 0..MAX_PAGES
  <2>1. Len(shms) \in Nat /\ Len(pages) \in Nat
    BY <1>1
  <2> QED
    BY <2>1, <1>3 DEF Shape, Entries
<1> QED
  BY <1>2, <1>3 DEF Has, ShmId, PageId

\* The steps of a call that only advance.
Jumps == {<<"share_map_a", "share_map_b">>, <<"share_map_b", "share_enter">>,
          <<"share_enter", "share_undo">>, <<"share_grant_a", "share_grant_b">>,
          <<"grant_alive", "grant_dst">>, <<"grant_dst", "grant">>,
          <<"page_slot", "clear">>, <<"page_slot", "grant_back">>,
          <<"map_test", "map_paddr">>, <<"map", "map_record">>, <<"map_record", "map_undo">>,
          <<"connect_client", "connect_server">>, <<"connect_server", "clear">>}

\* A call that only advances.
LEMMA Jump ==
    ASSUME NEW o, NEW F, NEW a, CallOK(o, F), <<o.at, a>> \in Jumps
    PROVE  CallOK(With(o, [at |-> a]), F)
<1> DEFINE n == With(o, [at |-> a])
<1>1. DOMAIN o = DOMAIN Done
  BY Zenon DEF CallOK
<1>2. /\ DOMAIN n = DOMAIN Done
      /\ n.at = a /\ n.p = o.p /\ n.pslot = o.pslot /\ n.va = o.va /\ n.id = o.id
      /\ n.peer = o.peer /\ n.ra = o.ra /\ n.rb = o.rb /\ n.frame = o.frame /\ n.then = o.then
  BY <1>1, Zenon DEF With, Done
<1> SUFFICES CallOK(n, F)
  BY Zenon
<1> HIDE DEF n
<1> USE DEF Mapping, Holding, Stripping, Pairing
<1>3. CASE a \in {"share_map_b", "share_enter", "share_undo", "share_grant_b"}
  BY <1>2, <1>3, Zenon DEF CallOK, Jumps
<1>4. CASE a \in {"grant_dst", "grant", "clear", "grant_back", "connect_server"}
  BY <1>2, <1>4, Zenon DEF CallOK, Jumps
<1>5. CASE a \in {"map_paddr", "map_record", "map_undo"}
  BY <1>2, <1>5, Zenon DEF CallOK, Jumps
<1> QED
  BY <1>3, <1>4, <1>5, Zenon DEF Jumps

\* What a step reads keeps the call in order.
LEMMA StepCalls ==
    ASSUME NEW h \in Hart, Shape, setup' = setup, Step(h)
    PROVE  CallsOK'
<1> DEFINE o == op[h]
           F == setup.frames
<1> USE DEF Mapping, Holding, Stripping, Pairing
<1>1. CallOK(o, F) /\ CallsOK /\ DOMAIN o = DOMAIN Done
  BY Zenon DEF Shape, CallsOK, CallOK
<1>2. ASSUME NEW r, Goto(h, r), CallOK(With(o, r), F) PROVE CallsOK'
  BY <1>1, <1>2, CallGoes, Zenon DEF Goto
<1>3. CASE Return(h)
  BY <1>1, <1>3, CallGoes, DoneOK, Zenon DEF Return
<1>4. CASE Resume(h) /\ At(h, "strip") /\ o.frame = None
  <2> DEFINE r == [at |-> o.then, then |-> "idle"]
  <2>1. CASE o.then # "idle"
    <3>1. CallOK(With(o, r), F)
      BY <1>1, <1>4, <2>1, WithFields DEF CallOK, Done, At
    <3> QED
      BY <1>2, <1>4, <2>1, <3>1, Zenon DEF Resume
  <2> QED
    BY <1>3, <1>4, <2>1, Zenon DEF Resume
<1>5. CASE Resume(h) /\ At(h, "revoke")
  <2> DEFINE r == [at |-> o.then, then |-> "idle"]
  <2>1. CASE o.then # "idle"
    <3>1. CallOK(With(o, r), F)
      BY <1>1, <1>5, <2>1, WithFields DEF CallOK, Done, At
    <3> QED
      BY <1>2, <1>5, <2>1, <3>1, Zenon DEF Resume
  <2> QED
    BY <1>3, <1>5, <2>1, Zenon DEF Resume
<1>6. CASE ClearCap(h) \/ Revoked(h) \/ PoolSlot(h) \/ MapUndo(h) \/ Claim(h)
  BY <1>3, <1>5, <1>6, Zenon DEF ClearCap, Revoked, PoolSlot, MapUndo, Claim
<1>7. CASE Invalidate(h) \/ Teardown(h)
  BY <1>1, <1>7, Zenon DEF Invalidate, Teardown, At, CallOK
<1>8. CASE Revoke(h)
  <2>1. CASE Goto(h, [todo |-> Tail(o.todo)])
    <3>1. o.at = "revoke"
      BY <1>8, Zenon DEF Revoke, At
    <3> DEFINE n == With(o, [todo |-> Tail(o.todo)])
    <3>2. /\ DOMAIN n = DOMAIN Done
          /\ n.at = o.at /\ n.p = o.p /\ n.pslot = o.pslot /\ n.va = o.va /\ n.id = o.id
          /\ n.peer = o.peer /\ n.ra = o.ra /\ n.rb = o.rb /\ n.frame = o.frame
          /\ n.then = o.then
      BY <1>1, Zenon DEF With, Done
    <3> HIDE DEF n
    <3>3. CallOK(n, F)
      BY <1>1, <3>1, <3>2, Zenon DEF CallOK
    <3> QED
      BY <1>2, <2>1, <3>3, Zenon DEF n
  <2>2. CASE Goto(h, [at |-> "strip", todo |-> Tail(o.todo),
                    strip |-> Strip(Head(o.todo)), frame |-> Entry(Head(o.todo)).paddr])
             /\ Valid(Head(o.todo))
    <3>1. o.at = "revoke"
      BY <1>8, Zenon DEF Revoke, At
    <3>2. Entry(Head(o.todo)).paddr \in F
      BY <2>2, Zenon DEF Shape, Entries, ShmOK, PageOK, Valid, Entry
    <3> DEFINE n == With(o, [at |-> "strip", todo |-> Tail(o.todo),
                    strip |-> Strip(Head(o.todo)), frame |-> Entry(Head(o.todo)).paddr])
    <3>3. /\ DOMAIN n = DOMAIN Done
          /\ n.at = "strip" /\ n.p = o.p /\ n.pslot = o.pslot /\ n.va = o.va
          /\ n.id = o.id /\ n.peer = o.peer /\ n.ra = o.ra /\ n.rb = o.rb
          /\ n.frame = Entry(Head(o.todo)).paddr /\ n.then = o.then
      BY <1>1, Zenon DEF With, Done
    <3> HIDE DEF n
    <3>4. CallOK(n, F)
      BY <1>1, <3>1, <3>2, <3>3, Zenon DEF CallOK
    <3> QED
      BY <1>2, <2>2, <3>4, Zenon DEF n
  <2> QED
    BY <1>3, <1>8, <2>1, <2>2, Zenon DEF Revoke
<1>9. CASE StripRoot(h)
  <2>1. CASE Goto(h, [at |-> IF PidRoot(Head(o.strip).p) = None
                           THEN "strip_clear" ELSE "strip_unmap",
                    ra |-> PidRoot(Head(o.strip).p)])
    <3>1. o.at = "strip"
      BY <1>9, Zenon DEF StripRoot, At
    <3>2. PidRoot(Head(o.strip).p) \in Roots \cup {None}
      BY ProcessRead, Zenon
    <3> DEFINE n == With(o, [at |-> IF PidRoot(Head(o.strip).p) = None
                           THEN "strip_clear" ELSE "strip_unmap",
                    ra |-> PidRoot(Head(o.strip).p)])
    <3>3. /\ DOMAIN n = DOMAIN Done
          
          /\ n.at = (IF PidRoot(Head(o.strip).p) = None THEN "strip_clear" ELSE "strip_unmap")
          /\ n.p = o.p /\ n.pslot = o.pslot /\ n.va = o.va /\ n.id = o.id
          /\ n.peer = o.peer /\ n.ra = PidRoot(Head(o.strip).p) /\ n.rb = o.rb
          /\ n.frame = o.frame /\ n.then = o.then
      BY <1>1, Zenon DEF With, Done
    <3> HIDE DEF n
    <3>4. CallOK(n, F)
      BY <1>1, <3>1, <3>2, <3>3, Zenon DEF CallOK
    <3> QED
      BY <1>2, <2>1, <3>4, Zenon DEF n
  <2> QED
    BY <1>9, <2>1, Zenon DEF StripRoot
<1>10. CASE StripUnmap(h)
  <2>1. CASE Goto(h, [at |-> "strip_clear", ra |-> None])
    <3>1. o.at = "strip_unmap"
      BY <1>10, Zenon DEF StripUnmap, At
    <3> DEFINE n == With(o, [at |-> "strip_clear", ra |-> None])
    <3>2. /\ DOMAIN n = DOMAIN Done
          /\ n.at = "strip_clear" /\ n.p = o.p /\ n.pslot = o.pslot /\ n.va = o.va
          /\ n.id = o.id /\ n.peer = o.peer /\ n.ra = None /\ n.rb = o.rb
          /\ n.frame = o.frame /\ n.then = o.then
      BY <1>1, Zenon DEF With, Done
    <3> HIDE DEF n
    <3>3. CallOK(n, F)
      BY <1>1, <3>1, <3>2, Zenon DEF CallOK
    <3> QED
      BY <1>2, <2>1, <3>3, Zenon DEF n
  <2> QED
    BY <1>10, <2>1, Zenon DEF StripUnmap
<1>11. CASE StripClear(h)
  <2>1. CASE Goto(h, [at |-> "strip", strip |-> Tail(o.strip)])
    <3>1. o.at = "strip_clear"
      BY <1>11, Zenon DEF StripClear, At
    <3> DEFINE n == With(o, [at |-> "strip", strip |-> Tail(o.strip)])
    <3>2. /\ DOMAIN n = DOMAIN Done
          /\ n.at = "strip" /\ n.p = o.p /\ n.pslot = o.pslot /\ n.va = o.va
          /\ n.id = o.id /\ n.peer = o.peer /\ n.ra = o.ra /\ n.rb = o.rb
          /\ n.frame = o.frame /\ n.then = o.then
      BY <1>1, Zenon DEF With, Done
    <3> HIDE DEF n
    <3>3. CallOK(n, F)
      BY <1>1, <3>1, <3>2, Zenon DEF CallOK
    <3> QED
      BY <1>2, <2>1, <3>3, Zenon DEF n
  <2> QED
    BY <1>11, <2>1, Zenon DEF StripClear
<1>12. CASE Stripped(h)
  <2>1. CASE Goto(h, [at |-> "revoke", frame |-> None]) /\ o.frame # None
    <3>1. o.at = "strip"
      BY <1>12, Zenon DEF Stripped, At
    <3> DEFINE n == With(o, [at |-> "revoke", frame |-> None])
    <3>2. /\ DOMAIN n = DOMAIN Done
          /\ n.at = "revoke" /\ n.p = o.p /\ n.pslot = o.pslot /\ n.va = o.va
          /\ n.id = o.id /\ n.peer = o.peer /\ n.ra = o.ra /\ n.rb = o.rb
          /\ n.frame = None /\ n.then = o.then
      BY <1>1, Zenon DEF With, Done
    <3> HIDE DEF n
    <3>3. CallOK(n, F)
      BY <1>1, <3>1, <3>2, Zenon DEF CallOK
    <3> QED
      BY <1>2, <2>1, <3>3, Zenon DEF n
  <2> QED
    BY <1>4, <1>12, <2>1, Zenon DEF Stripped
<1>13. CASE ShareRootB(h)
  <2>1. CASE Goto(h, [at |-> "share_root_a", rb |-> PidRoot(o.peer)])
    <3>1. o.at = "share_root_b"
      BY <1>13, Zenon DEF ShareRootB, At
    <3>2. o.peer \in Pid
      BY <1>1, <1>13, Zenon DEF CallOK, ShareRootB, At
    <3>3. PidRoot(o.peer) \in Roots
      BY <3>2, ProcessRead, Zenon
    <3> DEFINE n == With(o, [at |-> "share_root_a", rb |-> PidRoot(o.peer)])
    <3>4. /\ DOMAIN n = DOMAIN Done
          /\ n.at = "share_root_a" /\ n.p = o.p /\ n.pslot = o.pslot /\ n.va = o.va
          /\ n.id = o.id /\ n.peer = o.peer /\ n.ra = o.ra /\ n.rb = PidRoot(o.peer)
          /\ n.frame = o.frame /\ n.then = o.then
      BY <1>1, Zenon DEF With, Done
    <3> HIDE DEF n
    <3>5. CallOK(n, F)
      BY <1>1, <3>1, <3>2, <3>3, <3>4, Zenon DEF CallOK
    <3> QED
      BY <1>2, <2>1, <3>5, Zenon DEF n
  <2> QED
    BY <1>3, <1>13, <2>1, Zenon DEF ShareRootB
<1>14. CASE ShareRootA(h)
  <2>1. CASE Goto(h, [at |-> "share_alloc", ra |-> PidRoot(o.p)])
    <3>1. o.at = "share_root_a"
      BY <1>14, Zenon DEF ShareRootA, At
    <3>2. o.p \in Pid
      BY <1>1, <1>14, Zenon DEF CallOK, ShareRootA, At
    <3>3. PidRoot(o.p) \in Roots
      BY <3>2, ProcessRead, Zenon
    <3> DEFINE n == With(o, [at |-> "share_alloc", ra |-> PidRoot(o.p)])
    <3>4. /\ DOMAIN n = DOMAIN Done
          /\ n.at = "share_alloc" /\ n.p = o.p /\ n.pslot = o.pslot /\ n.va = o.va
          /\ n.id = o.id /\ n.peer = o.peer /\ n.ra = PidRoot(o.p) /\ n.rb = o.rb
          /\ n.frame = o.frame /\ n.then = o.then
      BY <1>1, Zenon DEF With, Done
    <3> HIDE DEF n
    <3>5. CallOK(n, F)
      BY <1>1, <3>1, <3>2, <3>3, <3>4, Zenon DEF CallOK
    <3> QED
      BY <1>2, <2>1, <3>5, Zenon DEF n
  <2> QED
    BY <1>3, <1>14, <2>1, Zenon DEF ShareRootA
<1>15. CASE ShareAlloc(h)
  <2>1. CASE Goto(h, [at |-> "share_map_a", frame |-> Some(avail)]) /\ avail # {}
    <3>1. o.at = "share_alloc"
      BY <1>15, Zenon DEF ShareAlloc, At
    <3>2. avail \subseteq F /\ avail \subseteq Nat
      BY FramesAre, Zenon DEF Shape, Memory
    <3>3. Some(avail) \in F
      BY <2>1, <3>2, SomeIn, Zenon
    <3> DEFINE n == With(o, [at |-> "share_map_a", frame |-> Some(avail)])
    <3>4. /\ DOMAIN n = DOMAIN Done
          /\ n.at = "share_map_a" /\ n.p = o.p /\ n.pslot = o.pslot /\ n.va = o.va
          /\ n.id = o.id /\ n.peer = o.peer /\ n.ra = o.ra /\ n.rb = o.rb
          /\ n.frame = Some(avail) /\ n.then = o.then
      BY <1>1, Zenon DEF With, Done
    <3> HIDE DEF n
    <3>5. CallOK(n, F)
      BY <1>1, <3>1, <3>2, <3>3, <3>4, Zenon DEF CallOK
    <3> QED
      BY <1>2, <2>1, <3>5, Zenon DEF n
  <2> QED
    BY <1>3, <1>15, <2>1, Zenon DEF ShareAlloc
<1>16. CASE ShareMapA(h)
  <2>1. CASE Goto(h, [at |-> "share_map_b"])
    <3>1. o.at = "share_map_a"
      BY <1>16, Zenon DEF ShareMapA, At
    <3>2. CallOK(With(o, [at |-> "share_map_b"]), F)
      BY <1>1, <3>1, Jump, Zenon DEF Jumps
    <3> QED
      BY <1>2, <2>1, <3>2, Zenon
  <2>2. CASE Goto(h, [at |-> "share_undo", ra |-> None, rb |-> None])
    <3>1. o.at = "share_map_a"
      BY <1>16, Zenon DEF ShareMapA, At
    <3> DEFINE n == With(o, [at |-> "share_undo", ra |-> None, rb |-> None])
    <3>2. /\ DOMAIN n = DOMAIN Done
          /\ n.at = "share_undo" /\ n.p = o.p /\ n.pslot = o.pslot /\ n.va = o.va
          /\ n.id = o.id /\ n.peer = o.peer /\ n.ra = None /\ n.rb = None
          /\ n.frame = o.frame /\ n.then = o.then
      BY <1>1, Zenon DEF With, Done
    <3> HIDE DEF n
    <3>3. CallOK(n, F)
      BY <1>1, <3>1, <3>2, Zenon DEF CallOK
    <3> QED
      BY <1>2, <2>2, <3>3, Zenon DEF n
  <2> QED
    BY <1>16, <2>1, <2>2, Zenon DEF ShareMapA
<1>17. CASE ShareMapB(h)
  <2>1. CASE Goto(h, [at |-> "share_enter"])
    <3>1. o.at = "share_map_b"
      BY <1>17, Zenon DEF ShareMapB, At
    <3>2. CallOK(With(o, [at |-> "share_enter"]), F)
      BY <1>1, <3>1, Jump, Zenon DEF Jumps
    <3> QED
      BY <1>2, <2>1, <3>2, Zenon
  <2>2. CASE Goto(h, [at |-> "share_undo", rb |-> None])
    <3>1. o.at = "share_map_b"
      BY <1>17, Zenon DEF ShareMapB, At
    <3> DEFINE n == With(o, [at |-> "share_undo", rb |-> None])
    <3>2. /\ DOMAIN n = DOMAIN Done
          /\ n.at = "share_undo" /\ n.p = o.p /\ n.pslot = o.pslot /\ n.va = o.va
          /\ n.id = o.id /\ n.peer = o.peer /\ n.ra = o.ra /\ n.rb = None
          /\ n.frame = o.frame /\ n.then = o.then
      BY <1>1, Zenon DEF With, Done
    <3> HIDE DEF n
    <3>3. CallOK(n, F)
      BY <1>1, <3>1, <3>2, Zenon DEF CallOK
    <3> QED
      BY <1>2, <2>2, <3>3, Zenon DEF n
  <2> QED
    BY <1>17, <2>1, <2>2, Zenon DEF ShareMapB
<1>18. CASE ShareEnter(h)
  <2>1. CASE Goto(h, [at |-> "share_undo"])
    <3>1. o.at = "share_enter"
      BY <1>18, Zenon DEF ShareEnter, At
    <3>2. CallOK(With(o, [at |-> "share_undo"]), F)
      BY <1>1, <3>1, Jump, Zenon DEF Jumps
    <3> QED
      BY <1>2, <2>1, <3>2, Zenon
  <2>2. CASE Goto(h, [at |-> "share_grant_a", id |-> NextId(shms, shm_free),
                    frame |-> None, ra |-> None, rb |-> None])
             /\ ~(Len(shms) >= MAX_SHMS)
    <3>1. o.at = "share_enter"
      BY <1>18, Zenon DEF ShareEnter, At
    <3>2. NextId(shms, shm_free) \in ShmId
      BY <2>2, CapsConstants, NextIdIn, Zenon DEF Shape, Registries, ShmId
    <3> DEFINE n == With(o, [at |-> "share_grant_a", id |-> NextId(shms, shm_free),
                    frame |-> None, ra |-> None, rb |-> None])
    <3>3. /\ DOMAIN n = DOMAIN Done
          /\ n.at = "share_grant_a" /\ n.p = o.p /\ n.pslot = o.pslot /\ n.va = o.va
          /\ n.id = NextId(shms, shm_free) /\ n.peer = o.peer /\ n.ra = None
          /\ n.rb = None /\ n.frame = None /\ n.then = o.then
      BY <1>1, Zenon DEF With, Done
    <3> HIDE DEF n
    <3>4. CallOK(n, F)
      BY <1>1, <3>1, <3>2, <3>3, Zenon DEF CallOK
    <3> QED
      BY <1>2, <2>2, <3>4, Zenon DEF n
  <2> QED
    BY <1>18, <2>1, <2>2, Zenon DEF ShareEnter
<1>19. CASE ShareUndo(h)
  <2>1. CASE Goto(h, [ra |-> o.rb, rb |-> None])
    <3>1. o.at = "share_undo"
      BY <1>19, Zenon DEF ShareUndo, At
    <3> DEFINE n == With(o, [ra |-> o.rb, rb |-> None])
    <3>2. /\ DOMAIN n = DOMAIN Done
          /\ n.at = o.at /\ n.p = o.p /\ n.pslot = o.pslot /\ n.va = o.va /\ n.id = o.id
          /\ n.peer = o.peer /\ n.ra = o.rb /\ n.rb = None /\ n.frame = o.frame
          /\ n.then = o.then
      BY <1>1, Zenon DEF With, Done
    <3> HIDE DEF n
    <3>3. CallOK(n, F)
      BY <1>1, <3>1, <3>2, Zenon DEF CallOK
    <3> QED
      BY <1>2, <2>1, <3>3, Zenon DEF n
  <2> QED
    BY <1>3, <1>19, <2>1, Zenon DEF ShareUndo
<1>20. CASE ShareGrantA(h)
  <2>1. CASE Goto(h, [at |-> "revoke", todo |-> <<Shm(o.id)>>])
    <3>1. o.at = "share_grant_a"
      BY <1>20, Zenon DEF ShareGrantA, At, ShareGrant
    <3> DEFINE n == With(o, [at |-> "revoke", todo |-> <<Shm(o.id)>>])
    <3>2. /\ DOMAIN n = DOMAIN Done
          /\ n.at = "revoke" /\ n.p = o.p /\ n.pslot = o.pslot /\ n.va = o.va
          /\ n.id = o.id /\ n.peer = o.peer /\ n.ra = o.ra /\ n.rb = o.rb
          /\ n.frame = o.frame /\ n.then = o.then
      BY <1>1, Zenon DEF With, Done
    <3> HIDE DEF n
    <3>3. CallOK(n, F)
      BY <1>1, <3>1, <3>2, Zenon DEF CallOK
    <3> QED
      BY <1>2, <2>1, <3>3, Zenon DEF n
  <2>2. CASE Goto(h, [at |-> "share_grant_b"])
    <3>1. o.at = "share_grant_a"
      BY <1>20, Zenon DEF ShareGrantA, At, ShareGrant
    <3>2. CallOK(With(o, [at |-> "share_grant_b"]), F)
      BY <1>1, <3>1, Jump, Zenon DEF Jumps
    <3> QED
      BY <1>2, <2>2, <3>2, Zenon
  <2> QED
    BY <1>3, <1>20, <2>1, <2>2, Zenon DEF ShareGrantA, ShareGrant
<1>21. CASE ShareGrantB(h)
  <2>1. CASE Goto(h, [at |-> "revoke", todo |-> <<Shm(o.id)>>])
    <3>1. o.at = "share_grant_b"
      BY <1>21, Zenon DEF ShareGrantB, At, ShareGrant
    <3> DEFINE n == With(o, [at |-> "revoke", todo |-> <<Shm(o.id)>>])
    <3>2. /\ DOMAIN n = DOMAIN Done
          /\ n.at = "revoke" /\ n.p = o.p /\ n.pslot = o.pslot /\ n.va = o.va
          /\ n.id = o.id /\ n.peer = o.peer /\ n.ra = o.ra /\ n.rb = o.rb
          /\ n.frame = o.frame /\ n.then = o.then
      BY <1>1, Zenon DEF With, Done
    <3> HIDE DEF n
    <3>3. CallOK(n, F)
      BY <1>1, <3>1, <3>2, Zenon DEF CallOK
    <3> QED
      BY <1>2, <2>1, <3>3, Zenon DEF n
  <2> QED
    BY <1>3, <1>21, <2>1, Zenon DEF ShareGrantB, ShareGrant
<1>22. CASE PageEnter(h)
  <2>1. CASE Goto(h, [at |-> "pool_slot", id |-> NextId(pages, page_free),
                    frame |-> None])
             /\ ~(Len(pages) >= MAX_PAGES)
    <3>1. o.at = "page_enter"
      BY <1>22, Zenon DEF PageEnter, At
    <3>2. NextId(pages, page_free) \in PageId
      BY <2>1, CapsConstants, NextIdIn, Zenon DEF Shape, Registries, PageId
    <3> DEFINE n == With(o, [at |-> "pool_slot", id |-> NextId(pages, page_free),
                    frame |-> None])
    <3>3. /\ DOMAIN n = DOMAIN Done
          /\ n.at = "pool_slot" /\ n.p = o.p /\ n.pslot = o.pslot /\ n.va = o.va
          /\ n.id = NextId(pages, page_free) /\ n.peer = o.peer /\ n.ra = o.ra
          /\ n.rb = o.rb /\ n.frame = None /\ n.then = o.then
      BY <1>1, Zenon DEF With, Done
    <3> HIDE DEF n
    <3>4. CallOK(n, F)
      BY <1>1, <3>1, <3>2, <3>3, Zenon DEF CallOK
    <3> QED
      BY <1>2, <2>1, <3>4, Zenon DEF n
  <2> QED
    BY <1>3, <1>22, <2>1, Zenon DEF PageEnter
<1>23. CASE GrantPeer(h)
  <2>1. CASE Goto(h, [at |-> "grant_alive", peer |-> CapTarget(o.p, o.pslot)[2],
                    pslot |-> None])
             /\ CapTarget(o.p, o.pslot)[1] = "proc"
    <3>1. o.at = "grant_peer"
      BY <1>23, Zenon DEF GrantPeer, At
    <3>2. o.p \in Pid /\ o.pslot \in Slot
      BY <1>1, <1>23, Zenon DEF CallOK, GrantPeer, At
    <3>3. CapTarget(o.p, o.pslot) \in Cap
      BY <3>2, ProcessRead, Zenon
    <3>4. CapTarget(o.p, o.pslot)[2] \in Pid
      BY <2>1, <3>3, CapRead, Zenon
    <3> DEFINE n == With(o, [at |-> "grant_alive", peer |-> CapTarget(o.p, o.pslot)[2],
                    pslot |-> None])
    <3>5. /\ DOMAIN n = DOMAIN Done
          /\ n.at = "grant_alive" /\ n.p = o.p /\ n.pslot = None /\ n.va = o.va
          /\ n.id = o.id /\ n.peer = CapTarget(o.p, o.pslot)[2] /\ n.ra = o.ra
          /\ n.rb = o.rb /\ n.frame = o.frame /\ n.then = o.then
      BY <1>1, Zenon DEF With, Done
    <3> HIDE DEF n
    <3>6. CallOK(n, F)
      BY <1>1, <3>1, <3>2, <3>3, <3>4, <3>5, Zenon DEF CallOK
    <3> QED
      BY <1>2, <2>1, <3>6, Zenon DEF n
  <2> QED
    BY <1>3, <1>23, <2>1, Zenon DEF GrantPeer
<1>24. CASE GrantAlive(h)
  <2>1. CASE Goto(h, [at |-> "grant_dst"])
    <3>1. o.at = "grant_alive"
      BY <1>24, Zenon DEF GrantAlive, At
    <3>2. CallOK(With(o, [at |-> "grant_dst"]), F)
      BY <1>1, <3>1, Jump, Zenon DEF Jumps
    <3> QED
      BY <1>2, <2>1, <3>2, Zenon
  <2> QED
    BY <1>3, <1>24, <2>1, Zenon DEF GrantAlive
<1>25. CASE GrantDst(h)
  <2>1. CASE Goto(h, [at |-> "grant"])
    <3>1. o.at = "grant_dst"
      BY <1>25, Zenon DEF GrantDst, At
    <3>2. CallOK(With(o, [at |-> "grant"]), F)
      BY <1>1, <3>1, Jump, Zenon DEF Jumps
    <3> QED
      BY <1>2, <2>1, <3>2, Zenon
  <2> QED
    BY <1>3, <1>25, <2>1, Zenon DEF GrantDst
<1>26. CASE Grant(h)
  <2>1. CASE Goto(h, [at |-> "strip", strip |-> Strip(Page(o.id)), then |-> "page_slot"]) /\ Has(pages, o.id)
    <3>1. o.at = "grant"
      BY <1>26, Zenon DEF Grant, At, GrantTo
    <3>2. o.id \in PageId
      BY <2>1, IdsIn, Zenon
    <3> DEFINE n == With(o, [at |-> "strip", strip |-> Strip(Page(o.id)), then |-> "page_slot"])
    <3>3. /\ DOMAIN n = DOMAIN Done
          /\ n.at = "strip" /\ n.p = o.p /\ n.pslot = o.pslot /\ n.va = o.va
          /\ n.id = o.id /\ n.peer = o.peer /\ n.ra = o.ra /\ n.rb = o.rb
          /\ n.frame = o.frame /\ n.then = "page_slot"
      BY <1>1, Zenon DEF With, Done
    <3> HIDE DEF n
    <3>4. CallOK(n, F)
      BY <1>1, <3>1, <3>2, <3>3, Zenon DEF CallOK
    <3> QED
      BY <1>2, <2>1, <3>4, Zenon DEF n
  <2> QED
    BY <1>3, <1>26, <2>1, Zenon DEF Grant, GrantTo
<1>27. CASE GrantBack(h)
  <2>1. CASE Goto(h, [at |-> "strip", strip |-> Strip(Page(o.id)), then |-> "idle"])
    <3>1. o.at = "grant_back"
      BY <1>27, Zenon DEF GrantBack, At, GrantTo
    <3> DEFINE n == With(o, [at |-> "strip", strip |-> Strip(Page(o.id)), then |-> "idle"])
    <3>2. /\ DOMAIN n = DOMAIN Done
          /\ n.at = "strip" /\ n.p = o.p /\ n.pslot = o.pslot /\ n.va = o.va
          /\ n.id = o.id /\ n.peer = o.peer /\ n.ra = o.ra /\ n.rb = o.rb
          /\ n.frame = o.frame /\ n.then = "idle"
      BY <1>1, Zenon DEF With, Done
    <3> HIDE DEF n
    <3>3. CallOK(n, F)
      BY <1>1, <3>1, <3>2, Zenon DEF CallOK
    <3> QED
      BY <1>2, <2>1, <3>3, Zenon DEF n
  <2> QED
    BY <1>3, <1>27, <2>1, Zenon DEF GrantBack, GrantTo
<1>28. CASE PageSlot(h)
  <2>1. CASE Goto(h, [at |-> "clear"])
    <3>1. o.at = "page_slot"
      BY <1>28, Zenon DEF PageSlot, At
    <3>2. CallOK(With(o, [at |-> "clear"]), F)
      BY <1>1, <3>1, Jump, Zenon DEF Jumps
    <3> QED
      BY <1>2, <2>1, <3>2, Zenon
  <2>2. CASE Goto(h, [at |-> "grant_back"])
    <3>1. o.at = "page_slot"
      BY <1>28, Zenon DEF PageSlot, At
    <3>2. CallOK(With(o, [at |-> "grant_back"]), F)
      BY <1>1, <3>1, Jump, Zenon DEF Jumps
    <3> QED
      BY <1>2, <2>2, <3>2, Zenon
  <2> QED
    BY <1>28, <2>1, <2>2, Zenon DEF PageSlot
<1>29. CASE MapTest(h)
  <2>1. CASE Goto(h, [at |-> "map_paddr"])
    <3>1. o.at = "map_test"
      BY <1>29, Zenon DEF MapTest, At
    <3>2. CallOK(With(o, [at |-> "map_paddr"]), F)
      BY <1>1, <3>1, Jump, Zenon DEF Jumps
    <3> QED
      BY <1>2, <2>1, <3>2, Zenon
  <2> QED
    BY <1>3, <1>29, <2>1, Zenon DEF MapTest
<1>30. CASE MapPaddr(h)
  <2>1. CASE Goto(h, [at |-> "map_root", frame |-> pages[o.id + 1].paddr]) /\ Has(pages, o.id)
    <3>1. o.at = "map_paddr"
      BY <1>30, Zenon DEF MapPaddr, At
    <3>2. pages[o.id + 1].paddr \in F
      BY <2>1, Zenon DEF Shape, Entries, PageOK
    <3> DEFINE n == With(o, [at |-> "map_root", frame |-> pages[o.id + 1].paddr])
    <3>3. /\ DOMAIN n = DOMAIN Done
          /\ n.at = "map_root" /\ n.p = o.p /\ n.pslot = o.pslot /\ n.va = o.va
          /\ n.id = o.id /\ n.peer = o.peer /\ n.ra = o.ra /\ n.rb = o.rb
          /\ n.frame = pages[o.id + 1].paddr /\ n.then = o.then
      BY <1>1, Zenon DEF With, Done
    <3> HIDE DEF n
    <3>4. CallOK(n, F)
      BY <1>1, <3>1, <3>2, <3>3, Zenon DEF CallOK
    <3> QED
      BY <1>2, <2>1, <3>4, Zenon DEF n
  <2> QED
    BY <1>3, <1>30, <2>1, Zenon DEF MapPaddr
<1>31. CASE MapRoot(h)
  <2>1. CASE Goto(h, [at |-> "map", ra |-> PidRoot(o.p)])
    <3>1. o.at = "map_root"
      BY <1>31, Zenon DEF MapRoot, At
    <3>2. o.p \in Pid
      BY <1>1, <1>31, Zenon DEF CallOK, MapRoot, At
    <3>3. PidRoot(o.p) \in Roots
      BY <3>2, ProcessRead, Zenon
    <3> DEFINE n == With(o, [at |-> "map", ra |-> PidRoot(o.p)])
    <3>4. /\ DOMAIN n = DOMAIN Done
          /\ n.at = "map" /\ n.p = o.p /\ n.pslot = o.pslot /\ n.va = o.va /\ n.id = o.id
          /\ n.peer = o.peer /\ n.ra = PidRoot(o.p) /\ n.rb = o.rb /\ n.frame = o.frame
          /\ n.then = o.then
      BY <1>1, Zenon DEF With, Done
    <3> HIDE DEF n
    <3>5. CallOK(n, F)
      BY <1>1, <3>1, <3>2, <3>3, <3>4, Zenon DEF CallOK
    <3> QED
      BY <1>2, <2>1, <3>5, Zenon DEF n
  <2> QED
    BY <1>3, <1>31, <2>1, Zenon DEF MapRoot
<1>32. CASE Map(h)
  <2>1. CASE Goto(h, [at |-> "map_record"])
    <3>1. o.at = "map"
      BY <1>32, Zenon DEF Map, At
    <3>2. CallOK(With(o, [at |-> "map_record"]), F)
      BY <1>1, <3>1, Jump, Zenon DEF Jumps
    <3> QED
      BY <1>2, <2>1, <3>2, Zenon
  <2> QED
    BY <1>3, <1>32, <2>1, Zenon DEF Map
<1>33. CASE MapRecord(h)
  <2>1. CASE Goto(h, [at |-> "map_undo"])
    <3>1. o.at = "map_record"
      BY <1>33, Zenon DEF MapRecord, At
    <3>2. CallOK(With(o, [at |-> "map_undo"]), F)
      BY <1>1, <3>1, Jump, Zenon DEF Jumps
    <3> QED
      BY <1>2, <2>1, <3>2, Zenon
  <2> QED
    BY <1>3, <1>33, <2>1, Zenon DEF MapRecord
<1>34. CASE ConnectClient(h)
  <2>1. CASE Goto(h, [at |-> "connect_server"])
    <3>1. o.at = "connect_client"
      BY <1>34, Zenon DEF ConnectClient, At
    <3>2. CallOK(With(o, [at |-> "connect_server"]), F)
      BY <1>1, <3>1, Jump, Zenon DEF Jumps
    <3> QED
      BY <1>2, <2>1, <3>2, Zenon
  <2> QED
    BY <1>3, <1>34, <2>1, Zenon DEF ConnectClient
<1>35. CASE ConnectServer(h)
  <2>1. CASE Goto(h, [at |-> "clear"])
    <3>1. o.at = "connect_server"
      BY <1>35, Zenon DEF ConnectServer, At
    <3>2. CallOK(With(o, [at |-> "clear"]), F)
      BY <1>1, <3>1, Jump, Zenon DEF Jumps
    <3> QED
      BY <1>2, <2>1, <3>2, Zenon
  <2> QED
    BY <1>3, <1>35, <2>1, Zenon DEF ConnectServer
<1> QED
  BY <1>6, <1>7, <1>8, <1>9, <1>10, <1>11, <1>12, <1>13, <1>14, <1>15, <1>16, <1>17,
     <1>18, <1>19, <1>20, <1>21, <1>22, <1>23, <1>24, <1>25, <1>26, <1>27, <1>28, <1>29,
     <1>30, <1>31, <1>32, <1>33, <1>34, <1>35, Zenon
     DEF Step

\* The setup never changes.
LEMMA SetupKept == [Next]_vars => setup' = setup
<1> USE DEF memory
<1>1. ASSUME NEW h \in Hart, Step(h) PROVE setup' = setup
  <2>1. CASE \/ ClearCap(h) \/ Invalidate(h) \/ Teardown(h) \/ Revoke(h) \/ Revoked(h)
             \/ StripRoot(h) \/ StripUnmap(h) \/ StripClear(h) \/ Stripped(h)
             \/ ShareRootB(h) \/ ShareRootA(h) \/ ShareAlloc(h)
    BY <2>1, Zenon DEF ClearCap, Invalidate, Teardown, Revoke, Revoked, StripRoot, StripUnmap,
       StripClear, Stripped, ShareRootB, ShareRootA, ShareAlloc
  <2>2. CASE \/ ShareMapA(h) \/ ShareMapB(h) \/ ShareEnter(h) \/ ShareUndo(h)
             \/ ShareGrantA(h) \/ ShareGrantB(h) \/ PageEnter(h) \/ PoolSlot(h)
             \/ GrantPeer(h) \/ GrantAlive(h) \/ GrantDst(h) \/ Grant(h)
    BY <2>2, Zenon DEF ShareMapA, ShareMapB, ShareEnter, ShareUndo, ShareGrantA, ShareGrantB,
       ShareGrant, PageEnter, PoolSlot, GrantPeer, GrantAlive, GrantDst, Grant
  <2>3. CASE \/ PageSlot(h) \/ GrantBack(h) \/ MapTest(h) \/ MapPaddr(h) \/ MapRoot(h)
             \/ Map(h) \/ MapRecord(h) \/ MapUndo(h)
             \/ ConnectClient(h) \/ ConnectServer(h) \/ Claim(h)
    BY <2>3, Zenon DEF PageSlot, GrantBack, MapTest, MapPaddr, MapRoot, Map, MapRecord, MapUndo,
       ConnectClient, ConnectServer, Claim
  <2> QED
    BY <1>1, <2>1, <2>2, <2>3, Zenon DEF Step
<1>2. ASSUME NEW h \in Hart, NEW p \in Pid, Call(h, p) PROVE setup' = setup
  BY <1>2, Zenon DEF Call, CapRevoke, PageAlloc, CapDup, ShmMap, MemGrant, MemMap, Register,
     Connect, MapDevice, Destroy
<1> QED
  BY <1>1, <1>2, Zenon DEF Next, Create, vars

\* A call begins with arguments that are in order.
LEMMA CallCalls ==
    ASSUME NEW h \in Hart, NEW p \in Pid, Shape, setup' = setup, Call(h, p)
    PROVE  CallsOK'
<1> DEFINE F == setup.frames
           d == [Done EXCEPT !.p = p]
<1> USE DEF Mapping, Holding, Stripping, Pairing
<1>1. CallsOK
  BY Zenon DEF Shape
<1>2. ASSUME NEW r, Begin(h, p, r), CallOK(With(d, r), F) PROVE CallsOK'
  BY <1>1, <1>2, CallGoes, Zenon DEF Begin
<1>3. CASE op' = op
  BY <1>1, <1>3, Zenon DEF CallsOK
<1>4. ASSUME NEW s \in Slot
      PROVE  /\ CapTarget(p, s)[1] = "proc" => CapTarget(p, s)[2] \in Pid
             /\ CapTarget(p, s)[1] = "page" => CapTarget(p, s)[2] \in PageId
  BY ProcessRead, CapRead, Zenon
<1>5. CASE \E s \in Slot : CapRevoke(h, p, s)
  <2>1. PICK s \in Slot : CapRevoke(h, p, s)
    BY <1>5, Zenon
  <2>2. CASE Begin(h, p, [at |-> "clear", s |-> s])
    <3> DEFINE n == With(d, [at |-> "clear", s |-> s])
    <3>1. /\ DOMAIN n = DOMAIN Done
          /\ n.at = "clear" /\ n.p = p /\ n.pslot = None /\ n.va = None /\ n.id = None
          /\ n.peer = None /\ n.ra = None /\ n.rb = None /\ n.frame = None
          /\ n.then = "idle"
      BY Zenon DEF With, Done
    <3> HIDE DEF n
    <3>2. CallOK(n, F)
      BY <3>1, Zenon DEF CallOK, None
    <3> QED
      BY <1>2, <2>2, <3>2, Zenon DEF n
  <2>3. CASE Begin(h, p, [at |-> "revoke", todo |-> <<CapTarget(p, s)>>])
    <3> DEFINE n == With(d, [at |-> "revoke", todo |-> <<CapTarget(p, s)>>])
    <3>1. /\ DOMAIN n = DOMAIN Done
          /\ n.at = "revoke" /\ n.p = p /\ n.pslot = None /\ n.va = None /\ n.id = None
          /\ n.peer = None /\ n.ra = None /\ n.rb = None /\ n.frame = None
          /\ n.then = "idle"
      BY Zenon DEF With, Done
    <3> HIDE DEF n
    <3>2. CallOK(n, F)
      BY <3>1, Zenon DEF CallOK, None
    <3> QED
      BY <1>2, <2>3, <3>2, Zenon DEF n
  <2>4. CASE Begin(h, p, [at |-> "revoke", todo |-> <<CapTarget(p, s)>>,
                              s |-> s, then |-> "clear"])
    <3> DEFINE n == With(d, [at |-> "revoke", todo |-> <<CapTarget(p, s)>>,
                              s |-> s, then |-> "clear"])
    <3>1. /\ DOMAIN n = DOMAIN Done
          /\ n.at = "revoke" /\ n.p = p /\ n.pslot = None /\ n.va = None /\ n.id = None
          /\ n.peer = None /\ n.ra = None /\ n.rb = None /\ n.frame = None
          /\ n.then = "clear"
      BY Zenon DEF With, Done
    <3> HIDE DEF n
    <3>2. CallOK(n, F)
      BY <3>1, Zenon DEF CallOK, None
    <3> QED
      BY <1>2, <2>4, <3>2, Zenon DEF n
  <2> QED
    BY <2>1, <2>2, <2>3, <2>4, Zenon DEF CapRevoke
<1>6. CASE \E s \in Slot : PageAlloc(h, p, s)
  <2>1. PICK s \in Slot : PageAlloc(h, p, s)
    BY <1>6, Zenon
  <2>2. avail \subseteq F /\ avail \subseteq Nat /\ avail # {}
    BY <2>1, FramesAre, Zenon DEF Shape, Memory, PageAlloc
  <2>3. Some(avail) \in F
    BY <2>2, SomeIn, Zenon
  <2>4. CASE Begin(h, p, [at |-> "page_enter", s |-> s, frame |-> Some(avail)])
    <3> DEFINE n == With(d, [at |-> "page_enter", s |-> s, frame |-> Some(avail)])
    <3>1. /\ DOMAIN n = DOMAIN Done
          /\ n.at = "page_enter" /\ n.p = p /\ n.pslot = None /\ n.va = None
          /\ n.id = None /\ n.peer = None /\ n.ra = None /\ n.rb = None
          /\ n.frame = Some(avail) /\ n.then = "idle"
      BY Zenon DEF With, Done
    <3> HIDE DEF n
    <3>2. CallOK(n, F)
      BY <2>2, <2>3, <3>1, Zenon DEF CallOK, None
    <3> QED
      BY <1>2, <2>4, <3>2, Zenon DEF n
  <2> QED
    BY <2>1, <2>4, Zenon DEF PageAlloc
<1>7. CASE \E s \in Slot, t \in Slot : ShmMap(h, p, s, t)
  <2>1. PICK s \in Slot, t \in Slot : ShmMap(h, p, s, t)
    BY <1>7, Zenon
  <2>2. CapTarget(p, s)[2] \in Pid
    BY <1>4, <2>1, Zenon DEF ShmMap
  <2>3. CASE Begin(h, p, [at |-> "share_root_b", s |-> s, s2 |-> t,
                              peer |-> CapTarget(p, s)[2]])
    <3> DEFINE n == With(d, [at |-> "share_root_b", s |-> s, s2 |-> t,
                              peer |-> CapTarget(p, s)[2]])
    <3>1. /\ DOMAIN n = DOMAIN Done
          /\ n.at = "share_root_b" /\ n.p = p /\ n.pslot = None /\ n.va = None
          /\ n.id = None /\ n.peer = CapTarget(p, s)[2] /\ n.ra = None /\ n.rb = None
          /\ n.frame = None /\ n.then = "idle"
      BY Zenon DEF With, Done
    <3> HIDE DEF n
    <3>2. CallOK(n, F)
      BY <2>2, <3>1, Zenon DEF CallOK, None
    <3> QED
      BY <1>2, <2>3, <3>2, Zenon DEF n
  <2> QED
    BY <2>1, <2>3, Zenon DEF ShmMap
<1>8. CASE \E s \in Slot, t \in Slot, u \in Slot : MemGrant(h, p, s, t, u)
  <2>1. PICK s \in Slot, t \in Slot, u \in Slot : MemGrant(h, p, s, t, u)
    BY <1>8, Zenon
  <2>2. CASE Begin(h, p, [at |-> "grant_peer", s |-> s, id |-> CapTarget(p, s)[2],
                              pslot |-> t, s2 |-> u])
    <3> DEFINE n == With(d, [at |-> "grant_peer", s |-> s, id |-> CapTarget(p, s)[2],
                              pslot |-> t, s2 |-> u])
    <3>1. /\ DOMAIN n = DOMAIN Done
          /\ n.at = "grant_peer" /\ n.p = p /\ n.pslot = t /\ n.va = None
          /\ n.id = CapTarget(p, s)[2] /\ n.peer = None /\ n.ra = None /\ n.rb = None
          /\ n.frame = None /\ n.then = "idle"
      BY Zenon DEF With, Done
    <3> HIDE DEF n
    <3>2. CallOK(n, F)
      BY <3>1, Zenon DEF CallOK, None
    <3> QED
      BY <1>2, <2>2, <3>2, Zenon DEF n
  <2> QED
    BY <2>1, <2>2, Zenon DEF MemGrant
<1>9. CASE \E s \in Slot, va \in VA : MemMap(h, p, s, va)
  <2>1. PICK s \in Slot, va \in VA : MemMap(h, p, s, va)
    BY <1>9, Zenon
  <2>2. CASE Begin(h, p, [at |-> "map_test", id |-> CapTarget(p, s)[2], va |-> va])
    <3> DEFINE n == With(d, [at |-> "map_test", id |-> CapTarget(p, s)[2], va |-> va])
    <3>1. /\ DOMAIN n = DOMAIN Done
          /\ n.at = "map_test" /\ n.p = p /\ n.pslot = None /\ n.va = va
          /\ n.id = CapTarget(p, s)[2] /\ n.peer = None /\ n.ra = None /\ n.rb = None
          /\ n.frame = None /\ n.then = "idle"
      BY Zenon DEF With, Done
    <3> HIDE DEF n
    <3>2. CallOK(n, F)
      BY <3>1, Zenon DEF CallOK, None
    <3> QED
      BY <1>2, <2>2, <3>2, Zenon DEF n
  <2> QED
    BY <2>1, <2>2, Zenon DEF MemMap
<1>10. CASE \E i \in Service, s \in Slot, t \in Slot : Connect(h, p, i, s, t)
  <2>1. PICK i \in Service, s \in Slot, t \in Slot : Connect(h, p, i, s, t)
    BY <1>10, Zenon
  <2>2. services[i] \in Pid
    BY <2>1, Zenon DEF Connect, Shape, Memory
  <2>3. CASE Begin(h, p, [at |-> "connect_client", peer |-> services[i],
                              s |-> s, s2 |-> t])
    <3> DEFINE n == With(d, [at |-> "connect_client", peer |-> services[i],
                              s |-> s, s2 |-> t])
    <3>1. /\ DOMAIN n = DOMAIN Done
          /\ n.at = "connect_client" /\ n.p = p /\ n.pslot = None /\ n.va = None
          /\ n.id = None /\ n.peer = services[i] /\ n.ra = None /\ n.rb = None
          /\ n.frame = None /\ n.then = "idle"
      BY Zenon DEF With, Done
    <3> HIDE DEF n
    <3>2. CallOK(n, F)
      BY <2>2, <3>1, Zenon DEF CallOK, None
    <3> QED
      BY <1>2, <2>3, <3>2, Zenon DEF n
  <2> QED
    BY <2>1, <2>3, Zenon DEF Connect
<1>11. CASE \E va \in VA : MapDevice(h, p, va)
  <2>1. PICK va \in VA : MapDevice(h, p, va)
    BY <1>11, Zenon
  <2>2. PidRoot(p) \in Roots
    BY ProcessRead, Zenon
  <2>3. CASE Begin(h, p, [at |-> "claim", va |-> va, ra |-> PidRoot(p)])
    <3> DEFINE n == With(d, [at |-> "claim", va |-> va, ra |-> PidRoot(p)])
    <3>1. /\ DOMAIN n = DOMAIN Done
          /\ n.at = "claim" /\ n.p = p /\ n.pslot = None /\ n.va = va /\ n.id = None
          /\ n.peer = None /\ n.ra = PidRoot(p) /\ n.rb = None /\ n.frame = None
          /\ n.then = "idle"
      BY Zenon DEF With, Done
    <3> HIDE DEF n
    <3>2. CallOK(n, F)
      BY <2>2, <3>1, Zenon DEF CallOK, None
    <3> QED
      BY <1>2, <2>3, <3>2, Zenon DEF n
  <2> QED
    BY <2>1, <2>3, Zenon DEF MapDevice
<1>12. CASE \/ \E s \in Slot, t \in Slot : CapDup(h, p, s, t)
           \/ \E i \in Service : Register(h, p, i)
  BY <1>3, <1>12, Zenon DEF CapDup, Register
<1>13. CASE Destroy(h, p)
  BY <1>13, Zenon DEF Destroy, Shape, Calm
<1> QED
  BY <1>5, <1>6, <1>7, <1>8, <1>9, <1>10, <1>11, <1>12, <1>13, Zenon DEF Call

-----------------------------------------------------------------------------
(* The tables *)

\* A capability slot is written: the processes are the same.
LEMMA WrittenProcesses ==
    ASSUME Shape, NEW p, NEW s, NEW c \in Cap, live' = live, free' = free,
           table' \in {table, Written(p, s, c), WithCap(p, s, c)}
    PROVE  Processes'
<1> DEFINE v == [table[p + 1] EXCEPT !.caps = [table[p + 1].caps EXCEPT ![s] = c]]
           Q == [table EXCEPT ![p + 1] = v]
<1>1. PICK S : table \in Seq(S)
  BY Zenon DEF Shape, Registries, Registry, Vec
<1>2. table' \in {table, Q}
  BY Zenon DEF Written, WithCap
<1>3. \A q \in Pid : q \in Nat /\ q + 1 \in 1..Len(table)
  <2>1. MAX_PROCESSES \in Nat /\ Len(table) = MAX_PROCESSES
    BY CapsConstants, Zenon DEF Shape, Processes
  <2> QED
    BY <2>1 DEF Pid
<1>4. Len(Q) = Len(table)
  BY <1>1
<1>5. ASSUME NEW q \in Pid
      PROVE  Q[q + 1] \in [id : {q}, root : {q + 1}, caps : [Slot -> Cap]]
  <2>1. table[q + 1] \in [id : {q}, root : {q + 1}, caps : [Slot -> Cap]]
    BY Zenon DEF Shape, Processes
  <2>2. CASE q + 1 = p + 1
    <3>1. Q[q + 1] = v
      BY <1>1, <1>3, <2>2
    <3> QED
      BY <2>1, <2>2, <3>1
  <2>3. CASE q + 1 # p + 1
    <3>1. Q[q + 1] = table[q + 1]
      BY <1>1, <1>3, <2>3
    <3> QED
      BY <2>1, <3>1, Zenon
  <2> QED
    BY <2>2, <2>3, Zenon
<1> HIDE DEF Q
<1>6. Len(table') = MAX_PROCESSES
  BY <1>2, <1>4, Zenon DEF Shape, Processes
<1>7. \A q \in Pid : table'[q + 1] \in [id : {q}, root : {q + 1}, caps : [Slot -> Cap]]
  BY <1>2, <1>5, Zenon DEF Shape, Processes
<1> QED
  BY <1>6, <1>7, Zenon DEF Shape, Processes

\* While nothing is killed the processes stay, and keep their roots.
LEMMA NextProcesses == Shape /\ [Next]_vars => Processes'
<1> SUFFICES ASSUME Shape, [Next]_vars PROVE Processes'
  BY Zenon
<1> USE DEF procs, memory
<1>1. CASE UNCHANGED <<table, free, live>>
  BY <1>1, Zenon DEF Shape, Processes
<1>2. ASSUME NEW h \in Hart, Create(h) PROVE FALSE
  <2>1. free = <<>> /\ Len(table) = MAX_PROCESSES /\ MAX_PROCESSES \in Nat
    BY CapsConstants, Zenon DEF Shape, Processes
  <2> QED
    BY <1>2, <2>1 DEF Create
<1>3. ASSUME NEW h \in Hart, NEW p \in Pid, Call(h, p) PROVE Processes'
  <2>1. CASE \E s, t \in Slot : CapDup(h, p, s, t)
    <3>1. PICK s, t \in Slot : CapDup(h, p, s, t)
      BY <2>1, Zenon
    <3>2. CapTarget(p, s) \in Cap
      BY ProcessRead, Zenon
    <3> QED
      BY <3>1, <3>2, WrittenProcesses, Zenon DEF CapDup
  <2> QED
    BY <1>1, <1>3, <2>1, Zenon
       DEF Call, CapRevoke, PageAlloc, ShmMap, MemGrant, MemMap, Register,
       Connect, MapDevice, Destroy
<1>4. ASSUME NEW h \in Hart, Step(h) PROVE Processes'
  <2> DEFINE o == op[h]
  <2>1. CallOK(o, setup.frames)
    BY Zenon DEF Shape, CallsOK
  <2>2. ASSUME NEW p, NEW s, NEW c \in Cap, live' = live, free' = free,
               table' = Written(p, s, c) \/ table' = table
        PROVE  Processes'
    BY <2>2, WrittenProcesses, Zenon
  <2>3. NoCap \in Cap
    BY Zenon DEF Cap
  <2>4. CASE Invalidate(h) \/ Teardown(h)
    BY <2>1, <2>4, Zenon DEF Invalidate, Teardown, At, CallOK
  <2>5. CASE ClearCap(h)
    BY <2>2, <2>3, <2>5, Zenon DEF ClearCap
  <2>6. CASE StripClear(h)
    BY <2>2, <2>3, <2>6, Zenon DEF StripClear
  <2>7. CASE ShareGrantA(h)
    <3>1. o.id \in ShmId
      BY <2>1, <2>7, Zenon DEF CallOK, ShareGrantA, ShareGrant, At
    <3>2. Shm(o.id) \in Cap
      BY <3>1, Zenon DEF Cap
    <3> QED
      BY <2>2, <2>7, <3>2, Zenon DEF ShareGrantA, ShareGrant
  <2>8. CASE ShareGrantB(h)
    <3>1. o.id \in ShmId
      BY <2>1, <2>8, Zenon DEF CallOK, ShareGrantB, ShareGrant, At
    <3>2. Shm(o.id) \in Cap
      BY <3>1, Zenon DEF Cap
    <3> QED
      BY <2>2, <2>8, <3>2, Zenon DEF ShareGrantB, ShareGrant
  <2>9. CASE PoolSlot(h)
    <3>1. o.id \in PageId
      BY <2>1, <2>9, Zenon DEF CallOK, PoolSlot, At
    <3>2. Page(o.id) \in Cap
      BY <3>1, Zenon DEF Cap
    <3> QED
      BY <2>2, <2>9, <3>2, Zenon DEF PoolSlot
  <2>10. CASE PageSlot(h)
    <3>1. o.id \in PageId
      BY <2>1, <2>10, Zenon DEF CallOK, PageSlot, At
    <3>2. Page(o.id) \in Cap
      BY <3>1, Zenon DEF Cap
    <3> QED
      BY <2>2, <2>10, <3>2, Zenon DEF PageSlot
  <2>11. CASE ConnectClient(h)
    <3>1. o.peer \in Pid
      BY <2>1, <2>11, Zenon DEF CallOK, ConnectClient, At, Pairing
    <3>2. Proc(o.peer) \in Cap
      BY <3>1, Zenon DEF Cap
    <3> QED
      BY <2>2, <2>11, <3>2, Zenon DEF ConnectClient
  <2>12. CASE ConnectServer(h)
    <3>1. o.p \in Pid
      BY <2>1, <2>12, Zenon DEF CallOK, ConnectServer, At
    <3>2. Proc(o.p) \in Cap
      BY <3>1, Zenon DEF Cap
    <3> QED
      BY <2>2, <2>12, <3>2, Zenon DEF ConnectServer
  <2>13. CASE \/ Revoke(h) \/ Revoked(h) \/ StripRoot(h) \/ StripUnmap(h) \/ Stripped(h)
              \/ ShareRootB(h) \/ ShareRootA(h) \/ ShareAlloc(h) \/ ShareMapA(h)
              \/ ShareMapB(h) \/ ShareEnter(h) \/ ShareUndo(h) \/ PageEnter(h)
    BY <1>1, <2>13, Zenon DEF Revoke, Revoked, StripRoot, StripUnmap, Stripped, ShareRootB,
       ShareRootA, ShareAlloc, ShareMapA, ShareMapB, ShareEnter, ShareUndo, PageEnter
  <2>14. CASE \/ GrantPeer(h) \/ GrantAlive(h) \/ GrantDst(h) \/ Grant(h) \/ GrantBack(h)
              \/ MapTest(h) \/ MapPaddr(h) \/ MapRoot(h) \/ Map(h) \/ MapRecord(h)
              \/ MapUndo(h) \/ Claim(h)
    BY <1>1, <2>14, Zenon DEF GrantPeer, GrantAlive, GrantDst, Grant, GrantBack, MapTest,
       MapPaddr, MapRoot, Map, MapRecord, MapUndo, Claim
  <2> QED
    BY <1>4, <2>4, <2>5, <2>6, <2>7, <2>8, <2>9, <2>10, <2>11, <2>12, <2>13, <2>14,
       Zenon
       DEF Step
<1> QED
  BY <1>1, <1>2, <1>3, <1>4, Zenon DEF Next, vars

-----------------------------------------------------------------------------
(* The registries *)

\* A new entry, an entry given back, and an entry edited in place.
LEMMA PutEntry ==
    ASSUME NEW R, NEW F, Registry(R, F), NEW r, r.id = NextId(R, F)
    PROVE  LET n == NextId(R, F)
               Q == Put(R, n, r)
           IN  /\ ~Has(R, n) /\ Has(Q, n) /\ Q[n + 1] = r
               /\ \A i : Has(Q, i) <=> Has(R, i) \/ i = n
               /\ \A i : Has(R, i) => Q[i + 1] = R[i + 1]
               /\ Len(Q) \in {Len(R), Len(R) + 1}
<1> DEFINE n == NextId(R, F)
           Q == Put(R, n, r)
<1>1. PICK S, U : R \in Seq(S) /\ F \in Seq(U)
  BY Zenon DEF Registry, Vec
<1>2. CASE F = <<>>
  <2>1. n = Len(R) /\ Q = Append(R, r) /\ Len(R) \in Nat
    BY <1>1, <1>2 DEF NextId, Put
  <2>2. Len(Q) = Len(R) + 1 /\ Q[n + 1] = r /\ \A k \in 1..Len(R) : Q[k] = R[k]
    BY <1>1, <2>1
  <2> HIDE DEF Q
  <2>3. ~Has(R, n) /\ Has(Q, n)
    BY <2>1, <2>2 DEF Has
  <2>4. \A i : Has(R, i) => i \in 0..(Len(R) - 1) /\ i + 1 \in 1..Len(R)
    BY <2>1 DEF Has
  <2>5. \A i : Has(R, i) => Q[i + 1] = R[i + 1]
    BY <2>2, <2>4, Zenon
  <2>6. \A i : Has(R, i) => Has(Q, i)
    BY <2>1, <2>2, <2>4, <2>5 DEF Has
  <2>7. ASSUME NEW i, Has(Q, i), i # n PROVE Has(R, i)
    <3>1. i \in 0..Len(R) /\ Q[i + 1].id = i
      BY <2>1, <2>2, <2>7 DEF Has
    <3>2. i \in 0..(Len(R) - 1) /\ i + 1 \in 1..Len(R)
      BY <2>1, <2>7, <3>1
    <3> QED
      BY <2>2, <3>1, <3>2, Zenon DEF Has
  <2> QED
    BY <2>2, <2>3, <2>5, <2>6, <2>7, Zenon DEF Q
<1>3. CASE F # <<>>
  <2>1. n = F[1] /\ 1 \in DOMAIN F
    BY <1>1, <1>3 DEF NextId
  <2>2. n \in 0..(Len(R) - 1) /\ ~Has(R, n)
    BY <2>1, Zenon DEF Registry, Exact
  <2>3. Q = [R EXCEPT ![n + 1] = r]
    BY <1>1, <2>2 DEF Put, Set
  <2>4. /\ Len(Q) = Len(R) /\ Q[n + 1] = r
        /\ \A k \in 1..Len(R) : k # n + 1 => Q[k] = R[k]
    BY <1>1, <2>2, <2>3
  <2> HIDE DEF n, Q
  <2>5. Has(Q, n)
    BY <1>1, <2>2, <2>4, Zenon DEF Has, n
  <2>6. \A i : i # n => (Has(Q, i) <=> Has(R, i)) /\ (Has(R, i) => Q[i + 1] = R[i + 1])
    BY <1>1, <2>2, <2>4 DEF Has
  <2> QED
    BY <2>2, <2>4, <2>5, <2>6, Zenon DEF n, Q
<1> QED
  BY <1>2, <1>3, Zenon

\* An entry that is given back.
LEMMA GoneEntry ==
    ASSUME NEW R, NEW F, NEW n, Registry(R, F), Has(R, n)
    PROVE  LET Q == Set(R, n + 1, Gone)
           IN  /\ \A i : Has(Q, i) <=> Has(R, i) /\ i # n
               /\ \A i : Has(R, i) /\ i # n => Q[i + 1] = R[i + 1]
               /\ Len(Q) = Len(R)
<1>1. PICK S : R \in Seq(S)
  BY Zenon DEF Registry, Vec
<1>2. n \in 0..(Len(R) - 1)
  BY Zenon DEF Has
<1>3. /\ Len([R EXCEPT ![n + 1] = Gone]) = Len(R)
      /\ \A j \in 1..Len(R) : j # n + 1 => [R EXCEPT ![n + 1] = Gone][j] = R[j]
  BY <1>1, <1>2
<1>4. \A i : Has(R, i) /\ i # n => i \in Nat /\ i + 1 \in 1..Len(R) /\ i + 1 # n + 1
  BY <1>1, <1>2 DEF Has
<1> QED
  BY <1>3, <1>4, GivenBackIds, Zenon DEF Set

\* An entry that is edited in place.
LEMMA EditedEntry ==
    ASSUME NEW R, NEW F, NEW k, NEW v, Registry(R, F),
           k \in 1..Len(R) => v.id = R[k].id
    PROVE  LET Q == [R EXCEPT ![k] = v]
           IN  /\ \A i : Has(Q, i) <=> Has(R, i)
               /\ \A i : Has(R, i) => Q[i + 1] = IF i + 1 = k THEN v ELSE R[i + 1]
               /\ Len(Q) = Len(R)
<1> DEFINE Q == [R EXCEPT ![k] = v]
<1>1. PICK S : R \in Seq(S)
  BY Zenon DEF Registry, Vec
<1>2. Len(Q) = Len(R) /\ Len(R) \in Nat
  BY <1>1
<1>3. \A j \in 1..Len(R) : Q[j] = IF j = k THEN v ELSE R[j]
  BY <1>1
<1> HIDE DEF Q
<1>4. \A j \in 1..Len(R) : Q[j].id = R[j].id
  BY <1>3, Zenon
<1>5. \A i : Has(Q, i) <=> Has(R, i)
  BY <1>2, <1>4 DEF Has
<1>6. \A i : Has(R, i) => i + 1 \in 1..Len(R)
  BY <1>2 DEF Has
<1> QED
  BY <1>2, <1>3, <1>5, <1>6, Zenon DEF Q

\* pages::grant and set_mapping leave every page where it is.
SamePages ==
    /\ Len(pages') = Len(pages)
    /\ \A i : Has(pages', i) <=> Has(pages, i)
    /\ \A i : Has(pages, i) => /\ pages'[i + 1].paddr = pages[i + 1].paddr
                               /\ PageOK(pages'[i + 1], setup.frames)

\* pages::grant changes the owner of one entry.
LEMMA GrantPages ==
    ASSUME Shape, NEW h, NEW p \in Pid, NEW next, GrantTo(h, p, next)
    PROVE  /\ SamePages
           /\ \A i : Has(pages, i) => pages'[i + 1].owner = IF i = op[h].id THEN p ELSE pages[i + 1].owner
<1>1. \A i : Has(pages, i) => PageOK(pages[i + 1], setup.frames)
  BY Zenon DEF Shape, Entries
<1>2. CASE ~Has(pages, op[h].id)
  <2>1. pages' = pages
    BY <1>2, Zenon DEF GrantTo
  <2> QED
    BY <1>1, <1>2, <2>1, Zenon DEF SamePages
<1>3. CASE Has(pages, op[h].id)
  <2> DEFINE k == op[h].id + 1
             v == [pages[k] EXCEPT !.owner = p, !.map_va = None]
  <2>1. pages' = [pages EXCEPT ![k] = v]
    <3>1. pages' = [pages EXCEPT ![k].owner = p, ![k].map_va = None]
      BY <1>3, Zenon DEF GrantTo
    <3> QED
      BY <3>1, Zenon
  <2>2. PageOK(pages[k], setup.frames)
    BY <1>1, <1>3, Zenon
  <2>3. PageOK(v, setup.frames) /\ v.id = pages[k].id /\ v.paddr = pages[k].paddr /\ v.owner = p
    BY <2>2, Zenon DEF PageOK
  <2>4. /\ \A i : Has(pages', i) <=> Has(pages, i)
        /\ \A i : Has(pages, i) => pages'[i + 1] = IF i + 1 = k THEN v ELSE pages[i + 1]
        /\ Len(pages') = Len(pages)
    <3> DEFINE Q == [pages EXCEPT ![k] = v]
    <3>1. Registry(pages, page_free) /\ v.id = pages[k].id
      BY <2>3, Zenon DEF Shape, Registries
    <3> HIDE DEF k, v
    <3>2. /\ \A i : Has(Q, i) <=> Has(pages, i)
          /\ \A i : Has(pages, i) => Q[i + 1] = IF i + 1 = k THEN v ELSE pages[i + 1]
          /\ Len(Q) = Len(pages)
      BY <3>1, EditedEntry, Zenon
    <3>3. pages' = Q
      BY <2>1, Zenon
    <3> HIDE DEF Q
    <3> QED
      BY <3>2, <3>3, Zenon
  <2> HIDE DEF v
  <2>5. \A i : Has(pages, i) => (i + 1 = k <=> i = op[h].id)
    BY <1>3, Zenon DEF Has
  <2> QED
    BY <1>1, <2>3, <2>4, <2>5, Zenon DEF SamePages
<1> QED
  BY <1>2, <1>3, Zenon

\* pages::map leaves every owner alone.
LEMMA RecordPages ==
    ASSUME Shape, NEW h \in Hart, MapRecord(h)
    PROVE  /\ SamePages
           /\ \A i : Has(pages, i) => pages'[i + 1].owner = pages[i + 1].owner
<1>1. \A i : Has(pages, i) => PageOK(pages[i + 1], setup.frames)
  BY Zenon DEF Shape, Entries
<1>2. CASE pages' = pages
  BY <1>1, <1>2, Zenon DEF SamePages
<1>3. CASE pages' # pages
  <2> DEFINE k == op[h].id + 1
             v == [pages[k] EXCEPT !.map_va = op[h].va]
  <2>1. pages' = [pages EXCEPT ![k] = v] /\ Has(pages, op[h].id) /\ op[h].at = "map_record"
    BY <1>3, Zenon DEF MapRecord, At
  <2>2. PageOK(pages[k], setup.frames)
    BY <1>1, <2>1, Zenon
  <2>3. op[h].va \in VA
    BY <2>1, Zenon DEF Shape, CallsOK, CallOK, Mapping
  <2>4. /\ PageOK(v, setup.frames) /\ v.id = pages[k].id /\ v.paddr = pages[k].paddr
        /\ v.owner = pages[k].owner
    BY <2>2, <2>3, Zenon DEF PageOK
  <2>5. /\ \A i : Has(pages', i) <=> Has(pages, i)
        /\ \A i : Has(pages, i) => pages'[i + 1] = IF i + 1 = k THEN v ELSE pages[i + 1]
        /\ Len(pages') = Len(pages)
    <3> DEFINE Q == [pages EXCEPT ![k] = v]
    <3>1. Registry(pages, page_free) /\ v.id = pages[k].id
      BY <2>4, Zenon DEF Shape, Registries
    <3> HIDE DEF k, v
    <3>2. /\ \A i : Has(Q, i) <=> Has(pages, i)
          /\ \A i : Has(pages, i) => Q[i + 1] = IF i + 1 = k THEN v ELSE pages[i + 1]
          /\ Len(Q) = Len(pages)
      BY <3>1, EditedEntry, Zenon
    <3>3. pages' = Q
      BY <2>1, Zenon
    <3> HIDE DEF Q
    <3> QED
      BY <3>2, <3>3, Zenon
  <2> HIDE DEF v
  <2> QED
    BY <1>1, <2>4, <2>5, Zenon DEF SamePages
<1> QED
  BY <1>2, <1>3, Zenon

\* The steps that put an entry into a registry or take it out: the entry, its
\* frame, and all other entries.
LEMMA ShareEnterEntry ==
    ASSUME Shape, NEW h \in Hart, ShareEnter(h), ~(Len(shms) >= MAX_SHMS)
    PROVE  LET i == NextId(shms, shm_free)
           IN  /\ ~Has(shms, i) /\ Has(shms', i) /\ ShmOK(shms'[i + 1], setup.frames)
               /\ shms'[i + 1].paddr = op[h].frame
               /\ shms'[i + 1].owners = <<<<op[h].p, op[h].s>>, <<op[h].peer, op[h].s2>>>>
               /\ \A j : Has(shms', j) <=> Has(shms, j) \/ j = i
               /\ \A j : Has(shms, j) => shms'[j + 1] = shms[j + 1]
               /\ Len(shms') <= MAX_SHMS /\ pages' = pages
<1> DEFINE i == NextId(shms, shm_free)
           r == [id |-> i, paddr |-> op[h].frame,
                 owners |-> <<<<op[h].p, op[h].s>>, <<op[h].peer, op[h].s2>>>>]
<1>1. shms' = Put(shms, i, r) /\ pages' = pages /\ op[h].at = "share_enter"
  BY Zenon DEF ShareEnter, At, pagereg
<1>2. r.id = i /\ r.paddr = op[h].frame
      /\ r.owners = <<<<op[h].p, op[h].s>>, <<op[h].peer, op[h].s2>>>>
  BY Zenon
<1>3. op[h].frame \in setup.frames /\ op[h].p \in Pid /\ op[h].peer \in Pid
  <2>1. CallOK(op[h], setup.frames)
    BY Zenon DEF Shape, CallsOK
  <2> QED
    BY <1>1, <2>1, Zenon DEF CallOK, Holding, Pairing
<1>4. ShmOK(r, setup.frames)
  BY <1>2, <1>3, Zenon DEF ShmOK
<1> HIDE DEF r
<1>5. /\ ~Has(shms, i) /\ Has(shms', i) /\ shms'[i + 1] = r
      /\ \A j : Has(shms', j) <=> Has(shms, j) \/ j = i
      /\ \A j : Has(shms, j) => shms'[j + 1] = shms[j + 1]
      /\ Len(shms') \in {Len(shms), Len(shms) + 1}
  BY <1>1, <1>2, PutEntry DEF Shape, Registries
<1>6. Len(shms') <= MAX_SHMS
  <2>1. Len(shms) \in Nat /\ MAX_SHMS \in Nat
    <3>1. PICK S : shms \in Seq(S)
      BY Zenon DEF Shape, Registries, Registry, Vec
    <3>2. MAX_SHMS \in Nat
      BY CapsConstants, Zenon
    <3> QED
      BY <3>1, <3>2
  <2> QED
    BY <1>5, <2>1
<1> QED
  BY <1>1, <1>2, <1>4, <1>5, <1>6, Zenon

\* pages::alloc adds one entry, with the frame of the call.
LEMMA PageEnterEntry ==
    ASSUME Shape, NEW h \in Hart, PageEnter(h), ~(Len(pages) >= MAX_PAGES)
    PROVE  LET i == NextId(pages, page_free)
           IN  /\ ~Has(pages, i) /\ Has(pages', i) /\ PageOK(pages'[i + 1], setup.frames)
               /\ pages'[i + 1].paddr = op[h].frame /\ pages'[i + 1].owner = op[h].p
               /\ \A j : Has(pages', j) <=> Has(pages, j) \/ j = i
               /\ \A j : Has(pages, j) => pages'[j + 1] = pages[j + 1]
               /\ Len(pages') <= MAX_PAGES /\ shms' = shms
<1> DEFINE i == NextId(pages, page_free)
           r == [id |-> i, paddr |-> op[h].frame, owner |-> op[h].p, map_va |-> None]
<1>1. pages' = Put(pages, i, r) /\ shms' = shms /\ op[h].at = "page_enter"
  BY Zenon DEF PageEnter, At, shmreg
<1>2. Len(pages) \in Nat /\ MAX_PAGES \in Nat
  <2>1. PICK S : pages \in Seq(S)
    BY Zenon DEF Shape, Registries, Registry, Vec
  <2>2. MAX_PAGES \in Nat
    BY CapsConstants, Zenon
  <2> QED
    BY <2>1, <2>2
<1>3. op[h].frame \in setup.frames /\ op[h].p \in Pid /\ i \in PageId
  <2>1. CallOK(op[h], setup.frames)
    BY Zenon DEF Shape, CallsOK
  <2>2. i \in PageId
    BY <1>2, NextIdIn, Zenon DEF Shape, Registries, PageId
  <2> QED
    BY <1>1, <2>1, <2>2, Zenon DEF CallOK, Holding
<1>4. PageOK(r, setup.frames) /\ r.id = i /\ r.paddr = op[h].frame /\ r.owner = op[h].p
  BY <1>3, Zenon DEF PageOK
<1> HIDE DEF r
<1>5. /\ ~Has(pages, i) /\ Has(pages', i) /\ pages'[i + 1] = r
      /\ \A j : Has(pages', j) <=> Has(pages, j) \/ j = i
      /\ \A j : Has(pages, j) => pages'[j + 1] = pages[j + 1]
      /\ Len(pages') \in {Len(pages), Len(pages) + 1}
  BY <1>1, <1>4, PutEntry DEF Shape, Registries
<1>6. Len(pages') <= MAX_PAGES
  BY <1>2, <1>5
<1> QED
  BY <1>1, <1>4, <1>5, <1>6, Zenon

\* revoke takes one entry out of one registry.
LEMMA RevokeEntry ==
    ASSUME Shape, NEW h \in Hart, Revoke(h), Valid(Head(op[h].todo))
    PROVE  LET c == Head(op[h].todo)
           IN  \/ /\ c[1] = "shm" /\ Has(shms, c[2]) /\ pages' = pages
                  /\ \A j : Has(shms', j) <=> Has(shms, j) /\ j # c[2]
                  /\ \A j : Has(shms', j) => shms'[j + 1] = shms[j + 1]
                  /\ Len(shms') = Len(shms) /\ Entry(c) = shms[c[2] + 1]
               \/ /\ c[1] # "shm" /\ Has(pages, c[2]) /\ shms' = shms
                  /\ \A j : Has(pages', j) <=> Has(pages, j) /\ j # c[2]
                  /\ \A j : Has(pages', j) => pages'[j + 1] = pages[j + 1]
                  /\ Len(pages') = Len(pages) /\ Entry(c) = pages[c[2] + 1]
<1> DEFINE c == Head(op[h].todo)
<1>1. CASE c[1] = "shm"
  <2>1. shms' = Set(shms, c[2] + 1, Gone) /\ pages' = pages /\ Has(shms, c[2])
    BY <1>1, Zenon DEF Revoke, Valid, pagereg
  <2>2. /\ \A j : Has(shms', j) <=> Has(shms, j) /\ j # c[2]
        /\ \A j : Has(shms, j) /\ j # c[2] => shms'[j + 1] = shms[j + 1]
        /\ Len(shms') = Len(shms)
    BY <2>1, GoneEntry DEF Shape, Registries
  <2> QED
    BY <1>1, <2>1, <2>2, Zenon DEF Entry
<1>2. CASE c[1] # "shm"
  <2>1. pages' = Set(pages, c[2] + 1, Gone) /\ shms' = shms /\ Has(pages, c[2])
    BY <1>2, Zenon DEF Revoke, Valid, shmreg
  <2>2. /\ \A j : Has(pages', j) <=> Has(pages, j) /\ j # c[2]
        /\ \A j : Has(pages, j) /\ j # c[2] => pages'[j + 1] = pages[j + 1]
        /\ Len(pages') = Len(pages)
    BY <2>1, GoneEntry DEF Shape, Registries
  <2> QED
    BY <1>2, <2>1, <2>2, Zenon DEF Entry
<1> QED
  BY <1>1, <1>2, Zenon

-----------------------------------------------------------------------------
(* The frames *)

\* The frame that a call holds: it is nowhere else.
CarriedBy(o) == IF o.at \in Mapping THEN None ELSE o.frame

\* The steps at which a frame changes hands.
Moves(h) ==
    \/ ShareAlloc(h) /\ avail # {}
    \/ Revoke(h) /\ Valid(Head(op[h].todo))
    \/ Stripped(h) /\ op[h].frame # None
    \/ ShareUndo(h) /\ op[h].ra = None
    \/ ShareEnter(h) /\ ~(Len(shms) >= MAX_SHMS)
    \/ PageEnter(h)

\* What Goto leaves alone: the other calls, and the fields it does not name.
LEMMA GotoReads ==
    ASSUME NEW h \in Hart, CallsOK, NEW r, Goto(h, r)
    PROVE  /\ op'[h].at = IF "at" \in DOMAIN r THEN r["at"] ELSE op[h].at
           /\ op'[h].frame = IF "frame" \in DOMAIN r THEN r["frame"] ELSE op[h].frame
           /\ \A g \in Hart \ {h} : op'[g] = op[g]
<1>1. /\ \A g \in Hart \ {h} : op'[g] = op[g]
      /\ \A x \in DOMAIN Done : op'[h][x] = IF x \in DOMAIN r THEN r[x] ELSE op[h][x]
  BY Assigned, Zenon DEF CallsOK, CallOK
<1>2. {"at", "frame"} \subseteq DOMAIN Done
  BY Zenon DEF Done
<1> QED
  BY <1>1, <1>2, Zenon

\* A call that returns carries no frame.
LEMMA ReturnReads ==
    ASSUME NEW h \in Hart, CallsOK, Return(h)
    PROVE  /\ CarriedBy(op'[h]) = None /\ op'[h].at = "idle" /\ op'[h].frame = None
           /\ \A g \in Hart \ {h} : op'[g] = op[g]
<1>1. op'[h] = Done /\ \A g \in Hart \ {h} : op'[g] = op[g]
  BY Zenon DEF Return, Set, CallsOK
<1> QED
  BY <1>1 DEF CarriedBy, Done, Mapping

\* A call carries a frame only at the steps that hold one.
LEMMA NothingCarried ==
    ASSUME NEW o, NEW F, CallOK(o, F), o.at \notin Holding \cup Stripping
    PROVE  CarriedBy(o) = None
BY Zenon DEF CallOK, CarriedBy

\* At all other steps every call holds what it held.
LEMMA StepKeeps ==
    ASSUME NEW h \in Hart, Shape, setup' = setup, Step(h), ~Moves(h)
    PROVE  \A g \in Hart : CarriedBy(op'[g]) = CarriedBy(op[g])
<1> DEFINE o == op[h]
           Keeps == \A g \in Hart : CarriedBy(op'[g]) = CarriedBy(op[g])
<1>1. CallOK(o, setup.frames) /\ CallsOK
  BY Zenon DEF Shape, CallsOK
<1>2. CallOK(op'[h], setup.frames)
  BY StepCalls, Zenon DEF CallsOK
<1> SUFFICES Keeps
  BY Zenon
<1>3. ASSUME NEW r, Goto(h, r), "frame" \notin DOMAIN r,
             "at" \in DOMAIN r => (r["at"] \in Mapping <=> o.at \in Mapping)
      PROVE  Keeps
  <2>1. /\ op'[h].at = IF "at" \in DOMAIN r THEN r["at"] ELSE o.at
        /\ op'[h].frame = o.frame
        /\ \A g \in Hart \ {h} : op'[g] = op[g]
    BY <1>1, <1>3, GotoReads, Zenon
  <2>2. CarriedBy(op'[h]) = CarriedBy(op[h])
    BY <1>3, <2>1, Zenon DEF CarriedBy
  <2> QED
    BY <2>1, <2>2, Zenon
<1>4. CASE Return(h) /\ CarriedBy(o) = None
  <2>1. CarriedBy(op'[h]) = None /\ \A g \in Hart \ {h} : op'[g] = op[g]
    BY <1>1, <1>4, ReturnReads, Zenon
  <2> QED
    BY <1>4, <2>1, Zenon
<1>5. CASE Resume(h) /\ CarriedBy(o) = None /\ o.at \in {"strip", "revoke"}
  <2>1. CASE o.then # "idle"
    <3>1. Goto(h, [at |-> o.then, then |-> "idle"])
      BY <1>5, <2>1, Zenon DEF Resume
    <3>2. o.then \notin Mapping /\ o.at \notin Mapping
      BY <1>1, <1>5, Zenon DEF CallOK, Mapping
    <3> QED
      BY <1>3, <3>1, <3>2, Zenon
  <2>2. CASE o.then = "idle"
    BY <1>4, <1>5, <2>2, Zenon DEF Resume
  <2> QED
    BY <2>1, <2>2, Zenon
<1> USE DEF Holding, Stripping
<1>6. CASE ClearCap(h) \/ PoolSlot(h) \/ MapUndo(h) \/ Claim(h)
  <2>1. Return(h) /\ o.at \in {"clear", "pool_slot", "map_undo", "claim"}
    BY <1>6, Zenon DEF ClearCap, PoolSlot, MapUndo, Claim, At
  <2> QED
    BY <1>1, <1>4, <2>1, NothingCarried, Zenon
<1>7. CASE Revoked(h)
  <2>1. Resume(h) /\ o.at = "revoke"
    BY <1>7, Zenon DEF Revoked, At
  <2> QED
    BY <1>1, <1>5, <2>1, NothingCarried, Zenon
<1>8. CASE Invalidate(h) \/ Teardown(h)
  BY <1>1, <1>8, Zenon DEF CallOK, Invalidate, Teardown, At
<1>9. CASE Revoke(h)
  <2>1. o.at = "revoke" /\ ~Valid(Head(o.todo))
    BY <1>9, Zenon DEF Revoke, At, Moves
  <2>2. CASE Goto(h, [todo |-> Tail(o.todo)])
    BY <1>3, <2>2, Zenon
  <2>3. CASE Return(h)
    BY <1>1, <1>4, <2>1, <2>3, NothingCarried, Zenon
  <2> QED
    BY <1>9, <2>1, <2>2, <2>3, Zenon DEF Revoke
<1>10. CASE StripRoot(h)
  <2> DEFINE a == IF PidRoot(Head(o.strip).p) = None THEN "strip_clear" ELSE "strip_unmap"
  <2>1. Goto(h, [at |-> a, ra |-> PidRoot(Head(o.strip).p)]) /\ o.at = "strip"
    BY <1>10, Zenon DEF StripRoot, At
  <2>2. a \notin Mapping /\ o.at \notin Mapping
    BY <2>1, Zenon DEF Mapping
  <2> HIDE DEF a
  <2> QED
    BY <1>3, <2>1, <2>2, Zenon
<1>11. CASE StripUnmap(h) \/ StripClear(h)
  <2>1. o.at \in {"strip_unmap", "strip_clear"}
    BY <1>11, Zenon DEF StripUnmap, StripClear, At
  <2>2. CASE Goto(h, [at |-> "strip_clear", ra |-> None])
    BY <1>3, <2>1, <2>2, Zenon DEF Mapping
  <2>3. CASE Goto(h, [at |-> "strip", strip |-> Tail(o.strip)])
    BY <1>3, <2>1, <2>3, Zenon DEF Mapping
  <2> QED
    BY <1>11, <2>2, <2>3, Zenon DEF StripUnmap, StripClear
<1>12. CASE Stripped(h)
  <2>1. Resume(h) /\ o.at = "strip" /\ o.frame = None
    BY <1>12, Zenon DEF Stripped, At, Moves
  <2> QED
    BY <1>5, <2>1, Zenon DEF CarriedBy, Mapping
<1>13. CASE ShareAlloc(h)
  <2>1. Return(h) /\ o.at = "share_alloc"
    BY <1>13, Zenon DEF ShareAlloc, At, Moves
  <2> QED
    BY <1>1, <1>4, <2>1, NothingCarried, Zenon
<1>14. CASE ShareMapA(h) \/ ShareMapB(h)
  <2>1. o.at \in {"share_map_a", "share_map_b"}
    BY <1>14, Zenon DEF ShareMapA, ShareMapB, At
  <2>2. CASE Goto(h, [at |-> "share_map_b"])
    BY <1>3, <2>1, <2>2, Zenon DEF Mapping
  <2>3. CASE Goto(h, [at |-> "share_enter"])
    BY <1>3, <2>1, <2>3, Zenon DEF Mapping
  <2>4. CASE Goto(h, [at |-> "share_undo", ra |-> None, rb |-> None])
    BY <1>3, <2>1, <2>4, Zenon DEF Mapping
  <2>5. CASE Goto(h, [at |-> "share_undo", rb |-> None])
    BY <1>3, <2>1, <2>5, Zenon DEF Mapping
  <2> QED
    BY <1>14, <2>2, <2>3, <2>4, <2>5, Zenon DEF ShareMapA, ShareMapB
<1>15. CASE ShareEnter(h)
  <2>1. Goto(h, [at |-> "share_undo"]) /\ o.at = "share_enter"
    BY <1>15, Zenon DEF ShareEnter, At, Moves
  <2> QED
    BY <1>3, <2>1, Zenon DEF Mapping
<1>16. CASE ShareUndo(h)
  <2>1. Goto(h, [ra |-> o.rb, rb |-> None])
    BY <1>16, Zenon DEF ShareUndo, Moves
  <2> QED
    BY <1>3, <2>1, Zenon
<1>17. CASE PageEnter(h)
  BY <1>17, Zenon DEF Moves
\* The other steps neither start nor end while a frame is held.
<1>18. CASE ShareRootB(h) \/ ShareRootA(h)
  <2>1. o.at \in {"share_root_b", "share_root_a"}
    BY <1>18, Zenon DEF ShareRootB, ShareRootA, At
  <2>2. CASE Goto(h, [at |-> "share_root_a", rb |-> PidRoot(o.peer)])
    BY <1>3, <2>1, <2>2, Zenon DEF Mapping
  <2>3. CASE Goto(h, [at |-> "share_alloc", ra |-> PidRoot(o.p)])
    BY <1>3, <2>1, <2>3, Zenon DEF Mapping
  <2>4. CASE Return(h)
    BY <1>1, <1>4, <2>1, <2>4, NothingCarried, Zenon
  <2> QED
    BY <1>18, <2>2, <2>3, <2>4, Zenon DEF ShareRootB, ShareRootA
<1>19. CASE ShareGrantA(h) \/ ShareGrantB(h)
  <2>1. o.at \in {"share_grant_a", "share_grant_b"}
    BY <1>19, Zenon DEF ShareGrantA, ShareGrantB, ShareGrant, At
  <2>2. CASE Goto(h, [at |-> "revoke", todo |-> <<Shm(o.id)>>])
    BY <1>3, <2>1, <2>2, Zenon DEF Mapping
  <2>3. CASE Goto(h, [at |-> "share_grant_b"])
    BY <1>3, <2>1, <2>3, Zenon DEF Mapping
  <2>4. CASE Return(h)
    BY <1>1, <1>4, <2>1, <2>4, NothingCarried, Zenon
  <2> QED
    BY <1>19, <2>2, <2>3, <2>4, Zenon DEF ShareGrantA, ShareGrantB, ShareGrant
<1>20. CASE GrantPeer(h) \/ GrantAlive(h) \/ GrantDst(h)
  <2>1. o.at \in {"grant_peer", "grant_alive", "grant_dst"}
    BY <1>20, Zenon DEF GrantPeer, GrantAlive, GrantDst, At
  <2>2. ASSUME NEW q, Goto(h, [at |-> "grant_alive", peer |-> q, pslot |-> None]) PROVE Keeps
    BY <1>3, <2>1, <2>2, Zenon DEF Mapping
  <2>3. CASE Goto(h, [at |-> "grant_dst"])
    BY <1>3, <2>1, <2>3, Zenon DEF Mapping
  <2>4. CASE Goto(h, [at |-> "grant"])
    BY <1>3, <2>1, <2>4, Zenon DEF Mapping
  <2>5. CASE Return(h)
    BY <1>1, <1>4, <2>1, <2>5, NothingCarried, Zenon
  <2> QED
    BY <1>20, <2>2, <2>3, <2>4, <2>5, Zenon DEF GrantPeer, GrantAlive, GrantDst
<1>21. CASE Grant(h) \/ GrantBack(h)
  <2>1. o.at \in {"grant", "grant_back"}
    BY <1>21, Zenon DEF Grant, GrantBack, At
  <2>2. ASSUME NEW s, NEW t, Goto(h, [at |-> "strip", strip |-> s, then |-> t]) PROVE Keeps
    BY <1>3, <2>1, <2>2, Zenon DEF Mapping
  <2>3. CASE Return(h)
    BY <1>1, <1>4, <2>1, <2>3, NothingCarried, Zenon
  <2> QED
    BY <1>21, <2>2, <2>3, Zenon DEF Grant, GrantBack, GrantTo
<1>22. CASE PageSlot(h) \/ ConnectClient(h) \/ ConnectServer(h)
  <2>1. o.at \in {"page_slot", "connect_client", "connect_server"}
    BY <1>22, Zenon DEF PageSlot, ConnectClient, ConnectServer, At
  <2>2. ASSUME NEW a \in {"clear", "grant_back", "connect_server"}, Goto(h, [at |-> a])
        PROVE  Keeps
    BY <1>3, <2>1, <2>2, Zenon DEF Mapping
  <2>3. CASE Return(h)
    BY <1>1, <1>4, <2>1, <2>3, NothingCarried, Zenon
  <2> QED
    BY <1>22, <2>2, <2>3, Zenon DEF PageSlot, ConnectClient, ConnectServer
<1>23. CASE MapTest(h)
  <2>1. o.at = "map_test"
    BY <1>23, Zenon DEF MapTest, At
  <2>2. CASE Goto(h, [at |-> "map_paddr"])
    BY <1>3, <2>1, <2>2, Zenon DEF Mapping
  <2>3. CASE Return(h)
    BY <1>1, <1>4, <2>1, <2>3, NothingCarried, Zenon
  <2> QED
    BY <1>23, <2>2, <2>3, Zenon DEF MapTest
<1>24. CASE MapPaddr(h)
  <2>1. o.at = "map_paddr"
    BY <1>24, Zenon DEF MapPaddr, At
  <2>2. ASSUME NEW f, Goto(h, [at |-> "map_root", frame |-> f]) PROVE Keeps
    <3>1. op'[h].at = "map_root" /\ \A g \in Hart \ {h} : op'[g] = op[g]
      BY <1>1, <2>2, GotoReads
    <3>2. CarriedBy(op'[h]) = None /\ CarriedBy(o) = None
      BY <1>1, <2>1, <3>1, NothingCarried, Zenon DEF CarriedBy, Mapping
    <3> QED
      BY <3>1, <3>2, Zenon
  <2>3. CASE Return(h)
    BY <1>1, <1>4, <2>1, <2>3, NothingCarried, Zenon
  <2> QED
    BY <1>24, <2>2, <2>3, Zenon DEF MapPaddr
<1>25. CASE MapRoot(h) \/ Map(h) \/ MapRecord(h)
  <2>1. o.at \in {"map_root", "map", "map_record"}
    BY <1>25, Zenon DEF MapRoot, Map, MapRecord, At
  <2>2. CASE Goto(h, [at |-> "map", ra |-> PidRoot(o.p)])
    BY <1>3, <2>1, <2>2, Zenon DEF Mapping
  <2>3. ASSUME NEW a \in {"map_record", "map_undo"}, Goto(h, [at |-> a]) PROVE Keeps
    BY <1>3, <2>1, <2>3, Zenon DEF Mapping
  <2>4. CASE Return(h)
    BY <1>1, <1>4, <2>1, <2>4, NothingCarried, Zenon
  <2> QED
    BY <1>25, <2>2, <2>3, <2>4, Zenon DEF MapRoot, Map, MapRecord
<1> QED
  BY <1>6, <1>7, <1>8, <1>9, <1>10, <1>11, <1>12, <1>13, <1>14, <1>15, <1>16, <1>17,
     <1>18, <1>19, <1>20, <1>21, <1>22, <1>23, <1>24, <1>25, Zenon DEF Step

\* A place where a frame can be: the allocator, an entry of a registry, a call.
Holds(k, n, f) ==
    \/ k = "avail" /\ n = 0 /\ f \in avail
    \/ k = "shm" /\ Has(shms, n) /\ shms[n + 1].paddr = f
    \/ k = "page" /\ Has(pages, n) /\ pages[n + 1].paddr = f
    \/ k = "hart" /\ n \in Hart /\ CarriedBy(op[n]) = f

\* Every frame is in one place.
OnePlace(f) == \E k, n : Holds(k, n, f) /\ \A j, m : Holds(j, m, f) => j = k /\ m = n
Places == \A f \in setup.frames : OnePlace(f)

Others(h) == \A g \in Hart \ {h} : op'[g] = op[g]

\* Nothing moves.
LEMMA Stayed ==
    ASSUME Places, setup' = setup, avail' = avail, shms' = shms, SamePages,
           \A g \in Hart : CarriedBy(op'[g]) = CarriedBy(op[g])
    PROVE  Places'
<1>1. \A f \in setup.frames : \A k, n : Holds(k, n, f)' <=> Holds(k, n, f)
  BY DEF Holds, SamePages
<1> HIDE DEF Holds
<1>2. \A f \in setup.frames : OnePlace(f)'
  BY <1>1 DEF Places, OnePlace
<1> QED
  BY <1>2, Zenon DEF Places

\* One frame moves to a new place, and is there only.
MovesTo(f, k, n) ==
    /\ \A j, m : Holds(j, m, f)' <=> j = k /\ m = n
    /\ \A g \in setup.frames \ {f} : \A j, m : Holds(j, m, g)' <=> Holds(j, m, g)

\* A step that moves one frame from one place to another.
LEMMA Moved ==
    ASSUME Places, setup' = setup, NEW f \in setup.frames, NEW k, NEW n, MovesTo(f, k, n)
    PROVE  Places'
<1> HIDE DEF Holds
<1>1. OnePlace(f)'
  BY DEF OnePlace, MovesTo
<1>2. \A g \in setup.frames \ {f} : OnePlace(g)'
  BY DEF Places, OnePlace, MovesTo
<1> QED
  BY <1>1, <1>2, Zenon DEF Places

\* A frame in one place is in no other.
LEMMA NowhereElse ==
    ASSUME Places, NEW f \in setup.frames, NEW k, NEW n, Holds(k, n, f)
    PROVE  \A j, m : Holds(j, m, f) <=> j = k /\ m = n
<1> HIDE DEF Holds
<1> QED
  BY DEF Places, OnePlace

\* From the allocator to a call, and back.
LEMMA Allocated ==
    ASSUME Shape, Places, setup' = setup, NEW h \in Hart, NEW f \in setup.frames,
           f \in avail, avail' = avail \ {f}, shms' = shms, pages' = pages,
           CarriedBy(op[h]) = None, CarriedBy(op'[h]) = f, Others(h)
    PROVE  Places'
<1>1. None \notin setup.frames
  BY FramesAre, Zenon DEF Shape
<1>2. Holds("avail", 0, f)
  BY Zenon DEF Holds
<1>3. \A j, m : Holds(j, m, f) => j = "avail" /\ m = 0
  BY <1>2, NowhereElse, Zenon
<1>4. \A j, m : Holds(j, m, f)' <=> j = "hart" /\ m = h
  BY <1>3 DEF Holds, Others
<1>5. \A g \in setup.frames \ {f} : \A j, m : Holds(j, m, g)' <=> Holds(j, m, g)
  BY <1>1 DEF Holds, Others
<1>7. MovesTo(f, "hart", h)
  BY <1>4, <1>5, Zenon DEF MovesTo
<1> QED
  BY <1>7, Moved, Zenon

\* A call frees the frame it carries.
LEMMA Freed ==
    ASSUME Shape, Places, setup' = setup, NEW h \in Hart, NEW f \in setup.frames,
           avail' = avail \cup {f}, shms' = shms, pages' = pages,
           CarriedBy(op[h]) = f, CarriedBy(op'[h]) = None, Others(h)
    PROVE  Places' /\ f \notin avail
<1>1. None \notin setup.frames
  BY FramesAre, Zenon DEF Shape
<1>2. Holds("hart", h, f)
  BY Zenon DEF Holds
<1>3. \A j, m : Holds(j, m, f) => j = "hart" /\ m = h
  BY <1>2, NowhereElse, Zenon
<1>4. \A j, m : Holds(j, m, f)' <=> j = "avail" /\ m = 0
  BY <1>1, <1>3 DEF Holds, Others
<1>5. \A g \in setup.frames \ {f} : \A j, m : Holds(j, m, g)' <=> Holds(j, m, g)
  BY <1>1 DEF Holds, Others
<1>6. f \notin avail
  BY <1>3, Zenon DEF Holds
<1>7. MovesTo(f, "avail", 0)
  BY <1>4, <1>5, Zenon DEF MovesTo
<1> QED
  BY <1>6, <1>7, Moved, Zenon

\* From a call to a new entry.
LEMMA Shared ==
    ASSUME Shape, Places, setup' = setup, NEW h \in Hart, NEW f \in setup.frames, NEW i,
           avail' = avail, pages' = pages, ~Has(shms, i), shms'[i + 1].paddr = f,
           \A j : Has(shms', j) <=> Has(shms, j) \/ j = i,
           \A j : Has(shms, j) => shms'[j + 1] = shms[j + 1],
           CarriedBy(op[h]) = f, CarriedBy(op'[h]) = None, Others(h)
    PROVE  Places'
<1>1. None \notin setup.frames
  BY FramesAre, Zenon DEF Shape
<1>2. Holds("hart", h, f)
  BY Zenon DEF Holds
<1>3. \A j, m : Holds(j, m, f) => j = "hart" /\ m = h
  BY <1>2, NowhereElse
<1>4. \A j, m : Holds(j, m, f)' <=> j = "shm" /\ m = i
  BY <1>1, <1>3, Zenon DEF Holds, Others
<1>5. \A g \in setup.frames \ {f} : \A j, m : Holds(j, m, g)' <=> Holds(j, m, g)
  BY <1>1 DEF Holds, Others
<1>7. MovesTo(f, "shm", i)
  BY <1>4, <1>5, Zenon DEF MovesTo
<1> QED
  BY <1>7, Moved, Zenon

\* A call enters the frame it carries in the page registry.
LEMMA Entered ==
    ASSUME Shape, Places, setup' = setup, NEW h \in Hart, NEW f \in setup.frames, NEW i,
           avail' = avail, shms' = shms, ~Has(pages, i), pages'[i + 1].paddr = f,
           \A j : Has(pages', j) <=> Has(pages, j) \/ j = i,
           \A j : Has(pages, j) => pages'[j + 1] = pages[j + 1],
           CarriedBy(op[h]) = f, CarriedBy(op'[h]) = None, Others(h)
    PROVE  Places'
<1>1. None \notin setup.frames
  BY FramesAre, Zenon DEF Shape
<1>2. Holds("hart", h, f)
  BY Zenon DEF Holds
<1>3. \A j, m : Holds(j, m, f) => j = "hart" /\ m = h
  BY <1>2, NowhereElse
<1>4. \A j, m : Holds(j, m, f)' <=> j = "page" /\ m = i
  BY <1>1, <1>3, Zenon DEF Holds, Others
<1>5. \A g \in setup.frames \ {f} : \A j, m : Holds(j, m, g)' <=> Holds(j, m, g)
  BY <1>1 DEF Holds, Others
<1>7. MovesTo(f, "page", i)
  BY <1>4, <1>5, Zenon DEF MovesTo
<1> QED
  BY <1>7, Moved, Zenon

\* From an entry to the call that revokes it.
LEMMA Unshared ==
    ASSUME Shape, Places, setup' = setup, NEW h \in Hart, NEW f \in setup.frames, NEW i,
           avail' = avail, pages' = pages, Has(shms, i), shms[i + 1].paddr = f,
           \A j : Has(shms', j) <=> Has(shms, j) /\ j # i,
           \A j : Has(shms', j) => shms'[j + 1] = shms[j + 1],
           CarriedBy(op[h]) = None, CarriedBy(op'[h]) = f, Others(h)
    PROVE  Places'
<1>1. None \notin setup.frames
  BY FramesAre, Zenon DEF Shape
<1>2. Holds("shm", i, f)
  BY Zenon DEF Holds
<1>3. \A j, m : Holds(j, m, f) => j = "shm" /\ m = i
  BY <1>2, NowhereElse, Zenon
<1>4. \A j, m : Holds(j, m, f)' <=> j = "hart" /\ m = h
  BY <1>1, <1>3, Zenon DEF Holds, Others
<1>5. \A g \in setup.frames \ {f} : \A j, m : Holds(j, m, g)' <=> Holds(j, m, g)
  BY <1>1 DEF Holds, Others
<1>7. MovesTo(f, "hart", h)
  BY <1>4, <1>5, Zenon DEF MovesTo
<1> QED
  BY <1>7, Moved, Zenon

\* A call takes a frame out of the page registry.
LEMMA Withdrawn ==
    ASSUME Shape, Places, setup' = setup, NEW h \in Hart, NEW f \in setup.frames, NEW i,
           avail' = avail, shms' = shms, Has(pages, i), pages[i + 1].paddr = f,
           \A j : Has(pages', j) <=> Has(pages, j) /\ j # i,
           \A j : Has(pages', j) => pages'[j + 1] = pages[j + 1],
           CarriedBy(op[h]) = None, CarriedBy(op'[h]) = f, Others(h)
    PROVE  Places'
<1>1. None \notin setup.frames
  BY FramesAre, Zenon DEF Shape
<1>2. Holds("page", i, f)
  BY Zenon DEF Holds
<1>3. \A j, m : Holds(j, m, f) => j = "page" /\ m = i
  BY <1>2, NowhereElse, Zenon
<1>4. \A j, m : Holds(j, m, f)' <=> j = "hart" /\ m = h
  BY <1>1, <1>3, Zenon DEF Holds, Others
<1>5. \A g \in setup.frames \ {f} : \A j, m : Holds(j, m, g)' <=> Holds(j, m, g)
  BY <1>1 DEF Holds, Others
<1>7. MovesTo(f, "hart", h)
  BY <1>4, <1>5, Zenon DEF MovesTo
<1> QED
  BY <1>7, Moved, Zenon

Spaces == [Root -> [VA -> Frame \cup {DEV, None}]]
Claims == [owner : Pid \cup {None}, va : VA \cup {None}]

\* The page tables that a call writes are there.
LEMMA UnmapOK ==
    ASSUME Shape, NEW r \in Roots, NEW va, Unmap(r, va)
    PROVE  faults' = {} /\ space' \in Spaces
<1>1. r \in live /\ space \in Spaces /\ faults = {}
  BY Zenon DEF Shape, Processes, Memory, Spaces
<1>2. space' = [space EXCEPT ![r][va] = None] /\ faults' = faults
  BY <1>1, Zenon DEF Unmap
<1> QED
  BY <1>1, <1>2, Zenon DEF Spaces

\* A page table entry is written.
LEMMA MapOK ==
    ASSUME Shape, NEW r \in Roots, NEW va, NEW f \in Frame \cup {DEV}, MapPage(r, va, f)
    PROVE  faults' = {} /\ space' \in Spaces
<1>1. r \in live /\ space \in Spaces /\ faults = {}
  BY Zenon DEF Shape, Processes, Memory, Spaces
<1>2. space' = [space EXCEPT ![r][va] = f] /\ faults' = faults
  BY <1>1, Zenon DEF MapPage
<1> QED
  BY <1>1, <1>2, Zenon DEF Spaces

\* A step that leaves the page registry alone.
LEMMA PagesKept == ASSUME Shape, pages' = pages PROVE SamePages
BY Zenon DEF Shape, Entries, SamePages

\* Where no frame changes hands the tables keep their shape.
LEMMA StepSteady ==
    ASSUME NEW h \in Hart, Shape, Step(h), ~Moves(h)
    PROVE  /\ avail' = avail /\ shms' = shms /\ SamePages /\ faults' = {}
           /\ space' \in Spaces /\ services' = services /\ claim' \in Claims
<1> DEFINE Goal == /\ avail' = avail /\ shms' = shms /\ SamePages /\ faults' = {}
                   /\ space' \in Spaces /\ services' = services /\ claim' \in Claims
           o == op[h]
<1> SUFFICES Goal
  BY Zenon
<1>1. CallOK(o, setup.frames) /\ setup.frames \subseteq Frame
  BY FramesAre, Zenon DEF Shape, CallsOK
<1>2. faults = {} /\ space \in Spaces /\ claim \in Claims
  BY Zenon DEF Shape, Memory, Spaces, Claims
<1>3. CASE UNCHANGED <<memory, names, shms, pages>>
  BY <1>2, <1>3, PagesKept, Zenon DEF memory, names
<1>4. CASE /\ UNCHANGED <<avail, shms, pages, names>>
           /\ faults' = {} /\ space' \in Spaces
  BY <1>2, <1>4, PagesKept, Zenon DEF names
<1> USE DEF procs, shmreg, pagereg
<1>5. CASE ClearCap(h) \/ PoolSlot(h) \/ Revoked(h)
  BY <1>3, <1>5, Zenon DEF ClearCap, PoolSlot, Revoked
<1>6. CASE Invalidate(h) \/ Teardown(h)
  BY <1>1, <1>6, Zenon DEF CallOK, Invalidate, Teardown, At
<1>7. CASE Revoke(h)
  BY <1>3, <1>7, Zenon DEF Revoke, Moves
<1>8. CASE StripRoot(h) \/ StripClear(h)
  BY <1>3, <1>8, Zenon DEF StripRoot, StripClear
<1>9. CASE StripUnmap(h)
  <2>1. o.ra \in Roots
    BY <1>1, <1>9, Zenon DEF CallOK, StripUnmap, At
  <2> QED
    BY <1>4, <1>9, <2>1, UnmapOK, Zenon DEF StripUnmap
<1>10. CASE Stripped(h)
  <2>1. o.frame = None /\ UNCHANGED <<avail, faults, space, shms, pages, names>>
    BY <1>10, Zenon DEF Stripped, Moves
  <2> QED
    BY <1>2, <1>4, <2>1, Zenon
<1>11. CASE ShareRootA(h) \/ ShareRootB(h)
  BY <1>3, <1>11, Zenon DEF ShareRootA, ShareRootB
<1>12. CASE ShareAlloc(h)
  <2>1. UNCHANGED <<avail, faults, space, shms, pages, names>>
    BY <1>12, Zenon DEF ShareAlloc, Moves
  <2> QED
    BY <1>2, <1>4, <2>1, Zenon
<1>13. CASE ShareMapA(h) \/ ShareMapB(h)
  <2>1. o.ra \in Roots /\ o.rb \in Roots /\ o.frame \in Frame \cup {DEV}
    BY <1>1, <1>13, Zenon DEF CallOK, ShareMapA, ShareMapB, At, Holding
  <2>2. UNCHANGED <<avail, shms, pages, names>>
    BY <1>13, Zenon DEF ShareMapA, ShareMapB
  <2>3. CASE MapPage(o.ra, SHM_VA, o.frame)
    BY <1>4, <2>1, <2>2, <2>3, MapOK, Zenon
  <2>4. CASE MapPage(o.rb, SHM_VA, o.frame)
    BY <1>4, <2>1, <2>2, <2>4, MapOK, Zenon
  <2>5. CASE UNCHANGED <<space, faults>>
    BY <1>2, <1>4, <2>2, <2>5, Zenon
  <2> QED
    BY <1>13, <2>3, <2>4, <2>5, Zenon DEF ShareMapA, ShareMapB, MapFails
<1>14. CASE ShareEnter(h)
  BY <1>3, <1>14, Zenon DEF ShareEnter, Moves
<1>15. CASE ShareUndo(h)
  <2>1. o.ra # None /\ Unmap(o.ra, SHM_VA) /\ UNCHANGED <<avail, shms, pages, names>>
    BY <1>15, Zenon DEF ShareUndo, Moves
  <2>2. o.ra \in Roots
    BY <1>1, <1>15, <2>1, Zenon DEF CallOK, ShareUndo, At
  <2> QED
    BY <1>4, <2>1, <2>2, UnmapOK, Zenon
<1>16. CASE ShareGrantA(h) \/ ShareGrantB(h)
  BY <1>3, <1>16, Zenon DEF ShareGrantA, ShareGrantB, ShareGrant
<1>17. CASE PageEnter(h)
  BY <1>17, Zenon DEF Moves
<1>18. CASE GrantPeer(h) \/ GrantAlive(h) \/ GrantDst(h) \/ PageSlot(h)
  BY <1>3, <1>18, Zenon DEF GrantPeer, GrantAlive, GrantDst, PageSlot
<1>19. CASE Grant(h) \/ GrantBack(h)
  <2>1. o.p \in Pid
    BY <1>1, <1>19, Zenon DEF CallOK, Grant, GrantBack, At
  <2>2. Grant(h) => o.peer \in Pid
    BY <1>1, <1>19, Zenon DEF CallOK, Grant, At, Pairing
  <2>3. SamePages
    <3>1. CASE Grant(h)
      <4>1. GrantTo(h, o.peer, "page_slot") /\ o.peer \in Pid
        BY <2>2, <3>1, Zenon DEF Grant
      <4> QED
        BY <4>1, GrantPages, Zenon
    <3>2. CASE GrantBack(h)
      <4>1. GrantTo(h, o.p, "idle")
        BY <3>2, Zenon DEF GrantBack
      <4> QED
        BY <2>1, <4>1, GrantPages, Zenon
    <3> QED
      BY <1>19, <3>1, <3>2, Zenon
  <2>4. UNCHANGED <<memory, names, shms>>
    BY <1>19, Zenon DEF Grant, GrantBack
  <2> QED
    BY <1>2, <2>3, <2>4, Zenon DEF memory, names
<1>20. CASE MapTest(h) \/ MapPaddr(h) \/ MapRoot(h)
  BY <1>3, <1>20, Zenon DEF MapTest, MapPaddr, MapRoot
<1>21. CASE Map(h)
  <2>1. o.ra \in Roots /\ o.frame \in Frame \cup {DEV}
    BY <1>1, <1>21, Zenon DEF CallOK, Map, At, Mapping
  <2>2. UNCHANGED <<avail, shms, pages, names>>
    BY <1>21, Zenon DEF Map
  <2>3. CASE MapPage(o.ra, o.va, o.frame)
    BY <1>4, <2>1, <2>2, <2>3, MapOK, Zenon
  <2>4. CASE UNCHANGED <<space, faults>>
    BY <1>2, <1>4, <2>2, <2>4, Zenon
  <2> QED
    BY <1>21, <2>3, <2>4, Zenon DEF Map, MapFails
<1>22. CASE MapRecord(h)
  <2>1. SamePages
    BY <1>22, RecordPages, Zenon
  <2>2. UNCHANGED <<memory, names, shms>>
    BY <1>22, Zenon DEF MapRecord
  <2> QED
    BY <1>2, <2>1, <2>2, Zenon DEF memory, names
<1>23. CASE MapUndo(h)
  <2>1. o.ra \in Roots
    BY <1>1, <1>23, Zenon DEF CallOK, MapUndo, At
  <2> QED
    BY <1>4, <1>23, <2>1, UnmapOK, Zenon DEF MapUndo
<1>24. CASE ConnectClient(h) \/ ConnectServer(h)
  BY <1>3, <1>24, Zenon DEF ConnectClient, ConnectServer
<1>25. CASE Claim(h)
  <2>1. o.ra \in Roots /\ o.p \in Pid /\ o.va \in VA /\ DEV \in Frame \cup {DEV}
    BY <1>1, <1>25, Zenon DEF CallOK, Claim, At
  <2>2. UNCHANGED <<avail, shms, pages, services>>
    BY <1>25, Zenon DEF Claim
  <2>3. CASE MapPage(o.ra, o.va, DEV) /\ claim' = [owner |-> o.p, va |-> o.va]
    <3>1. faults' = {} /\ space' \in Spaces
      BY <2>1, <2>3, MapOK, Zenon
    <3>2. claim' \in Claims
      BY <2>1, <2>3, Zenon DEF Claims
    <3> QED
      BY <2>2, <3>1, <3>2, PagesKept, Zenon
  <2>4. CASE UNCHANGED <<claim, space, faults>>
    BY <1>2, <2>2, <2>4, PagesKept, Zenon
  <2> QED
    BY <1>25, <2>3, <2>4, Zenon DEF Claim, MapFails
<1> QED
  BY <1>5, <1>6, <1>7, <1>8, <1>9, <1>10, <1>11, <1>12, <1>13, <1>14, <1>15, <1>16, <1>17,
     <1>18, <1>19, <1>20, <1>21, <1>22, <1>23, <1>24, <1>25, Zenon DEF Step

\* What has to be shown of a step besides the calls, processes and pools.
Kept == Entries' /\ Memory' /\ Places'

\* A step that leaves every frame where it is.
LEMMA SteadyKept ==
    ASSUME Shape, Places, setup' = setup, avail' = avail, shms' = shms, SamePages, faults' = {},
           space' \in Spaces, services' \in [Service -> Pid \cup {None}], claim' \in Claims,
           \A g \in Hart : CarriedBy(op'[g]) = CarriedBy(op[g])
    PROVE  Kept
<1>1. Entries'
  BY Zenon DEF Shape, Entries, SamePages
<1>2. Memory'
  BY Zenon DEF Shape, Memory, Spaces, Claims
<1>3. Places'
  BY Stayed, Zenon
<1> QED
  BY <1>1, <1>2, <1>3, Zenon DEF Kept

\* avail' lies among the frames, and nothing else of the memory changes.
LEMMA MemoryKept ==
    ASSUME Shape, setup' = setup, avail' \subseteq setup.frames, faults' = {},
           UNCHANGED <<space, names>>
    PROVE  Memory'
BY Zenon DEF Shape, Memory, names

\* A step that leaves both registries alone.
LEMMA EntriesKept ==
    ASSUME Shape, setup' = setup, shms' = shms, pages' = pages
    PROVE  Entries'
BY Zenon DEF Shape, Entries

\* free_pages gets back a frame that a call holds: it is not free already.
LEMMA FreedKept ==
    ASSUME Shape, Places, setup' = setup, NEW h \in Hart, FreePages({op[h].frame}),
           op[h].frame \in setup.frames, op[h].at \notin Mapping,
           UNCHANGED <<shms, pages, space, names>>, CarriedBy(op'[h]) = None, Others(h)
    PROVE  Kept
<1> DEFINE f == op[h].frame
<1>1. CarriedBy(op[h]) = f
  BY Zenon DEF CarriedBy
<1>2. avail' = avail \cup {f}
  BY Zenon DEF FreePages
<1>3. Places' /\ f \notin avail
  BY <1>1, <1>2, Freed, Zenon
<1>4. faults' = {}
  BY <1>3, Zenon DEF FreePages, Shape, Memory
<1>5. avail' \subseteq setup.frames
  BY <1>2, Zenon DEF Shape, Memory
<1> QED
  BY <1>3, <1>4, <1>5, MemoryKept, EntriesKept, Zenon DEF Kept

\* alloc_pages hands out a frame that nobody holds.
LEMMA AllocatedKept ==
    ASSUME Shape, Places, setup' = setup, NEW h \in Hart, avail # {},
           avail' = avail \ {Some(avail)}, UNCHANGED <<shms, pages, space, names, faults>>,
           CarriedBy(op[h]) = None, CarriedBy(op'[h]) = Some(avail), Others(h)
    PROVE  Kept
<1>1. avail \subseteq setup.frames /\ avail \subseteq Nat /\ faults = {}
  BY FramesAre, Zenon DEF Shape, Memory
<1>2. Some(avail) \in avail
  BY <1>1, SomeIn, Zenon
<1>3. Places'
  BY <1>1, <1>2, Allocated, Zenon
<1>4. avail' \subseteq setup.frames
  BY <1>1, Zenon
<1> QED
  BY <1>1, <1>3, <1>4, MemoryKept, EntriesKept, Zenon DEF Kept

\* Every step of a call that moves a frame moves it to one place.
LEMMA MoveKept ==
    ASSUME Shape, Places, setup' = setup, NEW h \in Hart, Moves(h)
    PROVE  Kept
<1> DEFINE o == op[h]
           F == setup.frames
<1>1. CallOK(o, F) /\ CallsOK
  BY Zenon DEF Shape, CallsOK
<1>2. None \notin F
  BY FramesAre, Zenon DEF Shape
<1> USE DEF procs, shmreg, pagereg
<1>3. CASE ShareAlloc(h) /\ avail # {}
  <2>1. /\ o.at = "share_alloc" /\ avail' = avail \ {Some(avail)}
        /\ Goto(h, [at |-> "share_map_a", frame |-> Some(avail)])
        /\ UNCHANGED <<shms, pages, space, names, faults>>
    BY <1>3, Zenon DEF ShareAlloc, At
  <2>2. op'[h].at = "share_map_a" /\ op'[h].frame = Some(avail) /\ Others(h)
    BY <1>1, <2>1, GotoReads DEF Others
  <2>3. CarriedBy(o) = None /\ CarriedBy(op'[h]) = Some(avail)
    BY <1>1, <2>1, <2>2, NothingCarried, Zenon DEF CarriedBy, Mapping, Holding, Stripping
  <2> QED
    BY <1>3, <2>1, <2>2, <2>3, AllocatedKept, Zenon
<1>4. CASE Stripped(h) /\ o.frame # None
  <2>1. /\ o.at = "strip" /\ FreePages({o.frame})
        /\ Goto(h, [at |-> "revoke", frame |-> None])
        /\ UNCHANGED <<shms, pages, space, names>>
    BY <1>4, Zenon DEF Stripped, At
  <2>2. op'[h].frame = None /\ Others(h)
    BY <1>1, <2>1, GotoReads DEF Others
  <2>3. CarriedBy(op'[h]) = None /\ o.frame \in F /\ o.at \notin Mapping
    BY <1>1, <1>4, <2>1, <2>2, Zenon DEF CarriedBy, CallOK, Mapping
  <2> QED
    BY <2>1, <2>2, <2>3, FreedKept, Zenon
<1>5. CASE ShareUndo(h) /\ o.ra = None
  <2>1. /\ o.at = "share_undo" /\ FreePages({o.frame}) /\ Return(h)
        /\ UNCHANGED <<shms, pages, space, names>>
    BY <1>5, Zenon DEF ShareUndo, At
  <2>2. CarriedBy(op'[h]) = None /\ Others(h)
    BY <1>1, <2>1, ReturnReads, Zenon DEF Others
  <2>3. o.frame \in F /\ o.at \notin Mapping
    BY <1>1, <2>1, Zenon DEF CallOK, Mapping, Holding
  <2> QED
    BY <2>1, <2>2, <2>3, FreedKept, Zenon
<1>6. CASE PageEnter(h) /\ Len(pages) >= MAX_PAGES
  <2>1. /\ o.at = "page_enter" /\ FreePages({o.frame}) /\ Return(h)
        /\ UNCHANGED <<shms, pages, space, names>>
    BY <1>6, Zenon DEF PageEnter, At
  <2>2. CarriedBy(op'[h]) = None /\ Others(h)
    BY <1>1, <2>1, ReturnReads, Zenon DEF Others
  <2>3. o.frame \in F /\ o.at \notin Mapping
    BY <1>1, <2>1, Zenon DEF CallOK, Mapping, Holding
  <2> QED
    BY <2>1, <2>2, <2>3, FreedKept, Zenon
<1>7. CASE PageEnter(h) /\ ~(Len(pages) >= MAX_PAGES)
  <2> DEFINE i == NextId(pages, page_free)
  <2>1. /\ o.at = "page_enter" /\ Goto(h, [at |-> "pool_slot", id |-> i, frame |-> None])
        /\ UNCHANGED <<avail, faults, space, names>>
    BY <1>7, Zenon DEF PageEnter, At
  <2>2. op'[h].frame = None /\ Others(h)
    BY <1>1, <2>1, GotoReads DEF Others
  <2>3. CarriedBy(op'[h]) = None /\ CarriedBy(o) = o.frame /\ o.frame \in F
    BY <1>1, <2>1, <2>2, Zenon DEF CarriedBy, CallOK, Mapping, Holding
  <2>4. /\ ~Has(pages, i) /\ PageOK(pages'[i + 1], F) /\ pages'[i + 1].paddr = o.frame
        /\ \A j : Has(pages', j) <=> Has(pages, j) \/ j = i
        /\ \A j : Has(pages, j) => pages'[j + 1] = pages[j + 1]
        /\ Len(pages') <= MAX_PAGES /\ shms' = shms
    BY <1>7, PageEnterEntry, Zenon
  <2> HIDE DEF i
  <2>5. Places'
    BY <2>1, <2>2, <2>3, <2>4, Entered, Zenon
  <2>6. Entries'
    BY <2>4, Zenon DEF Shape, Entries
  <2>7. Memory'
    BY <2>1, MemoryKept, Zenon DEF Shape, Memory
  <2> QED
    BY <2>5, <2>6, <2>7, Zenon DEF Kept
<1>8. CASE ShareEnter(h) /\ ~(Len(shms) >= MAX_SHMS)
  <2> DEFINE i == NextId(shms, shm_free)
  <2>1. /\ o.at = "share_enter"
        /\ Goto(h, [at |-> "share_grant_a", id |-> i, frame |-> None, ra |-> None, rb |-> None])
        /\ UNCHANGED <<avail, faults, space, names>>
    BY <1>8, Zenon DEF ShareEnter, At, memory
  <2>2. op'[h].frame = None /\ Others(h)
    BY <1>1, <2>1, GotoReads DEF Others
  <2>3. CarriedBy(op'[h]) = None /\ CarriedBy(o) = o.frame /\ o.frame \in F
    BY <1>1, <2>1, <2>2, Zenon DEF CarriedBy, CallOK, Mapping, Holding
  <2>4. /\ ~Has(shms, i) /\ ShmOK(shms'[i + 1], F) /\ shms'[i + 1].paddr = o.frame
        /\ \A j : Has(shms', j) <=> Has(shms, j) \/ j = i
        /\ \A j : Has(shms, j) => shms'[j + 1] = shms[j + 1]
        /\ Len(shms') <= MAX_SHMS /\ pages' = pages
    BY <1>8, ShareEnterEntry, Zenon
  <2> HIDE DEF i
  <2>5. Places'
    BY <2>1, <2>2, <2>3, <2>4, Shared, Zenon
  <2>6. Entries'
    BY <2>4, Zenon DEF Shape, Entries
  <2>7. Memory'
    BY <2>1, MemoryKept, Zenon DEF Shape, Memory
  <2> QED
    BY <2>5, <2>6, <2>7, Zenon DEF Kept
<1>9. CASE Revoke(h) /\ Valid(Head(o.todo))
  <2> DEFINE c == Head(o.todo)
             f == Entry(c).paddr
  <2>1. /\ o.at = "revoke" /\ Goto(h, [at |-> "strip", todo |-> Tail(o.todo),
                                      strip |-> Strip(c), frame |-> f])
        /\ UNCHANGED <<avail, faults, space, names>>
    BY <1>9, Zenon DEF Revoke, At, memory
  <2>2. op'[h].at = "strip" /\ op'[h].frame = f /\ Others(h)
    BY <1>1, <2>1, GotoReads DEF Others
  <2>3. CarriedBy(op'[h]) = f /\ CarriedBy(o) = None
    BY <1>1, <2>1, <2>2, NothingCarried, Zenon DEF CarriedBy, Mapping, Holding, Stripping
  <2>4. Memory'
    BY <2>1, MemoryKept, Zenon DEF Shape, Memory
  <2>5. CASE /\ Has(shms, c[2]) /\ pages' = pages
             /\ \A j : Has(shms', j) <=> Has(shms, j) /\ j # c[2]
             /\ \A j : Has(shms', j) => shms'[j + 1] = shms[j + 1]
             /\ Len(shms') = Len(shms) /\ Entry(c) = shms[c[2] + 1]
    <3>1. f = shms[c[2] + 1].paddr /\ f \in F
      BY <2>5, Zenon DEF Shape, Entries, ShmOK
    <3> HIDE DEF c, f
    <3>2. Places'
      BY <2>1, <2>2, <2>3, <2>5, <3>1, Unshared, Zenon
    <3>3. Entries'
      BY <2>5, Zenon DEF Shape, Entries
    <3> QED
      BY <2>4, <3>2, <3>3, Zenon DEF Kept
  <2>6. CASE /\ Has(pages, c[2]) /\ shms' = shms
             /\ \A j : Has(pages', j) <=> Has(pages, j) /\ j # c[2]
             /\ \A j : Has(pages', j) => pages'[j + 1] = pages[j + 1]
             /\ Len(pages') = Len(pages) /\ Entry(c) = pages[c[2] + 1]
    <3>1. f = pages[c[2] + 1].paddr /\ f \in F
      BY <2>6, Zenon DEF Shape, Entries, PageOK
    <3> HIDE DEF c, f
    <3>2. Places'
      BY <2>1, <2>2, <2>3, <2>6, <3>1, Withdrawn, Zenon
    <3>3. Entries'
      BY <2>6, Zenon DEF Shape, Entries
    <3> QED
      BY <2>4, <3>2, <3>3, Zenon DEF Kept
  <2> QED
    BY <1>9, <2>5, <2>6, RevokeEntry, Zenon
<1> QED
  BY <1>3, <1>4, <1>5, <1>6, <1>7, <1>8, <1>9, Zenon DEF Moves

\* A new call takes a frame for the pool, or nothing.
LEMMA CallKept ==
    ASSUME Shape, Places, setup' = setup, NEW h \in Hart, NEW p \in Pid, Call(h, p)
    PROVE  Kept
<1>1. CallOK(op[h], setup.frames) /\ CallsOK /\ None \notin setup.frames
  BY FramesAre, Zenon DEF Shape, CallsOK
<1>2. /\ faults = {} /\ space \in Spaces /\ claim \in Claims
      /\ services \in [Service -> Pid \cup {None}]
  BY Zenon DEF Shape, Memory, Spaces, Claims
<1> USE DEF procs, shmreg, pagereg
<1>3. op[h].at = "idle" => CarriedBy(op[h]) = None
  BY <1>1, NothingCarried, Zenon DEF Holding, Stripping
<1>4. ASSUME NEW r, Begin(h, p, r), op[h].at = "idle", "frame" \notin DOMAIN r,
             UNCHANGED <<memory, names, shms, pages>>
      PROVE  Kept
  <2>1. op'[h].frame = None /\ Others(h)
    BY <1>1, <1>4, Zenon DEF Begin, Set, With, Done, Others, CallsOK
  <2>2. \A g \in Hart : CarriedBy(op'[g]) = CarriedBy(op[g])
    BY <1>3, <1>4, <2>1, Zenon DEF CarriedBy, Others
  <2> QED
    BY <1>2, <1>4, <2>2, SteadyKept, PagesKept, Zenon DEF memory, names
<1>5. CASE UNCHANGED <<op, memory, claim, shms, pages>> /\ services' \in [Service -> Pid \cup {None}]
  <2>1. \A g \in Hart : CarriedBy(op'[g]) = CarriedBy(op[g])
    BY <1>5, Zenon
  <2> QED
    BY <1>2, <1>5, <2>1, SteadyKept, PagesKept, Zenon DEF memory
<1>6. ASSUME NEW s \in Slot, CapRevoke(h, p, s) PROVE Kept
  <2>1. op[h].at = "idle" /\ UNCHANGED <<memory, names, shms, pages>>
    BY <1>6, Zenon DEF CapRevoke, Enter, At
  <2> DEFINE c == CapTarget(p, s)
             r1 == [at |-> "clear", s |-> s]
             r2 == [at |-> "revoke", todo |-> <<c>>]
             r3 == [at |-> "revoke", todo |-> <<c>>, s |-> s, then |-> "clear"]
  <2>2. "frame" \notin DOMAIN r1 /\ "frame" \notin DOMAIN r2 /\ "frame" \notin DOMAIN r3
    BY Zenon
  <2>3. Begin(h, p, r1) \/ Begin(h, p, r2) \/ Begin(h, p, r3)
    BY <1>6, Zenon DEF CapRevoke
  <2> HIDE DEF r1, r2, r3
  <2> QED
    BY <1>4, <2>1, <2>2, <2>3, Zenon
<1>7. ASSUME NEW s \in Slot, PageAlloc(h, p, s) PROVE Kept
  <2> DEFINE r == [at |-> "page_enter", s |-> s, frame |-> Some(avail)]
  <2>1. /\ op[h].at = "idle" /\ avail # {} /\ avail' = avail \ {Some(avail)}
        /\ Begin(h, p, r) /\ UNCHANGED <<shms, pages, space, names, faults>>
    BY <1>7, Zenon DEF PageAlloc, Enter, At
  <2>2. op'[h].at = "page_enter" /\ op'[h].frame = Some(avail) /\ Others(h)
    BY <1>1, <2>1, Zenon DEF Begin, Set, With, Done, Others, CallsOK
  <2>3. CarriedBy(op[h]) = None /\ CarriedBy(op'[h]) = Some(avail)
    BY <1>3, <2>1, <2>2, Zenon DEF CarriedBy, Mapping
  <2> QED
    BY <2>1, <2>2, <2>3, AllocatedKept, Zenon
<1>8. ASSUME NEW s \in Slot, NEW t \in Slot, CapDup(h, p, s, t) PROVE Kept
  BY <1>2, <1>5, <1>8, Zenon DEF CapDup, names
<1>9. ASSUME NEW s \in Slot, NEW t \in Slot, ShmMap(h, p, s, t) PROVE Kept
  <2> DEFINE r == [at |-> "share_root_b", s |-> s, s2 |-> t, peer |-> CapTarget(p, s)[2]]
  <2>1. "frame" \notin DOMAIN r
    BY Zenon
  <2>2. op[h].at = "idle" /\ Begin(h, p, r) /\ UNCHANGED <<memory, names, shms, pages>>
    BY <1>9, Zenon DEF ShmMap, Enter, At
  <2> HIDE DEF r
  <2> QED
    BY <1>4, <2>1, <2>2, Zenon
<1>10. ASSUME NEW s \in Slot, NEW t \in Slot, NEW u \in Slot, MemGrant(h, p, s, t, u) PROVE Kept
  <2> DEFINE r == [at |-> "grant_peer", s |-> s, id |-> CapTarget(p, s)[2], pslot |-> t, s2 |-> u]
  <2>1. "frame" \notin DOMAIN r
    BY Zenon
  <2>2. op[h].at = "idle" /\ Begin(h, p, r) /\ UNCHANGED <<memory, names, shms, pages>>
    BY <1>10, Zenon DEF MemGrant, Enter, At
  <2> HIDE DEF r
  <2> QED
    BY <1>4, <2>1, <2>2, Zenon
<1>11. ASSUME NEW s \in Slot, NEW va \in VA, MemMap(h, p, s, va) PROVE Kept
  <2> DEFINE r == [at |-> "map_test", id |-> CapTarget(p, s)[2], va |-> va]
  <2>1. "frame" \notin DOMAIN r
    BY Zenon
  <2>2. op[h].at = "idle" /\ Begin(h, p, r) /\ UNCHANGED <<memory, names, shms, pages>>
    BY <1>11, Zenon DEF MemMap, Enter, At
  <2> HIDE DEF r
  <2> QED
    BY <1>4, <2>1, <2>2, Zenon
<1>12. ASSUME NEW i \in Service, Register(h, p, i) PROVE Kept
  <2>1. UNCHANGED <<op, memory, claim, shms, pages>> /\ services' = [services EXCEPT ![i] = p]
    BY <1>12, Zenon DEF Register, Set
  <2>2. services' \in [Service -> Pid \cup {None}]
    BY <1>2, <2>1, Zenon
  <2> QED
    BY <1>5, <2>1, <2>2, Zenon
<1>13. ASSUME NEW i \in Service, NEW s \in Slot, NEW t \in Slot, Connect(h, p, i, s, t) PROVE Kept
  <2> DEFINE r == [at |-> "connect_client", peer |-> services[i], s |-> s, s2 |-> t]
  <2>1. "frame" \notin DOMAIN r
    BY Zenon
  <2>2. op[h].at = "idle" /\ Begin(h, p, r) /\ UNCHANGED <<memory, names, shms, pages>>
    BY <1>13, Zenon DEF Connect, Enter, At
  <2> HIDE DEF r
  <2> QED
    BY <1>4, <2>1, <2>2, Zenon
<1>14. ASSUME NEW va \in VA, MapDevice(h, p, va) PROVE Kept
  <2> DEFINE r == [at |-> "claim", va |-> va, ra |-> PidRoot(p)]
  <2>1. "frame" \notin DOMAIN r
    BY Zenon
  <2>2. op[h].at = "idle" /\ Begin(h, p, r) /\ UNCHANGED <<memory, names, shms, pages>>
    BY <1>14, Zenon DEF MapDevice, Enter, At
  <2> HIDE DEF r
  <2> QED
    BY <1>4, <2>1, <2>2, Zenon
<1>15. CASE Destroy(h, p)
  BY <1>15, Zenon DEF Destroy, Shape, Calm
<1> QED
  BY <1>6, <1>7, <1>8, <1>9, <1>10, <1>11, <1>12, <1>13, <1>14, <1>15, Zenon DEF Call

-----------------------------------------------------------------------------
(* The invariant *)

\* Initially every frame is in the allocator.
LEMMA InitShape == Init /\ setup.kills = "never" => Shape /\ Places
<1> SUFFICES ASSUME Init, setup.kills = "never" PROVE Shape /\ Places
  BY Zenon
<1>1. Registries
  BY InitRegistries, Zenon
<1>2. Calm
  BY Zenon DEF Init, Calm
<1>3. CallsOK
  BY DoneOK, Zenon DEF Init, CallsOK
<1>4. Processes
  <2>1. MAX_PROCESSES \in Nat /\ Boot \in [Pid -> [Slot -> Cap]]
    BY CapsConstants, Zenon
  <2>2. table = [i \in 1..MAX_PROCESSES |-> [id |-> i - 1, root |-> i, caps |-> Boot[i - 1]]]
    BY Zenon DEF Init
  <2>3. Len(table) = MAX_PROCESSES
    BY <2>1, <2>2
  <2>4. ASSUME NEW p \in Pid
        PROVE  table[p + 1] \in [id : {p}, root : {p + 1}, caps : [Slot -> Cap]]
    <3>1. p + 1 \in 1..MAX_PROCESSES /\ (p + 1) - 1 = p
      BY <2>1 DEF Pid
    <3>2. table[p + 1] = [id |-> p, root |-> p + 1, caps |-> Boot[p]]
      BY <2>2, <3>1, Zenon
    <3> QED
      BY <2>1, <3>2
  <2> QED
    BY <2>3, <2>4, Zenon DEF Init, Processes, Roots
<1>5. Entries
  <2>1. {MAX_SHMS, MAX_PAGES} \subseteq Nat
    BY CapsConstants, Zenon
  <2>2. shms = <<>> /\ pages = <<>>
    BY Zenon DEF Init
  <2>3. Len(shms) = 0 /\ Len(pages) = 0
    BY <2>2, Zenon
  <2> QED
    BY <2>1, <2>3 DEF Entries, Has
<1>6. Memory
  BY Zenon DEF Init, Memory
<1>7. Places
  <2>1. shms = <<>> /\ pages = <<>> /\ avail = setup.frames /\ op = [h \in Hart |-> Done]
    BY Zenon DEF Init
  <2>2. \A i : ~Has(shms, i) /\ ~Has(pages, i)
    BY <2>1 DEF Has
  <2>3. \A g \in Hart : CarriedBy(op[g]) = None
    BY <2>1, Zenon DEF CarriedBy, Done
  <2>4. None \notin setup.frames
    BY <1>2, FramesAre, Zenon
  <2>5. ASSUME NEW f \in setup.frames PROVE OnePlace(f)
    <3>1. \A j, m : Holds(j, m, f) <=> j = "avail" /\ m = 0
      BY <2>1, <2>2, <2>3, <2>4, Zenon DEF Holds
    <3> QED
      BY <3>1 DEF OnePlace
  <2> QED
    BY <2>5, Zenon DEF Places
<1> QED
  BY <1>1, <1>2, <1>3, <1>4, <1>5, <1>6, <1>7, Zenon DEF Shape

\* The invariant is inductive while no process is killed.
LEMMA NextShape == Shape /\ Places /\ [Next]_vars => Shape' /\ Places'
<1> SUFFICES ASSUME Shape, Places, [Next]_vars PROVE Shape' /\ Places'
  BY Zenon
<1>1. setup' = setup
  BY SetupKept, Zenon
<1>2. Registries' /\ Processes'
  BY NextRegistries, NextProcesses, Zenon DEF Shape
<1>3. Calm'
  BY <1>1, Zenon DEF Shape, Calm
<1>4. CASE CallsOK' /\ Kept
  BY <1>2, <1>3, <1>4, Zenon DEF Shape, Kept
<1>5. ASSUME NEW h \in Hart, Create(h) PROVE FALSE
  <2>1. Len(table) = MAX_PROCESSES /\ free = <<>>
    BY Zenon DEF Shape, Processes
  <2>2. MAX_PROCESSES \in Nat /\ Len(free) = 0
    BY <2>1, CapsConstants, Zenon
  <2>3. Len(table) - Len(free) < MAX_PROCESSES
    BY <1>5, Zenon DEF Create
  <2> QED
    BY <2>1, <2>2, <2>3
<1>6. ASSUME NEW h \in Hart, Step(h) PROVE CallsOK' /\ Kept
  <2>1. CallsOK'
    BY <1>1, <1>6, StepCalls, Zenon
  <2>2. CASE Moves(h)
    BY <1>1, <2>1, <2>2, MoveKept, Zenon
  <2>3. CASE ~Moves(h)
    <3>1. /\ avail' = avail /\ shms' = shms /\ SamePages /\ faults' = {}
          /\ space' \in Spaces /\ services' = services /\ claim' \in Claims
      BY <1>6, <2>3, StepSteady, Zenon
    <3>2. \A g \in Hart : CarriedBy(op'[g]) = CarriedBy(op[g])
      BY <1>1, <1>6, <2>3, StepKeeps, Zenon
    <3>3. services' \in [Service -> Pid \cup {None}]
      BY <3>1, Zenon DEF Shape, Memory
    <3>4. Kept
      BY <1>1, <3>1, <3>2, <3>3, SteadyKept, Zenon
    <3> QED
      BY <2>1, <3>4, Zenon
  <2> QED
    BY <2>2, <2>3, Zenon
<1>7. ASSUME NEW h \in Hart, NEW p \in Pid, Call(h, p) PROVE CallsOK' /\ Kept
  BY <1>1, <1>7, CallCalls, CallKept, Zenon
<1>8. CASE UNCHANGED vars
  <2>1. UNCHANGED <<table, free, shms, shm_free, pages, page_free, services, claim, space, live,
                    avail, setup, op, faults>>
    BY <1>8, Zenon DEF vars, procs, shmreg, pagereg, names, memory
  <2>2. CallsOK' /\ Entries' /\ Memory'
    BY <2>1, Zenon DEF Shape, CallsOK, Entries, Memory
  <2>3. Places'
    BY <2>1, PagesKept, Stayed, Zenon
  <2> QED
    BY <1>4, <2>2, <2>3, Zenon DEF Kept
<1>9. CASE Next
  BY <1>4, <1>5, <1>6, <1>7, <1>9, Zenon DEF Next
<1> QED
  BY <1>8, <1>9, Zenon

-----------------------------------------------------------------------------
(* Frames are conserved *)

\* The invariant includes the types.
LEMMA ShapeType == Shape => TypeOK
<1> SUFFICES ASSUME Shape PROVE TypeOK
  BY Zenon
<1>1. MAX_PROCESSES \in Nat /\ Cardinality(Hart) \in Nat
  BY CapsConstants, Zenon
<1>2. Roots \subseteq Root
  BY <1>1 DEF Roots, Root
<1>3. Len(table) <= MAX_PROCESSES /\ Len(shms) <= MAX_SHMS /\ Len(pages) <= MAX_PAGES
  BY <1>1 DEF Shape, Processes, Entries
<1>4. \A p \in Pid : table[p + 1].root \in live /\ table[p + 1].caps \in [Slot -> Cap]
  <2>1. \A p \in Pid : p + 1 \in Roots
    BY <1>1 DEF Pid, Roots
  <2> QED
    BY <2>1, Zenon DEF Shape, Processes
<1>5. setup.frames \subseteq Frame
  BY FramesAre, Zenon DEF Shape
<1>6. live \subseteq Root /\ avail \subseteq Frame
  BY <1>2, <1>5, Zenon DEF Shape, Processes, Memory
<1>7. \A h \in Hart : op[h].frame \in Frame \cup {None}
  BY <1>5, Zenon DEF Shape, CallsOK, CallOK
<1> QED
  BY <1>3, <1>4, <1>6, <1>7, Zenon DEF TypeOK, Shape, Memory

\* A frame that is in one place is neither lost nor in two.
LEMMA PlacesConserve == Shape /\ Places => FramesConserved
<1> SUFFICES ASSUME Shape, Places PROVE FramesConserved
  BY Zenon
<1>1. TypeOK /\ faults = {}
  BY ShapeType, Zenon DEF Shape, Memory
<1>2. ASSUME NEW f \in setup.frames
      PROVE  \E x \in PlacesOf(f) : PlacesOf(f) = {x}
  <2>1. PICK k, n : Holds(k, n, f) /\ \A j, m : Holds(j, m, f) => j = k /\ m = n
    BY Zenon DEF Places, OnePlace
  <2>2. \A h \in Hart : Carries(h, f) <=> CarriedBy(op[h]) = f
    <3>1. None # f
      BY FramesAre, Zenon DEF Shape
    <3> QED
      BY <3>1, Zenon DEF Carries, CarriedBy, Mapping, At
  <2>3. /\ {<<"avail", x>> : x \in {f} \cap avail} = {<<"avail", f>> : m \in {i \in {0} : Holds("avail", i, f)}}
        /\ {j \in ShmIds : shms[j + 1].paddr = f} = {j \in ShmId : Holds("shm", j, f)}
        /\ {j \in PageIds : pages[j + 1].paddr = f} = {j \in PageId : Holds("page", j, f)}
        /\ {h \in Hart : Carries(h, f)} = {h \in Hart : Holds("hart", h, f)}
    BY <2>2, Zenon DEF Holds, ShmIds, PageIds
  <2>4. k \in {"avail", "shm", "page", "hart"} /\ (k = "avail" => n = 0)
        /\ (k = "shm" => n \in ShmId) /\ (k = "page" => n \in PageId) /\ (k = "hart" => n \in Hart)
    BY <2>1, IdsIn, Zenon DEF Holds
  <2> DEFINE x == <<k, IF k = "avail" THEN f ELSE n>>
  <2>5. PlacesOf(f) = {x}
    BY <2>1, <2>3, <2>4 DEF PlacesOf
  <2> QED
    BY <2>5, Zenon
<1> QED
  BY <1>1, <1>2, Zenon DEF FramesConserved

\* While no process is killed, every physical page is in exactly one place: the
\* allocator, one entry of shm.rs or pages.rs, or one system call; no error path of
\* mmap_share, pages::alloc or a revocation loses one, no page is freed twice, and no
\* page table is written that does not exist.  The threads of one process and of
\* several may be in any calls at once, on any number of harts.
THEOREM FramesStayConserved == Spec /\ setup.kills = "never" => []FramesConserved
<1>1. Spec /\ setup.kills = "never" => [](Shape /\ Places)
  BY InitShape, NextShape, PTL DEF Spec
<1> QED
  BY <1>1, PlacesConserve, PTL

-----------------------------------------------------------------------------
(* The registries implement Ownership *)

\* The owners of a frame according to registries S and P.
OwnersIn(S, P, f) ==
    {P[i + 1].owner : i \in {j \in {k \in PageId : Has(P, k)} : P[j + 1].paddr = f}}
    \cup UNION {{o[1] : o \in {S[i + 1].owners[k] : k \in 1..2}} :
                  i \in {j \in {k \in ShmId : Has(S, k)} : S[j + 1].paddr = f}}

\* The owners of a frame, read off the two registries.
LEMMA OwnersRead ==
    /\ \A f : OwnersOf(f) = OwnersIn(shms, pages, f)
    /\ \A f : OwnersOf(f)' = OwnersIn(shms', pages', f)
<1>1. \A f : OwnersOf(f) = OwnersIn(shms, pages, f)
  BY Zenon DEF OwnersOf, OwnersIn, ShmIds, PageIds, Owners
<1>2. \A f : OwnersOf(f)' = OwnersIn(shms', pages', f)
  BY Zenon DEF OwnersOf, OwnersIn, ShmIds, PageIds, Owners
<1> QED
  BY <1>1, <1>2, Zenon

\* The frame f is in none of the entries of R; in the entry i only.
NoEntry(R, f) == \A j : Has(R, j) => R[j + 1].paddr # f
OneEntry(R, i, f) == \A j : Has(R, j) /\ R[j + 1].paddr = f <=> j = i

\* A frame that is in no registry has no owner.
LEMMA OwnersNone ==
    ASSUME NEW S, NEW P, NEW f, NoEntry(S, f), NoEntry(P, f)
    PROVE  OwnersIn(S, P, f) = {}
BY Zenon DEF OwnersIn, NoEntry

\* A frame of a private page has the owner of the page.
LEMMA OwnersPage ==
    ASSUME NEW S, NEW P, NEW f, NEW i \in PageId, NoEntry(S, f), OneEntry(P, i, f)
    PROVE  OwnersIn(S, P, f) = {P[i + 1].owner}
<1>1. {j \in {k \in PageId : Has(P, k)} : P[j + 1].paddr = f} = {i}
  BY Zenon DEF OneEntry
<1>2. {j \in {k \in ShmId : Has(S, k)} : S[j + 1].paddr = f} = {}
  BY Zenon DEF NoEntry
<1> QED
  BY <1>1, <1>2, Zenon DEF OwnersIn

\* A frame that is shared has the two processes that share it.
LEMMA OwnersShm ==
    ASSUME NEW S, NEW P, NEW f, NEW i \in ShmId, NoEntry(P, f), OneEntry(S, i, f),
           NEW p, NEW q, NEW s, NEW t, S[i + 1].owners = <<<<p, s>>, <<q, t>>>>
    PROVE  OwnersIn(S, P, f) = {p, q}
<1>1. {j \in {k \in ShmId : Has(S, k)} : S[j + 1].paddr = f} = {i}
  BY Zenon DEF OneEntry
<1>2. {j \in {k \in PageId : Has(P, k)} : P[j + 1].paddr = f} = {}
  BY Zenon DEF NoEntry
<1>3. {S[i + 1].owners[k] : k \in 1..2} = {<<p, s>>, <<q, t>>}
  OBVIOUS
<1>4. {o[1] : o \in {S[i + 1].owners[k] : k \in 1..2}} = {p, q}
  <2>1. {o[1] : o \in {<<p, s>>, <<q, t>>}} = {p, q}
    OBVIOUS
  <2> QED
    BY <1>3, <2>1, Zenon
<1> QED
  BY <1>1, <1>2, <1>4 DEF OwnersIn

\* Entries that agree on f have the same owners.
LEMMA OwnersSame ==
    ASSUME NEW S, NEW P, NEW T, NEW Q, NEW f,
           \A j : Has(S, j) /\ S[j + 1].paddr = f <=> Has(T, j) /\ T[j + 1].paddr = f,
           \A j : Has(P, j) /\ P[j + 1].paddr = f <=> Has(Q, j) /\ Q[j + 1].paddr = f,
           \A j : Has(S, j) /\ S[j + 1].paddr = f => T[j + 1].owners = S[j + 1].owners,
           \A j : Has(P, j) /\ P[j + 1].paddr = f => Q[j + 1].owner = P[j + 1].owner
    PROVE  OwnersIn(S, P, f) = OwnersIn(T, Q, f)
<1> DEFINE I == {j \in {k \in PageId : Has(P, k)} : P[j + 1].paddr = f}
           J == {j \in {k \in ShmId : Has(S, k)} : S[j + 1].paddr = f}
<1>1. {j \in {k \in PageId : Has(Q, k)} : Q[j + 1].paddr = f} = I
  BY Zenon
<1>2. {j \in {k \in ShmId : Has(T, k)} : T[j + 1].paddr = f} = J
  BY Zenon
<1>3. \A i \in I : Q[i + 1].owner = P[i + 1].owner
  BY Zenon
<1>4. \A i \in J : T[i + 1].owners = S[i + 1].owners
  BY Zenon
<1> HIDE DEF I, J
<1>5. {Q[i + 1].owner : i \in I} = {P[i + 1].owner : i \in I}
  BY <1>3, Zenon
<1>6. {{o[1] : o \in {T[i + 1].owners[k] : k \in 1..2}} : i \in J}
      = {{o[1] : o \in {S[i + 1].owners[k] : k \in 1..2}} : i \in J}
  BY <1>4
<1>7. OwnersIn(S, P, f) = {P[i + 1].owner : i \in I}
         \cup UNION {{o[1] : o \in {S[i + 1].owners[k] : k \in 1..2}} : i \in J}
  BY Zenon DEF OwnersIn, I, J
<1>8. OwnersIn(T, Q, f) = {Q[i + 1].owner : i \in I}
         \cup UNION {{o[1] : o \in {T[i + 1].owners[k] : k \in 1..2}} : i \in J}
  BY <1>1, <1>2, Zenon DEF OwnersIn
<1> QED
  BY <1>5, <1>6, <1>7, <1>8, Zenon

\* A change of owners that Ownership allows: of one frame, from nobody, to nobody,
\* or from one owner to one.
Changed(f) ==
    /\ f \in Frame /\ \A g \in Frame \ {f} : OwnersOf(g)' = OwnersOf(g)
    /\ \/ OwnersOf(f) = {} /\ \E p, q : OwnersOf(f)' = {p, q}
       \/ \E p, q : OwnersOf(f) = {p} /\ OwnersOf(f)' = {q}
       \/ OwnersOf(f) # {} /\ OwnersOf(f)' = {}
Unchanged == \A g \in Frame : OwnersOf(g)' = OwnersOf(g)

\* A change of owners that is allowed is a step of Ownership.
LEMMA ChangedIsNext == ASSUME NEW f, Changed(f) PROVE O!Next
<1>1. f \in Frame /\ \A g \in Frame \ {f} : OwnersOf(g)' = OwnersOf(g)
  BY Zenon DEF Changed
<1>2. O!Acquire(f) \/ O!Move(f) \/ O!Release(f)
  <2>1. /\ [e \in Frame |-> OwnersOf(e)][f] = OwnersOf(f)
        /\ [e \in Frame |-> OwnersOf(e)]'[f] = OwnersOf(f)'
    BY <1>1, Zenon
  <2>3. CASE OwnersOf(f) = {} /\ \E p, q : OwnersOf(f)' = {p, q}
    BY <2>1, <2>3 DEF O!Acquire
  <2>4. CASE \E p, q : OwnersOf(f) = {p} /\ OwnersOf(f)' = {q}
    BY <2>1, <2>4, Zenon DEF O!Move
  <2>5. CASE OwnersOf(f) # {} /\ OwnersOf(f)' = {}
    BY <2>1, <2>5, Zenon DEF O!Release
  <2> QED
    BY <2>3, <2>4, <2>5, Zenon DEF Changed
<1>3. \A g \in Frame \ {f} :
         [e \in Frame |-> OwnersOf(e)]'[g] = [e \in Frame |-> OwnersOf(e)][g]
  BY <1>1, Zenon
<1> QED
  BY <1>1, <1>2, <1>3, Zenon DEF O!Next

\* The other steps leave the registries of pages alone.
LEMMA RegistriesKept ==
    ASSUME NEW h \in Hart, Step(h), ~(Revoke(h) /\ Valid(Head(op[h].todo))),
           ~(ShareEnter(h) /\ ~(Len(shms) >= MAX_SHMS)),
           ~(PageEnter(h) /\ ~(Len(pages) >= MAX_PAGES)),
           ~Grant(h), ~GrantBack(h), ~MapRecord(h)
    PROVE  shms' = shms /\ pages' = pages
<1> USE DEF shmreg, pagereg
<1>1. CASE Revoke(h) \/ ShareEnter(h) \/ PageEnter(h)
  BY <1>1, Zenon DEF Revoke, ShareEnter, PageEnter
<1>2. CASE \/ ClearCap(h) \/ Invalidate(h) \/ Teardown(h) \/ Revoked(h)
           \/ StripRoot(h) \/ StripUnmap(h) \/ StripClear(h) \/ Stripped(h)
           \/ ShareRootB(h) \/ ShareRootA(h) \/ ShareAlloc(h)
  BY <1>2, Zenon DEF ClearCap, Invalidate, Teardown, Revoked, StripRoot, StripUnmap, StripClear,
     Stripped, ShareRootB, ShareRootA, ShareAlloc
<1>3. CASE \/ ShareMapA(h) \/ ShareMapB(h) \/ ShareUndo(h) \/ ShareGrantA(h) \/ ShareGrantB(h)
           \/ PoolSlot(h) \/ GrantPeer(h) \/ GrantAlive(h) \/ GrantDst(h)
  BY <1>3, Zenon
     DEF ShareMapA, ShareMapB, ShareUndo, ShareGrantA, ShareGrantB, ShareGrant,
         PoolSlot,
     GrantPeer, GrantAlive, GrantDst
<1>4. CASE \/ PageSlot(h) \/ MapTest(h) \/ MapPaddr(h) \/ MapRoot(h) \/ Map(h) \/ MapUndo(h)
           \/ ConnectClient(h) \/ ConnectServer(h) \/ Claim(h)
  BY <1>4, Zenon DEF PageSlot, MapTest, MapPaddr, MapRoot, Map, MapUndo, ConnectClient,
     ConnectServer, Claim
<1> QED
  BY <1>1, <1>2, <1>3, <1>4, Zenon DEF Step

\* Where a frame is says which entries it is in.
LEMMA HeldEntry ==
    ASSUME Places, NEW f \in setup.frames, NEW i
    PROVE  /\ Holds("hart", i, f) => NoEntry(shms, f) /\ NoEntry(pages, f)
           /\ Holds("shm", i, f) => OneEntry(shms, i, f) /\ NoEntry(pages, f)
           /\ Holds("page", i, f) => NoEntry(shms, f) /\ OneEntry(pages, i, f)
<1>1. /\ \A j : Has(shms, j) /\ shms[j + 1].paddr = f <=> Holds("shm", j, f)
      /\ \A j : Has(pages, j) /\ pages[j + 1].paddr = f <=> Holds("page", j, f)
  BY Zenon DEF Holds
<1>2. ASSUME NEW k, Holds(k, i, f) PROVE \A j, m : Holds(j, m, f) <=> j = k /\ m = i
  BY <1>2, NowhereElse, Zenon
<1> HIDE DEF Holds
<1>3. ASSUME Holds("hart", i, f) PROVE NoEntry(shms, f) /\ NoEntry(pages, f)
  BY <1>1, <1>2, <1>3 DEF NoEntry
<1>4. ASSUME Holds("shm", i, f) PROVE OneEntry(shms, i, f) /\ NoEntry(pages, f)
  BY <1>1, <1>2, <1>4 DEF NoEntry, OneEntry
<1>5. ASSUME Holds("page", i, f) PROVE NoEntry(shms, f) /\ OneEntry(pages, i, f)
  BY <1>1, <1>2, <1>5 DEF NoEntry, OneEntry
<1> QED
  BY <1>3, <1>4, <1>5, Zenon

\* pages::grant moves the page from one owner to one.
LEMMA GrantChanges ==
    ASSUME Shape, Places, NEW h \in Hart, NEW p \in Pid, NEW next, GrantTo(h, p, next), shms' = shms
    PROVE  Unchanged \/ \E f : Changed(f)
<1>1. /\ SamePages
      /\ \A i : Has(pages, i) => pages'[i + 1].owner = IF i = op[h].id THEN p ELSE pages[i + 1].owner
  BY GrantPages, Zenon
<1>2. CASE ~Has(pages, op[h].id)
  <2>1. pages' = pages
    BY <1>2, Zenon DEF GrantTo
  <2> QED
    BY <2>1, OwnersRead, Zenon DEF Unchanged
<1>3. CASE Has(pages, op[h].id)
  <2> PICK i, f : i = op[h].id /\ f = pages[i + 1].paddr
    BY Zenon
  <2>1. f \in setup.frames /\ f \in Frame /\ i \in PageId
    BY <1>3, IdsIn, FramesAre, Zenon DEF Shape, Entries, PageOK
  <2>2. Holds("page", i, f)
    BY <1>3, Zenon DEF Holds
  <2>3. NoEntry(shms, f) /\ OneEntry(pages, i, f)
    BY <2>1, <2>2, HeldEntry, Zenon
  <2>4. OwnersIn(shms, pages, f) = {pages[i + 1].owner}
    BY <2>1, <2>3, OwnersPage
  <2>5. OneEntry(pages', i, f)
    BY <1>1, <2>3, Zenon DEF OneEntry, SamePages
  <2>6. OwnersIn(shms', pages', f) = {pages'[i + 1].owner}
    BY <2>1, <2>3, <2>5, OwnersPage
  <2>7. ASSUME NEW g \in Frame \ {f} PROVE OwnersIn(shms, pages, g) = OwnersIn(shms', pages', g)
    <3>1. \A j : Has(pages, j) /\ pages[j + 1].paddr = g <=> Has(pages', j) /\ pages'[j + 1].paddr = g
      BY <1>1, Zenon DEF SamePages
    <3>2. \A j : Has(pages, j) /\ pages[j + 1].paddr = g => pages'[j + 1].owner = pages[j + 1].owner
      BY <1>1, <2>3, Zenon DEF OneEntry
    <3> QED
      BY <3>1, <3>2, OwnersSame
  <2>8. \E p1, p2 : OwnersOf(f) = {p1} /\ OwnersOf(f)' = {p2}
    BY <2>4, <2>6, OwnersRead, Zenon
  <2>9. \A g \in Frame \ {f} : OwnersOf(g)' = OwnersOf(g)
    BY <2>7, OwnersRead, Zenon
  <2>10. Changed(f)
    BY <2>1, <2>8, <2>9, Zenon DEF Changed
  <2> QED
    BY <2>10, Zenon
<1> QED
  BY <1>2, <1>3, Zenon

\* A frame that enters a registry is acquired.
LEMMA EnterChanges ==
    ASSUME Shape, Places, NEW h \in Hart,
           \/ ShareEnter(h) /\ ~(Len(shms) >= MAX_SHMS)
           \/ PageEnter(h) /\ ~(Len(pages) >= MAX_PAGES)
    PROVE  \E f : Changed(f)
<1> PICK f : f = op[h].frame
  BY Zenon
<1>1. f \in setup.frames /\ CarriedBy(op[h]) = f
  <2>1. op[h].at \in {"share_enter", "page_enter"}
    BY Zenon DEF ShareEnter, PageEnter, At
  <2>2. CallOK(op[h], setup.frames)
    BY Zenon DEF Shape, CallsOK
  <2> QED
    BY <2>1, <2>2, Zenon DEF CallOK, Mapping, Holding, CarriedBy
<1>2. f \in Frame
  BY <1>1, FramesAre, Zenon DEF Shape
<1>3. NoEntry(shms, f) /\ NoEntry(pages, f)
  <2>1. Holds("hart", h, f)
    BY <1>1, Zenon DEF Holds
  <2> QED
    BY <1>1, <2>1, HeldEntry, Zenon
<1>4. OwnersIn(shms, pages, f) = {}
  BY <1>3, OwnersNone, Zenon
<1> SUFFICES ASSUME TRUE
             PROVE  /\ \E p, q : OwnersIn(shms', pages', f) = {p, q}
                    /\ \A g \in Frame \ {f} : OwnersIn(shms, pages, g) = OwnersIn(shms', pages', g)
  <2>1. OwnersOf(f) = {} /\ \E p, q : OwnersOf(f)' = {p, q}
    BY <1>4, OwnersRead, Zenon
  <2>2. \A g \in Frame \ {f} : OwnersOf(g)' = OwnersOf(g)
    BY OwnersRead, Zenon
  <2>3. Changed(f)
    BY <1>2, <2>1, <2>2, Zenon DEF Changed
  <2> QED
    BY <2>3, Zenon
<1>5. CASE ShareEnter(h) /\ ~(Len(shms) >= MAX_SHMS)
  <2> DEFINE i == NextId(shms, shm_free)
  <2>1. /\ ~Has(shms, i) /\ ShmOK(shms'[i + 1], setup.frames)
        /\ shms'[i + 1].paddr = f
        /\ \A j : Has(shms', j) <=> Has(shms, j) \/ j = i
        /\ \A j : Has(shms, j) => shms'[j + 1] = shms[j + 1]
        /\ pages' = pages
    BY <1>5, ShareEnterEntry, Zenon
  <2>2. i \in ShmId
    BY <1>5, CapsConstants, NextIdIn, Zenon DEF Shape, Registries, ShmId
  <2> HIDE DEF i
  <2>3. OneEntry(shms', i, f)
    BY <1>3, <2>1, Zenon DEF OneEntry, NoEntry
  <2>4. PICK p, q, s, t : shms'[i + 1].owners = <<<<p, s>>, <<q, t>>>>
    BY <2>1, Zenon DEF ShmOK
  <2>5. NoEntry(pages', f)
    BY <1>3, <2>1, Zenon
  <2>6. OwnersIn(shms', pages', f) = {p, q}
    BY <2>2, <2>3, <2>4, <2>5, OwnersShm
  <2>7. ASSUME NEW g \in Frame \ {f} PROVE OwnersIn(shms, pages, g) = OwnersIn(shms', pages', g)
    <3>1. \A j : Has(shms, j) /\ shms[j + 1].paddr = g <=> Has(shms', j) /\ shms'[j + 1].paddr = g
      BY <2>1, Zenon
    <3>2. \A j : Has(shms, j) /\ shms[j + 1].paddr = g => shms'[j + 1].owners = shms[j + 1].owners
      BY <2>1, Zenon
    <3> QED
      BY <2>1, <3>1, <3>2, OwnersSame
  <2> QED
    BY <2>6, <2>7, Zenon
<1>6. CASE PageEnter(h) /\ ~(Len(pages) >= MAX_PAGES)
  <2> DEFINE i == NextId(pages, page_free)
  <2>1. /\ ~Has(pages, i) /\ pages'[i + 1].paddr = f
        /\ \A j : Has(pages', j) <=> Has(pages, j) \/ j = i
        /\ \A j : Has(pages, j) => pages'[j + 1] = pages[j + 1]
        /\ shms' = shms
    BY <1>6, PageEnterEntry, Zenon
  <2>2. i \in PageId
    BY <1>6, CapsConstants, NextIdIn, Zenon DEF Shape, Registries, PageId
  <2> HIDE DEF i
  <2>3. OneEntry(pages', i, f)
    BY <1>3, <2>1, Zenon DEF OneEntry, NoEntry
  <2>4. OwnersIn(shms', pages', f) = {pages'[i + 1].owner}
    BY <1>3, <2>1, <2>2, <2>3, OwnersPage
  <2>5. ASSUME NEW g \in Frame \ {f} PROVE OwnersIn(shms, pages, g) = OwnersIn(shms', pages', g)
    <3>1. \A j : Has(pages, j) /\ pages[j + 1].paddr = g <=> Has(pages', j) /\ pages'[j + 1].paddr = g
      BY <2>1, Zenon
    <3>2. \A j : Has(pages, j) /\ pages[j + 1].paddr = g => pages'[j + 1].owner = pages[j + 1].owner
      BY <2>1, Zenon
    <3> QED
      BY <2>1, <3>1, <3>2, OwnersSame
  <2>6. \E p, q : OwnersIn(shms', pages', f) = {p, q}
    BY <2>4, Zenon
  <2> QED
    BY <2>5, <2>6, Zenon
<1> QED
  BY <1>5, <1>6, Zenon

\* A frame that is revoked is released by all its owners at once.
LEMMA RevokeChanges ==
    ASSUME Shape, Places, NEW h \in Hart, Revoke(h), Valid(Head(op[h].todo))
    PROVE  \E f : Changed(f)
<1> DEFINE c == Head(op[h].todo)
           i == c[2]
<1> PICK f : f = Entry(c).paddr
  BY Zenon
<1> SUFFICES /\ f \in Frame /\ OwnersIn(shms, pages, f) # {} /\ OwnersIn(shms', pages', f) = {}
             /\ \A g \in Frame \ {f} : OwnersIn(shms, pages, g) = OwnersIn(shms', pages', g)
  <2>1. OwnersOf(f) # {} /\ OwnersOf(f)' = {}
    BY OwnersRead, Zenon
  <2>2. \A g \in Frame \ {f} : OwnersOf(g)' = OwnersOf(g)
    BY OwnersRead, Zenon
  <2>3. Changed(f)
    BY <2>1, <2>2, Zenon DEF Changed
  <2> QED
    BY <2>3, Zenon
<1>1. CASE /\ Has(shms, i) /\ pages' = pages
           /\ \A j : Has(shms', j) <=> Has(shms, j) /\ j # i
           /\ \A j : Has(shms', j) => shms'[j + 1] = shms[j + 1]
           /\ Entry(c) = shms[i + 1]
  <2>1. f = shms[i + 1].paddr /\ ShmOK(shms[i + 1], setup.frames) /\ i \in ShmId
    BY <1>1, IdsIn, Zenon DEF Shape, Entries
  <2>2. f \in setup.frames /\ f \in Frame
    BY <2>1, FramesAre, Zenon DEF ShmOK, Shape
  <2> HIDE DEF c, i
  <2>3. Holds("shm", i, f)
    BY <1>1, <2>1, Zenon DEF Holds
  <2>4. OneEntry(shms, i, f) /\ NoEntry(pages, f)
    BY <2>2, <2>3, HeldEntry, Zenon
  <2>5. OwnersIn(shms, pages, f) # {}
    <3>1. PICK p, q, s, t : shms[i + 1].owners = <<<<p, s>>, <<q, t>>>>
      BY <2>1, Zenon DEF ShmOK
    <3>2. OwnersIn(shms, pages, f) = {p, q}
      BY <2>1, <2>4, <3>1, OwnersShm
    <3> QED
      BY <3>2, Zenon
  <2>6. NoEntry(shms', f)
    BY <1>1, <2>4, Zenon DEF NoEntry, OneEntry
  <2>7. OwnersIn(shms', pages', f) = {}
    BY <1>1, <2>4, <2>6, OwnersNone, Zenon
  <2>8. ASSUME NEW g \in Frame \ {f} PROVE OwnersIn(shms, pages, g) = OwnersIn(shms', pages', g)
    <3>1. \A j : Has(shms, j) /\ shms[j + 1].paddr = g <=> Has(shms', j) /\ shms'[j + 1].paddr = g
      BY <1>1, <2>1, Zenon
    <3>2. \A j : Has(shms, j) /\ shms[j + 1].paddr = g => shms'[j + 1].owners = shms[j + 1].owners
      BY <1>1, <2>1, Zenon
    <3> QED
      BY <1>1, <3>1, <3>2, OwnersSame
  <2> QED
    BY <2>2, <2>5, <2>7, <2>8, Zenon
<1>2. CASE /\ Has(pages, i) /\ shms' = shms
           /\ \A j : Has(pages', j) <=> Has(pages, j) /\ j # i
           /\ \A j : Has(pages', j) => pages'[j + 1] = pages[j + 1]
           /\ Entry(c) = pages[i + 1]
  <2>1. f = pages[i + 1].paddr /\ PageOK(pages[i + 1], setup.frames) /\ i \in PageId
    BY <1>2, IdsIn, Zenon DEF Shape, Entries
  <2>2. f \in setup.frames /\ f \in Frame
    BY <2>1, FramesAre, Zenon DEF PageOK, Shape
  <2> HIDE DEF c, i
  <2>3. Holds("page", i, f)
    BY <1>2, <2>1, Zenon DEF Holds
  <2>4. NoEntry(shms, f) /\ OneEntry(pages, i, f)
    BY <2>2, <2>3, HeldEntry, Zenon
  <2>5. OwnersIn(shms, pages, f) = {pages[i + 1].owner}
    BY <2>1, <2>4, OwnersPage
  <2>6. NoEntry(pages', f)
    BY <1>2, <2>4, Zenon DEF NoEntry, OneEntry
  <2>7. OwnersIn(shms', pages', f) = {}
    BY <1>2, <2>4, <2>6, OwnersNone, Zenon
  <2>8. ASSUME NEW g \in Frame \ {f} PROVE OwnersIn(shms, pages, g) = OwnersIn(shms', pages', g)
    <3>1. \A j : Has(pages, j) /\ pages[j + 1].paddr = g <=> Has(pages', j) /\ pages'[j + 1].paddr = g
      BY <1>2, <2>1, Zenon
    <3>2. \A j : Has(pages, j) /\ pages[j + 1].paddr = g => pages'[j + 1].owner = pages[j + 1].owner
      BY <1>2, <2>1, Zenon
    <3> QED
      BY <1>2, <3>1, <3>2, OwnersSame
  <2> QED
    BY <2>2, <2>5, <2>7, <2>8, Zenon
<1>3. \/ /\ Has(shms, i) /\ pages' = pages
         /\ \A j : Has(shms', j) <=> Has(shms, j) /\ j # i
         /\ \A j : Has(shms', j) => shms'[j + 1] = shms[j + 1]
         /\ Entry(c) = shms[i + 1]
      \/ /\ Has(pages, i) /\ shms' = shms
         /\ \A j : Has(pages', j) <=> Has(pages, j) /\ j # i
         /\ \A j : Has(pages', j) => pages'[j + 1] = pages[j + 1]
         /\ Entry(c) = pages[i + 1]
  BY RevokeEntry, Zenon
<1> QED
  BY <1>1, <1>2, <1>3, Zenon

\* Every step changes the owners of one frame at most.
LEMMA NextOwners ==
    ASSUME Shape, Places, [Next]_vars
    PROVE  Unchanged \/ \E f : Changed(f)
<1> USE DEF shmreg, pagereg
<1>1. CASE shms' = shms /\ pages' = pages
  BY <1>1, OwnersRead, Zenon DEF Unchanged
<1>2. ASSUME NEW h \in Hart, Create(h) PROVE shms' = shms /\ pages' = pages
  BY <1>2, Zenon DEF Create
<1>3. ASSUME NEW h \in Hart, NEW p \in Pid, Call(h, p) PROVE shms' = shms /\ pages' = pages
  BY <1>3, Zenon DEF Call, CapRevoke, PageAlloc, CapDup, ShmMap, MemGrant, MemMap, Register,
     Connect, MapDevice, Destroy
<1>4. ASSUME NEW h \in Hart, Step(h) PROVE Unchanged \/ \E f : Changed(f)
  <2>1. CallOK(op[h], setup.frames)
    BY Zenon DEF Shape, CallsOK
  <2>2. CASE Grant(h)
    <3>1. GrantTo(h, op[h].peer, "page_slot") /\ shms' = shms /\ op[h].peer \in Pid
      BY <2>1, <2>2, Zenon DEF Grant, CallOK, At, Pairing
    <3> QED
      BY <3>1, GrantChanges, Zenon
  <2>3. CASE GrantBack(h)
    <3>1. GrantTo(h, op[h].p, "idle") /\ shms' = shms /\ op[h].p \in Pid
      BY <2>1, <2>3, Zenon DEF GrantBack, CallOK, At
    <3> QED
      BY <3>1, GrantChanges, Zenon
  <2>4. CASE MapRecord(h)
    <3>1. shms' = shms
      BY <2>4, Zenon DEF MapRecord
    <3>2. SamePages /\ \A i : Has(pages, i) => pages'[i + 1].owner = pages[i + 1].owner
      BY <2>4, RecordPages, Zenon
    <3>3. ASSUME NEW g PROVE OwnersIn(shms, pages, g) = OwnersIn(shms', pages', g)
      <4>1. \A j : Has(pages, j) /\ pages[j + 1].paddr = g
                     <=> Has(pages', j) /\ pages'[j + 1].paddr = g
        BY <3>2, Zenon DEF SamePages
      <4> QED
        BY <3>1, <3>2, <4>1, OwnersSame
    <3> QED
      BY <3>3, OwnersRead, Zenon DEF Unchanged
  <2> QED
    BY <1>1, <1>4, <2>2, <2>3, <2>4, RegistriesKept, EnterChanges, RevokeChanges, Zenon
<1>5. CASE UNCHANGED vars
  BY <1>1, <1>5, Zenon DEF vars
<1>6. CASE Next
  BY <1>1, <1>2, <1>3, <1>4, <1>6, Zenon DEF Next
<1> QED
  BY <1>5, <1>6, Zenon

\* Initially no frame has an owner.
LEMMA InitOwners == Init => O!Init
<1> SUFFICES ASSUME Init PROVE O!Init
  BY Zenon
<1>1. shms = <<>> /\ pages = <<>>
  BY Zenon DEF Init
<1>2. \A f : NoEntry(shms, f) /\ NoEntry(pages, f)
  BY <1>1 DEF NoEntry, Has
<1>3. \A f : OwnersOf(f) = {}
  BY <1>2, OwnersNone, OwnersRead, Zenon
<1> QED
  BY <1>3, Zenon DEF O!Init

\* Every step is a step of Ownership or leaves the owners alone.
LEMMA NextImplements ==
    Shape /\ Places /\ [Next]_vars => [O!Next]_([f \in Frame |-> OwnersOf(f)])
<1> SUFFICES ASSUME Shape, Places, [Next]_vars
             PROVE  O!Next \/ UNCHANGED [f \in Frame |-> OwnersOf(f)]
  BY Zenon
<1>1. CASE Unchanged
  BY <1>1, Zenon DEF Unchanged
<1> QED
  BY <1>1, NextOwners, ChangedIsNext, Zenon

\* While no process is killed, the registries of shm.rs and pages.rs implement
\* Ownership: a page that somebody owns is never acquired by somebody else, a grant
\* hands a page from one process to one, and a shared page leaves both its owners in
\* one step, whatever calls overlap and whichever of them fail.
THEOREM RegistriesImplementOwnership ==
    Spec /\ setup.kills = "never" => ImplementsOwnership
<1>1. Spec /\ setup.kills = "never" => [](Shape /\ Places)
  BY InitShape, NextShape, PTL DEF Spec
<1>2. Spec /\ [](Shape /\ Places) => [][O!Next]_([f \in Frame |-> OwnersOf(f)])
  BY NextImplements, PTL DEF Spec
<1>3. Spec => O!Init
  BY InitOwners, Zenon DEF Spec
<1> QED
  BY <1>1, <1>2, <1>3, PTL DEF ImplementsOwnership, O!Spec

=============================================================================
