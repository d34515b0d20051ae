---------------------------- MODULE CapsProofs ----------------------------
(***************************************************************************)
(* The free pools of process.rs, shm.rs and pages.rs are exact, for any    *)
(* number of processes, slots, entries and harts, whatever the harts do to *)
(* each other's calls and whenever processes are killed.                   *)
(***************************************************************************)
EXTENDS Caps, TLAPS

\* A sequence of something.
Vec(R) == \E S : R \in Seq(S)

\* The pool F holds exactly the entries of R that are out of use, each once.
Exact(R, F) ==
    /\ {F[k] : k \in DOMAIN F} = {i \in 0..(Len(R) - 1) : ~Has(R, i)}
    /\ \A j, k \in DOMAIN F : F[j] = F[k] => j = k

\* A registry and its pool.
Registry(R, F) ==
    /\ Vec(R) /\ Vec(F)
    /\ \A k \in 1..Len(R) : "id" \in DOMAIN R[k]
    /\ Exact(R, F)

Registries ==
    Registry(table, free) /\ Registry(shms, shm_free) /\ Registry(pages, page_free)

-----------------------------------------------------------------------------

\* Sequences: a larger set of values, an entry rewritten, an entry appended.
LEMMA SeqMonotonic ==
    ASSUME NEW S, NEW T, NEW q \in Seq(S), S \subseteq T
    PROVE  q \in Seq(T)
OBVIOUS

\* What a sequence is as a function.
LEMMA LenProperties ==
    ASSUME NEW S, NEW q \in Seq(S)
    PROVE  Len(q) \in Nat /\ DOMAIN q = 1..Len(q)
OBVIOUS

\* The empty sequence is a sequence of anything.
LEMMA EmptySeq == \A S : <<>> \in Seq(S) /\ Len(<<>>) = 0
OBVIOUS

\* An entry of a sequence is rewritten.
LEMMA ExceptSeq ==
    ASSUME NEW S, NEW q \in Seq(S), NEW i \in 1..Len(q), NEW e \in S
    PROVE  /\ [q EXCEPT ![i] = e] \in Seq(S)
           /\ Len([q EXCEPT ![i] = e]) = Len(q)
OBVIOUS

\* An entry is added to a sequence.
LEMMA AppendProperties ==
    ASSUME NEW S, NEW q \in Seq(S), NEW e \in S
    PROVE  /\ Append(q, e) \in Seq(S)
           /\ Len(Append(q, e)) = Len(q) + 1
           /\ \A i \in 1..Len(q) : Append(q, e)[i] = q[i]
           /\ Append(q, e)[Len(q) + 1] = e
OBVIOUS

\* An entry is rewritten in place and keeps its id (a capability slot, the owner
\* or the mapping of a page).
LEMMA Rewritten ==
    ASSUME NEW R, NEW F, NEW k, NEW v, Registry(R, F),
           k \in 1..Len(R) => "id" \in DOMAIN v /\ v.id = R[k].id
    PROVE  Registry([R EXCEPT ![k] = v], F)
<1> DEFINE Q == [R EXCEPT ![k] = v]
<1>1. PICK S : R \in Seq(S)
  BY Zenon DEF Registry, Vec
<1>2. Q \in Seq(S \cup {v}) /\ Len(Q) = Len(R)
  <2>1. R \in Seq(S \cup {v})
    BY <1>1, SeqMonotonic, Zenon
  <2>2. CASE k \in 1..Len(R)
    BY <2>1, <2>2, ExceptSeq, v \in S \cup {v}
  <2>3. CASE k \notin 1..Len(R)
    <3>1. Q = R
      BY <1>1, <2>3
    <3> QED
      BY <2>1, <3>1, Zenon
  <2> QED
    BY <2>2, <2>3, Zenon
<1>3. \A j \in 1..Len(R) : "id" \in DOMAIN Q[j] /\ Q[j].id = R[j].id
  BY <1>1 DEF Registry
<1>4. \A i : Has(Q, i) <=> Has(R, i)
  BY <1>1, <1>2, <1>3 DEF Has
<1>5. Exact(Q, F)
  BY <1>2, <1>4, Zenon DEF Exact, Registry
<1> QED
  BY <1>2, <1>3, <1>5, Zenon DEF Registry, Vec

\* An entry is given back: its id goes to the tail of the pool.
LEMMA GivenBack ==
    ASSUME NEW R, NEW F, NEW i, Registry(R, F), Has(R, i)
    PROVE  Registry(Set(R, i + 1, Gone), Append(F, i))
<1> DEFINE Q == [R EXCEPT ![i + 1] = Gone]
           G == Append(F, i)
<1>1. PICK S, U : R \in Seq(S) /\ F \in Seq(U)
  BY Zenon DEF Registry, Vec
<1>2. i \in 0..(Len(R) - 1) /\ i + 1 \in 1..Len(R)
  BY <1>1 DEF Has
<1>3. Q \in Seq(S \cup {Gone}) /\ Len(Q) = Len(R)
  BY <1>1, <1>2, SeqMonotonic, ExceptSeq, Gone \in S \cup {Gone}
<1>4. G \in Seq(U \cup {i}) /\ Len(G) = Len(F) + 1
      /\ G[Len(F) + 1] = i /\ \A k \in 1..Len(F) : G[k] = F[k]
  BY <1>1, SeqMonotonic, AppendProperties, i \in U \cup {i}
<1>5. Q[i + 1] = Gone /\ \A j \in 1..Len(R) : j # i + 1 => Q[j] = R[j]
  BY <1>1, <1>2
<1>6. DOMAIN G = 1..Len(G)
  BY <1>4, LenProperties, Zenon
<1> HIDE DEF Q, G
<1>7. \A j \in 1..Len(R) : "id" \in DOMAIN Q[j]
  BY <1>5 DEF Registry, Gone
<1>8. \A j : Has(Q, j) <=> Has(R, j) /\ j # i
  BY <1>2, <1>3, <1>5 DEF Has, Gone, None
<1>9. {F[k] : k \in 1..Len(F)} = {j \in 0..(Len(R) - 1) : ~Has(R, j)}
      /\ \A j, k \in 1..Len(F) : F[j] = F[k] => j = k
  BY <1>1 DEF Registry, Exact
<1>10. \A k \in 1..Len(F) : F[k] # i
  BY <1>2, <1>9, Zenon
<1>11. Exact(Q, G)
  <2>1. {G[k] : k \in 1..Len(G)} = {F[k] : k \in 1..Len(F)} \cup {i}
    BY <1>1, <1>4
  <2>2. {G[k] : k \in 1..Len(G)} = {j \in 0..(Len(Q) - 1) : ~Has(Q, j)}
    BY <1>2, <1>3, <1>8, <1>9, <2>1, Zenon
  <2>3. \A j, k \in 1..Len(G) : G[j] = G[k] => j = k
    BY <1>1, <1>4, <1>9, <1>10
  <2> QED
    BY <1>6, <2>2, <2>3, Zenon DEF Exact
<1>12. Registry(Q, G)
  BY <1>3, <1>4, <1>7, <1>11, Zenon DEF Registry, Vec
<1> QED
  BY <1>12, Zenon DEF Q, G, Set

\* An entry is taken: the head of the pool if there is one, else a new one.
LEMMA Taken ==
    ASSUME NEW R, NEW F, NEW r, Registry(R, F),
           "id" \in DOMAIN r, r.id = NextId(R, F)
    PROVE  Registry(Put(R, NextId(R, F), r), Rest(F))
<1> DEFINE i == NextId(R, F)
           Q == Put(R, i, r)
           G == Rest(F)
<1>1. PICK S, U : R \in Seq(S) /\ F \in Seq(U)
  BY Zenon DEF Registry, Vec
<1>2. {F[k] : k \in 1..Len(F)} = {j \in 0..(Len(R) - 1) : ~Has(R, j)}
      /\ \A j, k \in 1..Len(F) : F[j] = F[k] => j = k
  BY <1>1 DEF Registry, Exact
<1>3. CASE F = <<>>
  <2>1. i = Len(R) /\ G = F /\ Q = Append(R, r)
    BY <1>1, <1>3 DEF NextId, Rest, Put
  <2>2. Q \in Seq(S \cup {r}) /\ Len(Q) = Len(R) + 1
        /\ Q[Len(R) + 1] = r /\ \A k \in 1..Len(R) : Q[k] = R[k]
    BY <1>1, <2>1, SeqMonotonic, AppendProperties, r \in S \cup {r}
  <2>3. \A j \in 0..(Len(Q) - 1) : Has(Q, j)
    <3>1. \A j \in 0..(Len(R) - 1) : Has(R, j)
      BY <1>2, <1>3
    <3>2. ASSUME NEW j \in 0..(Len(R) - 1) PROVE Has(Q, j)
      <4>1. j + 1 \in 1..Len(R) /\ R[j + 1].id = j
        BY <1>1, <3>1 DEF Has
      <4>2. j \in 0..(Len(Q) - 1) /\ Q[j + 1] = R[j + 1]
        BY <1>1, <2>2, <4>1
      <4> QED
        BY <4>1, <4>2, Zenon DEF Has
    <3>3. Has(Q, Len(R))
      BY <1>1, <2>1, <2>2 DEF Has
    <3> QED
      BY <1>1, <2>2, <3>2, <3>3
  <2>4. Exact(Q, G)
    BY <1>3, <2>1, <2>3 DEF Exact
  <2>5. \A k \in 1..Len(Q) : "id" \in DOMAIN Q[k]
    BY <1>1, <2>2 DEF Registry
  <2> QED
    BY <1>1, <2>1, <2>2, <2>4, <2>5, Zenon DEF Registry, Vec
<1>4. CASE F # <<>>
  <2>1. i = F[1] /\ Len(F) \in Nat \ {0} /\ i \in 0..(Len(R) - 1) /\ ~Has(R, i)
    BY <1>1, <1>2, <1>4 DEF NextId
  <2>2. Q = [R EXCEPT ![i + 1] = r] /\ G = Tail(F)
    BY <1>1, <1>4, <2>1 DEF Put, Set, Rest
  <2>3. Q \in Seq(S \cup {r}) /\ Len(Q) = Len(R)
    BY <1>1, <2>1, <2>2, SeqMonotonic, ExceptSeq, r \in S \cup {r}
  <2>4. Q[i + 1] = r /\ \A j \in 1..Len(R) : j # i + 1 => Q[j] = R[j]
    BY <1>1, <2>1, <2>2
  <2>5. G \in Seq(U) /\ Len(G) = Len(F) - 1
        /\ \A k \in 1..Len(G) : G[k] = F[k + 1]
    BY <1>1, <1>4, <2>2
  <2>6. \A j : Has(Q, j) <=> Has(R, j) \/ j = i
    BY <2>1, <2>3, <2>4 DEF Has
  <2> HIDE DEF i, Q, G
  <2>7. {G[k] : k \in 1..Len(G)} = {F[k] : k \in 1..Len(F)} \ {i}
    <3>1. \A k \in 1..Len(G) : k + 1 \in 1..Len(F) /\ G[k] = F[k + 1] /\ G[k] # i
      BY <1>2, <2>1, <2>5
    <3>2. \A k \in 1..Len(F) : F[k] # i => k - 1 \in 1..Len(G) /\ G[k - 1] = F[k]
      <4> SUFFICES ASSUME NEW k \in 1..Len(F), F[k] # i
                   PROVE  k - 1 \in 1..Len(G) /\ G[k - 1] = F[k]
        BY Zenon
      <4>1. k # 1
        BY <2>1, Zenon
      <4>2. k - 1 \in 1..Len(G) /\ (k - 1) + 1 = k
        BY <2>1, <2>5, <4>1
      <4> QED
        BY <2>5, <4>2, Zenon
    <3> QED
      BY <3>1, <3>2
  <2>8. Exact(Q, G)
    <3>1. {G[k] : k \in 1..Len(G)} = {j \in 0..(Len(Q) - 1) : ~Has(Q, j)}
      BY <1>2, <2>3, <2>6, <2>7, Zenon
    <3>2. \A j, k \in 1..Len(G) : G[j] = G[k] => j = k
      <4> SUFFICES ASSUME NEW j \in 1..Len(G), NEW k \in 1..Len(G), G[j] = G[k]
                   PROVE  j = k
        BY Zenon
      <4>1. F[j + 1] = F[k + 1] /\ j + 1 \in 1..Len(F) /\ k + 1 \in 1..Len(F)
        BY <2>1, <2>5
      <4>2. j + 1 = k + 1
        BY <1>2, <4>1, Zenon
      <4> QED
        BY <4>2
    <3>3. DOMAIN G = 1..Len(G)
      BY <2>5, LenProperties, Zenon
    <3> QED
      BY <3>1, <3>2, <3>3, Zenon DEF Exact
  <2>9. \A k \in 1..Len(Q) : "id" \in DOMAIN Q[k]
    BY <2>3, <2>4, Zenon DEF Registry
  <2>10. Registry(Q, G)
    BY <2>3, <2>5, <2>8, <2>9, Zenon DEF Registry, Vec
  <2> QED
    BY <2>10, Zenon DEF i, Q, G
<1> QED
  BY <1>3, <1>4, Zenon
-----------------------------------------------------------------------------

\* A capability slot is written, or its process is gone (grant_typed_cap,
\* clear_cap, cap_duplicate).
LEMMA SlotWritten ==
    ASSUME Registry(table, free), NEW p, NEW s, NEW c
    PROVE  Registry(WithCap(p, s, c), free) /\ Registry(Written(p, s, c), free)
<1> DEFINE v == [table[p + 1] EXCEPT !.caps = [table[p + 1].caps EXCEPT ![s] = c]]
<1>1. p + 1 \in 1..Len(table) => "id" \in DOMAIN v /\ v.id = table[p + 1].id
  BY Zenon DEF Registry
<1>2. Registry([table EXCEPT ![p + 1] = v], free)
  BY <1>1, Rewritten, Zenon
<1>3. WithCap(p, s, c) = [table EXCEPT ![p + 1] = v]
  BY Zenon DEF WithCap
<1> QED
  BY <1>2, <1>3, Zenon DEF Written

\* pages::grant: the owner changes and the mapping is forgotten.
LEMMA PageMoved ==
    ASSUME Registry(pages, page_free), NEW h, NEW p, NEW next, GrantTo(h, p, next)
    PROVE  Registry(pages', page_free)
<1> DEFINE k == op[h].id + 1
           v == [pages[k] EXCEPT !.owner = p, !.map_va = None]
<1>1. k \in 1..Len(pages) => "id" \in DOMAIN v /\ v.id = pages[k].id
  BY Zenon DEF Registry
<1>2. Registry([pages EXCEPT ![k] = v], page_free)
  BY <1>1, Rewritten, Zenon
<1>3. [pages EXCEPT ![k].owner = p, ![k].map_va = None] = [pages EXCEPT ![k] = v]
  BY Zenon
<1> QED
  BY <1>2, <1>3, Zenon DEF GrantTo

\* A step that touches no registry.
LEMMA Untouched ==
    ASSUME Registries, UNCHANGED <<table, free, shms, shm_free, pages, page_free>>
    PROVE  Registries'
BY DEF Registries, Registry, Vec, Exact, Has

\* The pools are exact initially.
LEMMA InitRegistries == Init => Registries
<1> SUFFICES ASSUME Init PROVE Registries
  BY Zenon
<1>1. Registry(<<>>, <<>>)
  BY DEF Registry, Vec, Exact, Has
<1>2. Registry(table, free)
  <2> DEFINE rec(i) == [id |-> i - 1, root |-> i, caps |-> Boot[i - 1]]
  <2>1. MAX_PROCESSES \in Nat
    BY CapsConstants, Zenon
  <2>2. table = [i \in 1..MAX_PROCESSES |-> rec(i)] /\ free = <<>>
    BY Zenon DEF Init
  <2>3. /\ table \in Seq({rec(i) : i \in 1..MAX_PROCESSES})
        /\ Len(table) = MAX_PROCESSES
    <3> DEFINE S == {rec(i) : i \in 1..MAX_PROCESSES}
    <3>1. table \in [1..MAX_PROCESSES -> S]
      BY <2>2, Zenon
    <3> HIDE DEF S
    <3>2. table \in Seq(S)
      BY <2>1, <3>1
    <3>3. Len(table) = MAX_PROCESSES
      BY <2>1, <3>1, <3>2, LenProperties
    <3> QED
      BY <3>2, <3>3, Zenon DEF S
  <2>4. \A j \in 0..(Len(table) - 1) : Has(table, j)
    BY <2>1, <2>2, <2>3 DEF Has
  <2>5. Exact(table, free)
    <3>1. DOMAIN free = {}
      BY <2>2, EmptySeq, LenProperties
    <3> QED
      BY <2>4, <3>1, Zenon DEF Exact
  <2>6. \A k \in 1..Len(table) : "id" \in DOMAIN table[k]
    BY <2>2, <2>3, Zenon
  <2> QED
    BY <2>2, <2>3, <2>5, <2>6, EmptySeq, Zenon DEF Registry, Vec
<1> QED
  BY <1>1, <1>2, Zenon DEF Init, Registries

\* No step of a system call, of a kill or of the boot code breaks a pool.
LEMMA NextRegistries == Registries /\ [Next]_vars => Registries'
<1> SUFFICES ASSUME Registries, [Next]_vars PROVE Registries'
  BY Zenon
<1> USE DEF procs, shmreg, pagereg
<1>1. CASE UNCHANGED vars
  BY <1>1, Untouched, Zenon DEF vars
<1>2. ASSUME NEW h \in Hart, Create(h) PROVE Registries'
  <2> DEFINE p == NextId(table, free)
             r == [id |-> p, root |-> Some(Root \ live), caps |-> Boot[p]]
  <2>1. table' = Put(table, p, r) /\ free' = Rest(free)
    BY <1>2, Zenon DEF Create
  <2>2. Registry(Put(table, p, r), Rest(free))
    BY Taken, Zenon DEF Registries
  <2>3. Registry(table, free)'
    BY <2>1, <2>2, Zenon
  <2> QED
    BY <1>2, <2>3, Zenon DEF Create, Registries
<1>3. ASSUME NEW s, NEW t, NEW u, \/ table' = WithCap(s, t, u)
                                   \/ table' = Written(s, t, u),
             UNCHANGED <<free, shmreg, pagereg>>
      PROVE  Registries'
  BY <1>3, SlotWritten, Zenon DEF Registries
<1>4. ASSUME NEW h \in Hart, NEW p \in Pid, Call(h, p) PROVE Registries'
  <2> DEFINE Others == \/ \E s \in Slot : CapRevoke(h, p, s) \/ PageAlloc(h, p, s)
                       \/ \E s, t \in Slot : ShmMap(h, p, s, t)
                       \/ \E s, t, u \in Slot : MemGrant(h, p, s, t, u)
                       \/ \E s \in Slot, va \in VA : MemMap(h, p, s, va)
                       \/ \E i \in Service : Register(h, p, i)
                       \/ \E i \in Service, s, t \in Slot : Connect(h, p, i, s, t)
                       \/ \E va \in VA : MapDevice(h, p, va)
                       \/ Destroy(h, p)
  <2>1. CASE Others
    BY <2>1, Untouched, Zenon DEF CapRevoke, PageAlloc, ShmMap, MemGrant, MemMap, Register,
       Connect, MapDevice, Destroy
  <2>2. ASSUME NEW s \in Slot, NEW t \in Slot, CapDup(h, p, s, t) PROVE Registries'
    BY <1>3, <2>2, Zenon DEF CapDup
  <2> QED
    BY <1>4, <2>1, <2>2, Zenon DEF Call
<1>5. ASSUME NEW h \in Hart, Step(h) PROVE Registries'
  <2>1. CASE \/ Teardown(h) \/ Revoked(h) \/ StripRoot(h) \/ StripUnmap(h) \/ Stripped(h)
             \/ ShareRootB(h) \/ ShareRootA(h) \/ ShareAlloc(h) \/ ShareMapA(h)
             \/ ShareMapB(h) \/ ShareUndo(h)
    BY <2>1, Untouched, Zenon DEF Teardown, Revoked, StripRoot, StripUnmap, Stripped,
       ShareRootB, ShareRootA, ShareAlloc, ShareMapA, ShareMapB, ShareUndo
  <2>2. CASE \/ GrantPeer(h) \/ GrantAlive(h) \/ GrantDst(h) \/ MapTest(h) \/ MapPaddr(h)
             \/ MapRoot(h) \/ Map(h) \/ MapUndo(h) \/ Claim(h)
    BY <2>2, Untouched, Zenon DEF GrantPeer, GrantAlive, GrantDst, MapTest, MapPaddr, MapRoot,
       Map, MapUndo, Claim
  <2>3. CASE \/ ClearCap(h) \/ StripClear(h) \/ ShareGrantA(h) \/ ShareGrantB(h)
             \/ PoolSlot(h) \/ PageSlot(h) \/ ConnectClient(h) \/ ConnectServer(h)
    BY <1>3, <2>3, Untouched, Zenon DEF ClearCap, StripClear, ShareGrantA, ShareGrantB,
       ShareGrant, PoolSlot, PageSlot, ConnectClient, ConnectServer
  <2>4. CASE Grant(h) \/ GrantBack(h)
    <3>1. Registry(pages, page_free)'
      BY <2>4, PageMoved, Zenon DEF Grant, GrantBack, Registries
    <3> QED
      BY <2>4, <3>1, Zenon DEF Grant, GrantBack, Registries
  <2>5. CASE Invalidate(h)
    <3>1. Registry(table, free)'
      <4>1. CASE ~Alive(op[h].p)
        <5>1. table' = table /\ free' = free
          BY <2>5, <4>1, Zenon DEF Invalidate
        <5> QED
          BY <5>1, Zenon DEF Registries
      <4>2. CASE Alive(op[h].p)
        <5>1. /\ table' = Set(table, op[h].p + 1, Gone)
              /\ free' = Append(free, op[h].p)
          BY <2>5, <4>2, Zenon DEF Invalidate
        <5>2. Registry(Set(table, op[h].p + 1, Gone), Append(free, op[h].p))
          BY <4>2, GivenBack, Zenon DEF Alive, Registries
        <5> QED
          BY <5>1, <5>2, Zenon
      <4> QED
        BY <4>1, <4>2, Zenon
    <3> QED
      BY <2>5, <3>1, Zenon DEF Invalidate, Registries
  <2>6. CASE Revoke(h)
    <3> DEFINE c == Head(op[h].todo)
    <3>1. CASE ~Valid(c)
      BY <2>6, <3>1, Untouched, Zenon DEF Revoke
    <3>2. CASE Valid(c) /\ c[1] = "shm"
      <4>1. Registry(shms, shm_free)'
        BY <2>6, <3>2, GivenBack, Zenon DEF Revoke, Valid, Registries
      <4> QED
        BY <2>6, <3>2, <4>1, Zenon DEF Revoke, Registries
    <3>3. CASE Valid(c) /\ c[1] # "shm"
      <4>1. Registry(pages, page_free)'
        BY <2>6, <3>3, GivenBack, Zenon DEF Revoke, Valid, Registries
      <4> QED
        BY <2>6, <3>3, <4>1, Zenon DEF Revoke, Registries
    <3> QED
      BY <3>1, <3>2, <3>3, Zenon
  <2>7. CASE ShareEnter(h)
    <3> DEFINE i == NextId(shms, shm_free)
               r == [id |-> i, paddr |-> op[h].frame,
                   owners |-> <<<<op[h].p, op[h].s>>, <<op[h].peer, op[h].s2>>>>]
    <3>1. CASE Len(shms) >= MAX_SHMS
      BY <2>7, <3>1, Untouched, Zenon DEF ShareEnter
    <3>2. CASE ~(Len(shms) >= MAX_SHMS)
      <4>1. shms' = Put(shms, i, r) /\ shm_free' = Rest(shm_free)
        BY <2>7, <3>2, Zenon DEF ShareEnter
      <4>2. Registry(Put(shms, i, r), Rest(shm_free))
        BY Taken, Zenon DEF Registries
      <4>3. Registry(shms, shm_free)'
        BY <4>1, <4>2, Zenon
      <4> QED
        BY <2>7, <3>2, <4>3, Zenon DEF ShareEnter, Registries
    <3> QED
      BY <3>1, <3>2, Zenon
  <2>8. CASE PageEnter(h)
    <3> DEFINE i == NextId(pages, page_free)
               r == [id |-> i, paddr |-> op[h].frame,
                   owner |-> op[h].p, map_va |-> None]
    <3>1. CASE Len(pages) >= MAX_PAGES
      BY <2>8, <3>1, Untouched, Zenon DEF PageEnter
    <3>2. CASE ~(Len(pages) >= MAX_PAGES)
      <4>1. pages' = Put(pages, i, r) /\ page_free' = Rest(page_free)
        BY <2>8, <3>2, Zenon DEF PageEnter
      <4>2. Registry(Put(pages, i, r), Rest(page_free))
        BY Taken, Zenon DEF Registries
      <4>3. Registry(pages, page_free)'
        BY <4>1, <4>2, Zenon
      <4> QED
        BY <2>8, <3>2, <4>3, Zenon DEF PageEnter, Registries
    <3> QED
      BY <3>1, <3>2, Zenon
  <2>9. CASE MapRecord(h)
    <3> DEFINE k == op[h].id + 1
               v == [pages[k] EXCEPT !.map_va = op[h].va]
    <3>1. k \in 1..Len(pages) => "id" \in DOMAIN v /\ v.id = pages[k].id
      BY Zenon DEF Registries, Registry
    <3>2. Registry([pages EXCEPT ![k] = v], page_free)
      BY <3>1, Rewritten, Zenon DEF Registries
    <3>3. Registry(pages, page_free)'
      BY <2>9, <3>2, Zenon DEF MapRecord, Registries
    <3> QED
      BY <2>9, <3>3, Zenon DEF MapRecord, Registries
  <2> QED
    BY <1>5, <2>1, <2>2, <2>3, <2>4, <2>5, <2>6, <2>7, <2>8, <2>9, Zenon DEF Step
<1> QED
  BY <1>1, <1>2, <1>4, <1>5, Zenon DEF Next

\* PoolsExact is what the three registries say together.
LEMMA RegistriesExact == Registries => PoolsExact
BY DEF Registries, Registry, Exact, PoolsExact

\* The free pools of process.rs, shm.rs and pages.rs hold exactly the ids that
\* are out of use, each once: an id in use is never handed out again and none is
\* lost, also when calls, revocations and kills of any number of harts overlap.
THEOREM PoolsStayExact == Spec => []PoolsExact
<1>1. Spec => []Registries
  BY InitRegistries, NextRegistries, PTL DEF Spec
<1> QED
  BY <1>1, RegistriesExact, PTL
-----------------------------------------------------------------------------
(* Names *)

Shaped(o) ==
    /\ DOMAIN o = DOMAIN Done
    /\ o.then \in {"idle", "clear", "page_slot", "invalidate"}

\* A call is one of a process that exists, and a kill is the only call of its
\* process (the caller holds no thread of it).
Callers ==
    /\ DOMAIN op = Hart
    /\ \A h \in Hart : Shaped(op[h]) /\ (op[h].p # None => Alive(op[h].p))
    /\ \A g, h \in Hart : Killing(g) /\ op[g].p # None /\ op[h].p = op[g].p => h = g

\* The call of h goes on: it stays one of its process or of none, and it does
\* not become a kill.
GoesOn(h) ==
    /\ DOMAIN op' = Hart /\ Shaped(op'[h]) /\ \A g \in Hart \ {h} : op'[g] = op[g]
    /\ op'[h].p \in {None, op[h].p}
    /\ Killing(h)' => Killing(h)

\* A step does not change which processes exist.
SameIds == \A i : Alive(i)' <=> Alive(i)

\* Goto assigns the fields of r, Return all, Begin those of r and the caller.
LEMMA Assigned ==
    ASSUME NEW h \in Hart, DOMAIN op = Hart, DOMAIN op[h] = DOMAIN Done, NEW r, NEW p
    PROVE  /\ Goto(h, r) =>
                /\ DOMAIN op' = Hart /\ DOMAIN op'[h] = DOMAIN Done
                /\ \A g \in Hart \ {h} : op'[g] = op[g]
                /\ \A x \in DOMAIN Done :
                     op'[h][x] = IF x \in DOMAIN r THEN r[x] ELSE op[h][x]
           /\ Return(h) =>
                /\ DOMAIN op' = Hart /\ op'[h] = Done
                /\ \A g \in Hart \ {h} : op'[g] = op[g]
           /\ Begin(h, p, r) =>
                /\ DOMAIN op' = Hart /\ DOMAIN op'[h] = DOMAIN Done
                /\ \A g \in Hart \ {h} : op'[g] = op[g]
                /\ \A x \in DOMAIN Done :
                     op'[h][x] = IF x \in DOMAIN r THEN r[x]
                                 ELSE IF x = "p" THEN p ELSE Done[x]
<1>1. Goto(h, r) =>
        /\ DOMAIN op' = Hart /\ DOMAIN op'[h] = DOMAIN Done
        /\ \A g \in Hart \ {h} : op'[g] = op[g]
        /\ \A x \in DOMAIN Done : op'[h][x] = IF x \in DOMAIN r THEN r[x] ELSE op[h][x]
  BY Zenon DEF Goto, With, Set
<1>2. Return(h) =>
        /\ DOMAIN op' = Hart /\ op'[h] = Done
        /\ \A g \in Hart \ {h} : op'[g] = op[g]
  BY Zenon DEF Return, Set
<1>3. ASSUME Begin(h, p, r)
      PROVE  /\ DOMAIN op' = Hart /\ DOMAIN op'[h] = DOMAIN Done
             /\ \A g \in Hart \ {h} : op'[g] = op[g]
             /\ \A x \in DOMAIN Done :
                  op'[h][x] = IF x \in DOMAIN r THEN r[x]
                              ELSE IF x = "p" THEN p ELSE Done[x]
  <2> DEFINE o == [Done EXCEPT !.p = p]
  <2>1. DOMAIN o = DOMAIN Done /\ \A x \in DOMAIN Done : o[x] = IF x = "p" THEN p ELSE Done[x]
    BY Zenon DEF Done
  <2>2. op' = [op EXCEPT ![h] = With(o, r)]
    BY <1>3, Zenon DEF Begin, Set
  <2> HIDE DEF o
  <2> QED
    BY <2>1, <2>2, Zenon DEF With
<1> QED
  BY <1>1, <1>2, <1>3, Zenon

\* A call that Goto advances goes on.
LEMMA GotoGoesOn ==
    ASSUME NEW h \in Hart, Callers, NEW r, Goto(h, r),
           "p" \in DOMAIN r => r["p"] = None,
           "at" \in DOMAIN r => r["at"] \notin {"invalidate", "teardown"},
           "then" \in DOMAIN r => r["then"] \in {"idle", "clear", "page_slot"}
    PROVE  GoesOn(h)
<1>1. /\ DOMAIN op' = Hart /\ DOMAIN op'[h] = DOMAIN Done
      /\ \A g \in Hart \ {h} : op'[g] = op[g]
      /\ \A x \in DOMAIN Done : op'[h][x] = IF x \in DOMAIN r THEN r[x] ELSE op[h][x]
  BY Assigned DEF Callers, Shaped
<1>2. {"p", "at", "then"} \subseteq DOMAIN Done
  BY Zenon DEF Done
<1>3. /\ op'[h].p \in {None, op[h].p}
      /\ op'[h].at \in {"invalidate", "teardown"} => op[h].at = op'[h].at
      /\ op'[h].then \in {"idle", "clear", "page_slot"} \/ op'[h].then = op[h].then
  BY <1>1, <1>2, Zenon
<1> QED
  BY <1>1, <1>3, Zenon DEF GoesOn, Shaped, Killing, Callers

\* A call that returns goes on, as one of no process.
LEMMA ReturnGoesOn ==
    ASSUME NEW h \in Hart, Callers, Return(h)
    PROVE  GoesOn(h)
<1>1. /\ DOMAIN op' = Hart /\ op'[h] = Done
      /\ \A g \in Hart \ {h} : op'[g] = op[g]
  BY Assigned, Zenon DEF Callers, Shaped
<1> QED
  BY <1>1 DEF GoesOn, Shaped, Killing, Done

\* A revocation goes on with what its caller does next.
LEMMA ResumeGoesOn ==
    ASSUME NEW h \in Hart, Callers, Resume(h)
    PROVE  GoesOn(h)
<1>1. CASE op[h].then = "idle"
  BY <1>1, ReturnGoesOn, Zenon DEF Resume
<1>2. CASE op[h].then # "idle"
  <2> DEFINE r == [at |-> op[h].then, then |-> "idle"]
  <2>1. /\ DOMAIN op' = Hart /\ DOMAIN op'[h] = DOMAIN Done
        /\ \A g \in Hart \ {h} : op'[g] = op[g]
        /\ \A x \in DOMAIN Done : op'[h][x] = IF x \in DOMAIN r THEN r[x] ELSE op[h][x]
    <3>1. Goto(h, r)
      BY <1>2, Zenon DEF Resume
    <3> HIDE DEF r
    <3> QED
      BY <3>1, Assigned, Zenon DEF Callers, Shaped
  <2>2. op'[h].p = op[h].p /\ op'[h].at = op[h].then /\ op'[h].then = "idle"
    BY <2>1, Zenon DEF Done
  <2>3. op[h].then \in {"clear", "page_slot", "invalidate"}
    BY <1>2, Zenon DEF Callers, Shaped
  <2> QED
    BY <2>1, <2>2, <2>3, Zenon DEF GoesOn, Shaped, Killing
<1> QED
  BY <1>1, <1>2, Zenon

\* Every step of a call but the one that invalidates the process.
LEMMA StepsGoOn ==
    ASSUME NEW h \in Hart, Callers, Step(h), ~Invalidate(h)
    PROVE  GoesOn(h)
<1>1. CASE Return(h) \/ Resume(h)
  BY <1>1, ReturnGoesOn, ResumeGoesOn, Zenon
<1> DEFINE Plain(r) == /\ "p" \notin DOMAIN r
                       /\ "at" \in DOMAIN r => r["at"] \notin {"invalidate", "teardown"}
                       /\ "then" \in DOMAIN r => r["then"] \in {"idle", "clear", "page_slot"}
<1>2. ASSUME NEW r, Goto(h, r), Plain(r) PROVE GoesOn(h)
  BY <1>2, GotoGoesOn, Zenon
<1> SUFFICES Return(h) \/ Resume(h) \/ \E r : Goto(h, r) /\ Plain(r)
  BY <1>1, <1>2, Zenon
<1>3. /\ \A x, y : Plain([todo |-> x]) /\ Plain([ra |-> x, rb |-> y])
      /\ \A a, x, y, z, u :
        a \notin {"invalidate", "teardown"} =>
          /\ Plain([at |-> a]) /\ Plain([at |-> a, ra |-> x]) /\ Plain([at |-> a, rb |-> x])
          /\ Plain([at |-> a, ra |-> x, rb |-> y]) /\ Plain([at |-> a, todo |-> x])
          /\ Plain([at |-> a, strip |-> x]) /\ Plain([at |-> a, frame |-> x])
          /\ Plain([at |-> a, todo |-> x, strip |-> y, frame |-> z])
          /\ Plain([at |-> a, id |-> x, frame |-> y])
          /\ Plain([at |-> a, id |-> x, frame |-> y, ra |-> z, rb |-> u])
          /\ Plain([at |-> a, peer |-> x, pslot |-> y])
          /\ x \in {"idle", "page_slot"} => Plain([at |-> a, strip |-> y, then |-> x])
  OBVIOUS
<1> HIDE DEF Plain
<1>4. CASE \/ ClearCap(h) \/ Teardown(h) \/ Revoke(h) \/ Revoked(h) \/ StripRoot(h)
           \/ StripUnmap(h) \/ StripClear(h) \/ Stripped(h)
  BY <1>3, <1>4, Zenon DEF ClearCap, Teardown, Revoke, Revoked, StripRoot, StripUnmap,
     StripClear, Stripped
<1>5. CASE \/ ShareRootB(h) \/ ShareRootA(h) \/ ShareAlloc(h) \/ ShareMapA(h)
           \/ ShareMapB(h) \/ ShareEnter(h) \/ ShareUndo(h) \/ ShareGrantA(h)
           \/ ShareGrantB(h)
  BY <1>3, <1>5, Zenon DEF ShareRootB, ShareRootA, ShareAlloc, ShareMapA, ShareMapB, ShareEnter,
     ShareUndo, ShareGrantA, ShareGrantB, ShareGrant
<1>6. CASE \/ PageEnter(h) \/ PoolSlot(h) \/ GrantPeer(h) \/ GrantAlive(h) \/ GrantDst(h)
           \/ Grant(h) \/ PageSlot(h) \/ GrantBack(h)
  BY <1>3, <1>6, Zenon DEF PageEnter, PoolSlot, GrantPeer, GrantAlive, GrantDst, Grant, GrantTo,
     PageSlot, GrantBack
<1>7. CASE \/ MapTest(h) \/ MapPaddr(h) \/ MapRoot(h) \/ Map(h) \/ MapRecord(h)
           \/ MapUndo(h) \/ Claim(h) \/ ConnectClient(h) \/ ConnectServer(h)
  BY <1>3, <1>7, Zenon DEF MapTest, MapPaddr, MapRoot, Map, MapRecord, MapUndo, Claim,
     ConnectClient, ConnectServer
<1> QED
  BY <1>4, <1>5, <1>6, <1>7, Zenon DEF Step

\* Entries that keep their ids, an entry that is taken, an entry that is given
\* back: what is in use afterwards.
LEMMA KeptIds ==
    ASSUME NEW p, NEW s, NEW c, Registry(table, free)
    PROVE  \A i : /\ Has(WithCap(p, s, c), i) <=> Has(table, i)
                  /\ Has(Written(p, s, c), i) <=> Has(table, i)
<1> DEFINE v == [table[p + 1] EXCEPT !.caps = [table[p + 1].caps EXCEPT ![s] = c]]
           Q == [table EXCEPT ![p + 1] = v]
<1>1. WithCap(p, s, c) = Q
  BY Zenon DEF WithCap
<1>2. PICK S : table \in Seq(S)
  BY Zenon DEF Registry, Vec
<1>3. Len(Q) = Len(table)
  BY <1>2
<1>4. \A k \in 1..Len(table) : Q[k].id = table[k].id
  BY <1>2 DEF Registry
<1>5. \A i : Has(Q, i) <=> Has(table, i)
  BY <1>2, <1>3, <1>4 DEF Has
<1> QED
  BY <1>1, <1>5, Zenon DEF Written

\* An id that is taken is one more in use.
LEMMA TakenIds ==
    ASSUME NEW R, NEW F, NEW r, Registry(R, F), r.id = NextId(R, F)
    PROVE  \A i : Has(R, i) => Has(Put(R, NextId(R, F), r), i)
<1> DEFINE n == NextId(R, F)
<1>1. PICK S, U : R \in Seq(S) /\ F \in Seq(U)
  BY Zenon DEF Registry, Vec
<1>2. CASE F = <<>>
  <2>1. n = Len(R) /\ Put(R, n, r) = Append(R, r)
    BY <1>1, <1>2 DEF NextId, Put
  <2>2. Len(Append(R, r)) = Len(R) + 1 /\ \A k \in 1..Len(R) : Append(R, r)[k] = R[k]
    BY <1>1
  <2>3. ASSUME NEW i, Has(R, i) PROVE Has(Append(R, r), i)
    <3>1. i \in 0..(Len(R) - 1) /\ i + 1 \in 1..Len(R) /\ R[i + 1].id = i
      BY <1>1, <2>3 DEF Has
    <3> QED
      BY <1>1, <2>2, <3>1 DEF Has
  <2> QED
    BY <2>1, <2>3, Zenon
<1>3. CASE F # <<>>
  <2>1. n = F[1] /\ 1 \in DOMAIN F
    BY <1>1, <1>3 DEF NextId
  <2>2. n \in 0..(Len(R) - 1) /\ ~Has(R, n)
    BY <2>1, Zenon DEF Registry, Exact
  <2>3. Put(R, n, r) = [R EXCEPT ![n + 1] = r]
    BY <1>1, <2>2 DEF Put, Set
  <2>4. \A i : Has(R, i) => Has([R EXCEPT ![n + 1] = r], i)
    BY <1>1, <2>2 DEF Has
  <2> QED
    BY <2>3, <2>4, Zenon
<1> QED
  BY <1>2, <1>3, Zenon

\* An id that is given back, and no other, goes out of use.
LEMMA GivenBackIds ==
    ASSUME NEW R, NEW F, NEW n, Registry(R, F), Has(R, n)
    PROVE  \A i : Has(Set(R, n + 1, Gone), i) <=> Has(R, i) /\ i # n
<1>1. PICK S : R \in Seq(S)
  BY Zenon DEF Registry, Vec
<1>2. n \in 0..(Len(R) - 1)
  BY Zenon DEF Has
<1>3. /\ Len([R EXCEPT ![n + 1] = Gone]) = Len(R)
      /\ [R EXCEPT ![n + 1] = Gone][n + 1] = Gone
      /\ \A j \in 1..Len(R) : j # n + 1 => [R EXCEPT ![n + 1] = Gone][j] = R[j]
  BY <1>1, <1>2
<1> QED
  BY <1>1, <1>2, <1>3 DEF Has, Set, Gone, None

\* Only create and destroy change which processes exist.
LEMMA StepIds ==
    ASSUME NEW h \in Hart, Registry(table, free), Step(h), ~Invalidate(h)
    PROVE  SameIds
<1>1. CASE table' = table
  BY <1>1, Zenon DEF SameIds, Alive, Has
<1>2. ASSUME NEW p, NEW s, NEW c, table' = Written(p, s, c) PROVE SameIds
  BY <1>2, KeptIds, Zenon DEF SameIds, Alive
<1>3. CASE ClearCap(h) \/ StripClear(h) \/ ShareGrantA(h) \/ ShareGrantB(h)
  BY <1>1, <1>2, <1>3, Zenon DEF ClearCap, StripClear, ShareGrantA, ShareGrantB, ShareGrant
<1>4. CASE PoolSlot(h) \/ PageSlot(h) \/ ConnectClient(h) \/ ConnectServer(h)
  BY <1>1, <1>2, <1>4, Zenon DEF PoolSlot, PageSlot, ConnectClient, ConnectServer
<1>5. CASE \/ Teardown(h) \/ Revoke(h) \/ Revoked(h) \/ StripRoot(h) \/ StripUnmap(h)
           \/ Stripped(h) \/ ShareRootB(h) \/ ShareRootA(h) \/ ShareAlloc(h)
  BY <1>1, <1>5, Zenon DEF Teardown, Revoke, Revoked, StripRoot, StripUnmap, Stripped,
     ShareRootB, ShareRootA, ShareAlloc, procs
<1>6. CASE \/ ShareMapA(h) \/ ShareMapB(h) \/ ShareEnter(h) \/ ShareUndo(h)
           \/ PageEnter(h) \/ GrantPeer(h) \/ GrantAlive(h) \/ GrantDst(h)
           \/ Grant(h) \/ GrantBack(h)
  BY <1>1, <1>6, Zenon DEF ShareMapA, ShareMapB, ShareEnter, ShareUndo, PageEnter, GrantPeer,
     GrantAlive, GrantDst, Grant, GrantBack, procs
<1>7. CASE \/ MapTest(h) \/ MapPaddr(h) \/ MapRoot(h) \/ Map(h) \/ MapRecord(h)
           \/ MapUndo(h) \/ Claim(h)
  BY <1>1, <1>7, Zenon DEF MapTest, MapPaddr, MapRoot, Map, MapRecord, MapUndo, Claim, procs
<1> QED
  BY <1>3, <1>4, <1>5, <1>6, <1>7, Zenon DEF Step

\* Only claim and destroy change the names in a step of a call.
LEMMA StepNames ==
    ASSUME NEW h \in Hart, Step(h), ~Invalidate(h)
    PROVE  /\ services' = services
           /\ claim'.owner \in {claim.owner, op[h].p}
<1>1. CASE Claim(h)
  BY <1>1 DEF Claim
<1>2. CASE \/ ClearCap(h) \/ Teardown(h) \/ Revoke(h) \/ Revoked(h) \/ StripRoot(h)
           \/ StripUnmap(h) \/ StripClear(h) \/ Stripped(h) \/ ShareRootB(h)
           \/ ShareRootA(h) \/ ShareAlloc(h) \/ ShareMapA(h)
  BY <1>2, Zenon DEF ClearCap, Teardown, Revoke, Revoked, StripRoot, StripUnmap, StripClear,
     Stripped, ShareRootB, ShareRootA, ShareAlloc, ShareMapA, names
<1>3. CASE \/ ShareMapB(h) \/ ShareEnter(h) \/ ShareUndo(h) \/ ShareGrantA(h)
           \/ ShareGrantB(h) \/ PageEnter(h) \/ PoolSlot(h) \/ GrantPeer(h)
           \/ GrantAlive(h) \/ GrantDst(h) \/ Grant(h) \/ PageSlot(h) \/ GrantBack(h)
  BY <1>3, Zenon DEF ShareMapB, ShareEnter, ShareUndo, ShareGrantA, ShareGrantB, ShareGrant,
     PageEnter, PoolSlot, GrantPeer, GrantAlive, GrantDst, Grant, PageSlot, GrantBack, names
<1>4. CASE \/ MapTest(h) \/ MapPaddr(h) \/ MapRoot(h) \/ Map(h) \/ MapRecord(h)
           \/ MapUndo(h) \/ ConnectClient(h) \/ ConnectServer(h)
  BY <1>4, Zenon DEF MapTest, MapPaddr, MapRoot, Map, MapRecord, MapUndo, ConnectClient,
     ConnectServer, names
<1> QED
  BY <1>1, <1>2, <1>3, <1>4, Zenon DEF Step

\* A call begins: one of a process that is not being killed, or a kill of a
\* process that no call is of.
LEMMA CallBegins ==
    ASSUME NEW h \in Hart, Callers, NEW p, Alive(p), SameIds, NEW r, Begin(h, p, r),
           "p" \notin DOMAIN r, "then" \in DOMAIN r => r["then"] \in {"clear", "invalidate"},
           "at" \in DOMAIN r => r["at"] \notin {"invalidate", "teardown"},
           \/ /\ \A g \in Hart : ~(Killing(g) /\ op[g].p = p)
              /\ "then" \in DOMAIN r => r["then"] # "invalidate"
           \/ \A g \in Hart : op[g].p # p
    PROVE  Callers'
<1>1. /\ DOMAIN op' = Hart /\ DOMAIN op'[h] = DOMAIN Done
      /\ \A g \in Hart \ {h} : op'[g] = op[g]
      /\ \A x \in DOMAIN Done :
           op'[h][x] = IF x \in DOMAIN r THEN r[x] ELSE IF x = "p" THEN p ELSE Done[x]
  BY Assigned DEF Callers, Shaped
<1>2. /\ {"p", "at", "then"} \subseteq DOMAIN Done
      /\ Done["at"] = "idle" /\ Done["then"] = "idle"
  BY Zenon DEF Done
<1>3. /\ op'[h].p = p
      /\ op'[h].then = IF "then" \in DOMAIN r THEN r["then"] ELSE "idle"
      /\ op'[h].at \notin {"invalidate", "teardown"}
  BY <1>1, <1>2, Zenon
<1>4. Shaped(op'[h]) /\ Alive(op[h].p)'
  BY <1>1, <1>3, Zenon DEF Shaped, SameIds
<1>5. ASSUME NEW g \in Hart \ {h}
      PROVE  /\ Shaped(op'[g]) /\ (op'[g].p # None => Alive(op[g].p)')
             /\ Killing(g)' <=> Killing(g)
             /\ ~(Killing(g) /\ op'[g].p = p)
             /\ Killing(h)' => op'[g].p # p
  <2>1. op'[g] = op[g]
    BY <1>1, Zenon
  <2>2. Shaped(op[g]) /\ (op[g].p # None => Alive(op[g].p))
    BY Zenon DEF Callers
  <2>4. op'[g].p # None => Alive(op[g].p)'
    BY <2>1, <2>2, Zenon DEF SameIds
  <2>5. Killing(g)' <=> Killing(g)
    BY <2>1, Zenon DEF Killing
  <2>6. Killing(h)' <=> op'[h].then = "invalidate"
    BY <1>3, Zenon DEF Killing
  <2> QED
    BY <1>3, <2>1, <2>2, <2>4, <2>5, <2>6, Zenon
<1>6. \A g, k \in Hart : (Killing(g) /\ op[g].p # None /\ op[k].p = op[g].p => k = g)'
  BY <1>1, <1>3, <1>5, Zenon DEF Callers
<1> QED
  BY <1>1, <1>4, <1>5, <1>6, Zenon DEF Callers

\* No step leaves a call, a service or the device to a process that is gone.
LEMMA NextCallers == Registries /\ Callers /\ NamesAlive /\ [Next]_vars => Callers' /\ NamesAlive'
<1> SUFFICES ASSUME Registries, Callers, NamesAlive, [Next]_vars
             PROVE  Callers' /\ NamesAlive'
  BY Zenon
<1> USE DEF procs, names
<1>1. ASSUME \A i : Alive(i) => Alive(i)', UNCHANGED <<services, claim>> PROVE NamesAlive'
  BY <1>1, Zenon DEF NamesAlive
<1>2. CASE UNCHANGED vars
  <2>1. UNCHANGED <<table, op, services, claim>>
    BY <1>2, Zenon DEF vars
  <2> QED
    BY <2>1, Zenon DEF NamesAlive, Callers, Alive, Has, Killing
<1>3. ASSUME NEW h \in Hart, Create(h) PROVE Callers' /\ NamesAlive'
  <2> DEFINE p == NextId(table, free)
             r == [id |-> p, root |-> Some(Root \ live), caps |-> Boot[p]]
  <2>1. table' = Put(table, p, r) /\ UNCHANGED <<services, claim, op>>
    BY <1>3, Zenon DEF Create
  <2>2. \A i : Alive(i) => Alive(i)'
    <3>1. \A i : Has(table, i) => Has(Put(table, p, r), i)
      BY TakenIds, Zenon DEF Registries
    <3> QED
      BY <2>1, <3>1, Zenon DEF Alive
  <2> QED
    BY <1>1, <2>1, <2>2, Zenon DEF Callers, Killing
<1>4. ASSUME NEW h \in Hart, NEW p \in Pid, Call(h, p) PROVE Callers' /\ NamesAlive'
  <2>1. CASE \E i \in Service : Register(h, p, i)
    <3>1. PICK i \in Service : Register(h, p, i)
      BY <2>1, Zenon
    <3>2. /\ UNCHANGED <<table, claim, op>> /\ Alive(p)
          /\ services' = [services EXCEPT ![i] = p]
      BY <3>1, Zenon DEF Register, Enter, Set
    <3>3. \A j : Alive(j)' <=> Alive(j)
      BY <3>2, Zenon DEF Alive, Has
    <3> QED
      BY <3>2, <3>3 DEF Callers, Killing, NamesAlive
  <2>2. CASE \E s, t \in Slot : CapDup(h, p, s, t)
    <3>1. PICK s, t \in Slot : CapDup(h, p, s, t)
      BY <2>2, Zenon
    <3>2. UNCHANGED <<services, claim, op>> /\ table' = WithCap(p, t, CapTarget(p, s))
      BY <3>1, Zenon DEF CapDup
    <3>3. \A j : Alive(j)' <=> Alive(j)
      BY <3>2, KeptIds, Zenon DEF Alive, Registries
    <3> QED
      BY <1>1, <3>2, <3>3, Zenon DEF Callers, Killing
  <2>3. CASE Destroy(h, p)
    <3>1. /\ UNCHANGED <<table, services, claim>> /\ Alive(p)
          /\ \A g \in Hart : op[g].p # p
      BY <2>3, Zenon DEF Destroy
    <3>2. SameIds
      BY <3>1, Zenon DEF SameIds, Alive, Has
    <3>3. PICK q : Begin(h, p, [at |-> "revoke", then |-> "invalidate", todo |-> q])
      BY <2>3, Zenon DEF Destroy
    <3>4. Callers'
      BY <3>1, <3>2, <3>3, CallBegins
    <3> QED
      BY <1>1, <3>1, <3>2, <3>4, Zenon DEF SameIds
  <2> DEFINE Other == \/ \E s \in Slot : CapRevoke(h, p, s) \/ PageAlloc(h, p, s)
                      \/ \E s, t \in Slot : ShmMap(h, p, s, t)
                      \/ \E s, t, u \in Slot : MemGrant(h, p, s, t, u)
                      \/ \E s \in Slot, va \in VA : MemMap(h, p, s, va)
                      \/ \E i \in Service, s, t \in Slot : Connect(h, p, i, s, t)
                      \/ \E va \in VA : MapDevice(h, p, va)
  <2>4. CASE Other
    <3>1. /\ UNCHANGED <<table, services, claim>> /\ Alive(p)
          /\ \A g \in Hart : ~(Killing(g) /\ op[g].p = p)
      BY <2>4, Zenon
         DEF CapRevoke, PageAlloc, ShmMap, MemGrant, MemMap, Connect, MapDevice, Enter
    <3>2. SameIds
      BY <3>1, Zenon DEF SameIds, Alive, Has
    <3>3. Callers'
      <4> DEFINE Plain(r) ==
                   /\ "p" \notin DOMAIN r
                   /\ "then" \in DOMAIN r => r["then"] = "clear"
                   /\ "at" \in DOMAIN r => r["at"] \notin {"invalidate", "teardown"}
      <4>1. ASSUME NEW r, Begin(h, p, r), Plain(r) PROVE Callers'
        BY <3>1, <3>2, <4>1, CallBegins, Zenon
      <4>2. \A a, x, y, z, u :
              a \notin {"invalidate", "teardown"} =>
                /\ Plain([at |-> a, s |-> x]) /\ Plain([at |-> a, todo |-> x])
                /\ Plain([at |-> a, todo |-> x, s |-> y, then |-> "clear"])
                /\ Plain([at |-> a, s |-> x, frame |-> y])
                /\ Plain([at |-> a, s |-> x, s2 |-> y, peer |-> z])
                /\ Plain([at |-> a, peer |-> x, s |-> y, s2 |-> z])
                /\ Plain([at |-> a, s |-> x, id |-> y, pslot |-> z, s2 |-> u])
                /\ Plain([at |-> a, id |-> x, va |-> y])
                /\ Plain([at |-> a, va |-> x, ra |-> y])
        OBVIOUS
      <4> HIDE DEF Plain
      <4>3. \E r : Begin(h, p, r) /\ Plain(r)
        BY <2>4, <4>2 DEF CapRevoke, PageAlloc, ShmMap, MemGrant, MemMap, Connect, MapDevice
      <4> QED
        BY <4>1, <4>3, Zenon
    <3> QED
      BY <1>1, <3>1, <3>2, <3>3, Zenon DEF SameIds
  <2> QED
    BY <1>4, <2>1, <2>2, <2>3, <2>4, Zenon DEF Call
<1>5. ASSUME NEW h \in Hart, Step(h), ~Invalidate(h) PROVE Callers' /\ NamesAlive'
  <2>1. GoesOn(h) /\ SameIds
    BY <1>5, StepsGoOn, StepIds, Zenon DEF Registries
  <2>2. services' = services /\ claim'.owner \in {claim.owner, op[h].p}
    BY <1>5, StepNames, Zenon
  <2>3. op[h].p # None => Alive(op[h].p)
    BY Zenon DEF Callers
  <2>4. NamesAlive'
    BY <2>1, <2>2, <2>3, Zenon DEF NamesAlive, SameIds
  <2>5. \A g \in Hart : /\ Shaped(op'[g])
                        /\ op'[g].p # None => op'[g].p = op[g].p /\ Alive(op[g].p)'
                        /\ Killing(g)' => Killing(g)
    BY <2>1, Zenon DEF GoesOn, SameIds, Callers, Killing
  <2> QED
    BY <2>1, <2>4, <2>5, Zenon DEF Callers, GoesOn
<1>6. ASSUME NEW h \in Hart, Invalidate(h) PROVE Callers' /\ NamesAlive'
  <2> DEFINE p == op[h].p
  <2>1. CASE ~Alive(p)
    <3>1. Return(h) /\ UNCHANGED <<table, services, claim>>
      BY <1>6, <2>1, Zenon DEF Invalidate
    <3>2. SameIds
      BY <3>1, Zenon DEF SameIds, Alive, Has
    <3>3. \A g \in Hart : /\ Shaped(op'[g])
                          /\ op'[g].p # None => op'[g].p = op[g].p /\ Alive(op[g].p)'
                          /\ Killing(g)' => Killing(g)
      BY <3>1, <3>2, ReturnGoesOn DEF GoesOn, SameIds, Callers, Killing
    <3>4. GoesOn(h)
      BY <3>1, ReturnGoesOn, Zenon
    <3> QED
      BY <1>1, <3>1, <3>2, <3>3, <3>4, Zenon DEF Callers, GoesOn, SameIds
  <2>2. CASE Alive(p)
    <3> DEFINE r == [at |-> "teardown", p |-> None, ra |-> PidRoot(p)]
    <3>1. /\ table' = Set(table, p + 1, Gone) /\ Goto(h, r)
          /\ services' = [i \in Service |-> IF services[i] = p THEN None ELSE services[i]]
          /\ claim'.owner = IF claim.owner = p THEN None ELSE claim.owner
      BY <1>6, <2>2 DEF Invalidate
    <3>2. \A i : Alive(i)' <=> Alive(i) /\ i # p
      BY <2>2, <3>1, GivenBackIds, Zenon DEF Alive, Registries
    <3>3. NamesAlive'
      BY <3>1, <3>2, Zenon DEF NamesAlive
    <3>4. /\ DOMAIN op' = Hart /\ Shaped(op'[h]) /\ op'[h].p = None
          /\ \A g \in Hart \ {h} : op'[g] = op[g]
      <4> HIDE DEF r
      <4>1. /\ DOMAIN op' = Hart /\ DOMAIN op'[h] = DOMAIN Done
            /\ \A g \in Hart \ {h} : op'[g] = op[g]
            /\ \A x \in DOMAIN Done : op'[h][x] = IF x \in DOMAIN r THEN r[x] ELSE op[h][x]
        BY <3>1, Assigned DEF Callers, Shaped
      <4>2. op'[h]["p"] = None /\ op'[h]["then"] = op[h]["then"]
        BY <4>1, Zenon DEF Done, r
      <4> QED
        BY <4>1, <4>2, Zenon DEF Callers, Shaped
    <3>5. p # None
      BY <2>2 DEF Alive, Has, None
    <3>6. Killing(h)
      BY <1>6, Zenon DEF Invalidate, At, Killing
    <3>7. \A g \in Hart \ {h} : op[g].p # p
      BY <3>5, <3>6, Zenon DEF Callers
    <3>8. \A g \in Hart : Shaped(op'[g]) /\ (op'[g].p # None => Alive(op[g].p)')
      BY <3>2, <3>4, <3>7, Zenon DEF Callers
    <3>9. \A g, k \in Hart : (Killing(g) /\ op[g].p # None /\ op[k].p = op[g].p => k = g)'
      BY <3>4, Zenon DEF Callers, Killing
    <3> QED
      BY <3>3, <3>4, <3>8, <3>9, Zenon DEF Callers
  <2> QED
    BY <2>1, <2>2, Zenon
<1> QED
  BY <1>2, <1>3, <1>4, <1>5, <1>6, Zenon DEF Next

\* A registered service and a claimed device always belong to a process that
\* exists: destroy takes a process off the table and releases its names in one
\* step, no call of it is under way then, and none that was under way can still
\* register or claim in its name.  For any number of harts and processes, and
\* for kills at any time.
THEOREM NamesStayAlive == Spec => []NamesAlive
<1>1. Init => Callers /\ NamesAlive
  BY DEF Init, Callers, NamesAlive, Shaped, Done, Killing
<1>2. Registries /\ Callers /\ NamesAlive /\ [Next]_vars => (Registries /\ Callers /\ NamesAlive)'
  BY NextRegistries, NextCallers, Zenon
<1> QED
  BY <1>1, <1>2, InitRegistries, PTL DEF Spec
=============================================================================
