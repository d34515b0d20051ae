----------------------------- MODULE IpcProofs -----------------------------
(***************************************************************************)
(* The theorems about Ipc.  The inductive invariant is Inv of IpcStages,   *)
(* where its local conjuncts are shown to be preserved; here its conjuncts *)
(* about the queues and about the answers that waiting threads are owed    *)
(* are, and the theorems follow.                                           *)
(***************************************************************************)
EXTENDS IpcStages

USE DEF Set

-----------------------------------------------------------------------------
(* The queues *)

\* The steps that change a queue.
QueueStep(t) ==
    \/ \E r \in recvs : SendPair(t, r)
    \/ SendRegister(t)
    \/ \E s \in sends : RecvPair(t, s)
    \/ RecvRegister(t)
    \/ \E p \in Mortal : Purge(t, p)

\* Only these steps touch a queue.
LEMMA QueueSteps ==
    ASSUME [Next]_vars
    PROVE  UNCHANGED <<sends, recvs>> \/ \E t \in Thread : QueueStep(t)
<1>1. ASSUME NEW t \in Thread, Syscall(t)
      PROVE  UNCHANGED <<sends, recvs>>
  BY <1>1, Zenon DEF Syscall, SendCall, RecvCall, ipcVars
<1>2. ASSUME NEW t \in Thread, KernelStep(t)
      PROVE  UNCHANGED <<sends, recvs>> \/ QueueStep(t)
  BY <1>2, Zenon DEF KernelStep, QueueStep, ipcVars, WakePartner, PurgeWake,
              DonateOnBlock, ConsumeWake, Block, Sret, MarkVictims,
              KillWaitEnd, Destroy, ExitFromTrap
<1>3. ASSUME NEW t \in Thread,
             Dispatch(t) \/ Exit(t) \/ ForceKill(t) \/ IpiTakenByNext(t)
      PROVE  UNCHANGED <<sends, recvs>>
  BY <1>3, Zenon DEF Dispatch, Exit, ForceKill, IpiTakenByNext, ipcVars
<1>4. ASSUME NEW p \in Proc, NEW slot \in Slot,
             \/ \E c \in (Proc \ {p}) \cup {Other} : GrantCap(p, slot, c)
             \/ ClearCap(p, slot)
      PROVE  UNCHANGED <<sends, recvs>>
  BY <1>4, Zenon DEF GrantCap, ClearCap, ipcVars
<1>5. CASE UNCHANGED vars
  BY <1>5, Zenon DEF vars, ipcVars
<1> QED
  BY <1>1, <1>2, <1>3, <1>4, <1>5, Zenon DEF Next, QueueStep

\* Every entry names its thread's process.
LEMMA NextEntry == ASSUME TypeOK, CallOK, EntryOK, [Next]_vars PROVE EntryOK'
<1>1. ASSUME NEW t \in Thread, NEW r \in recvs, SendPair(t, r) PROVE EntryOK'
  BY <1>1, Zenon DEF SendPair, EntryOK
<1>2. ASSUME NEW t \in Thread, SendRegister(t) PROVE EntryOK'
  BY <1>2 DEF SendRegister, EntryOK
<1>3. ASSUME NEW t \in Thread, NEW s \in sends, RecvPair(t, s) PROVE EntryOK'
  BY <1>3, Zenon DEF RecvPair, EntryOK
<1>4. ASSUME NEW t \in Thread, RecvRegister(t) PROVE EntryOK'
  BY <1>4 DEF RecvRegister, EntryOK
<1>5. ASSUME NEW t \in Thread, NEW p \in Mortal, Purge(t, p) PROVE EntryOK'
  BY <1>5, Zenon DEF Purge, EntryOK
<1>6. CASE UNCHANGED <<sends, recvs>>
  BY <1>6, Zenon DEF EntryOK
<1> QED
  BY <1>1, <1>2, <1>3, <1>4, <1>5, <1>6, QueueSteps, Zenon DEF QueueStep

\* The induction step of NoMatchLeftQueued.
LEMMA NextMatch ==
    ASSUME TypeOK, NoMatchLeftQueued, [Next]_vars PROVE NoMatchLeftQueued'
<1>1. ASSUME NEW t \in Thread, NEW r \in recvs, SendPair(t, r) PROVE NoMatchLeftQueued'
  BY <1>1, Zenon DEF SendPair, NoMatchLeftQueued
<1>2. ASSUME NEW t \in Thread, SendRegister(t) PROVE NoMatchLeftQueued'
  BY <1>2 DEF SendRegister, NoMatchLeftQueued
<1>3. ASSUME NEW t \in Thread, NEW s \in sends, RecvPair(t, s) PROVE NoMatchLeftQueued'
  BY <1>3, Zenon DEF RecvPair, NoMatchLeftQueued
<1>4. ASSUME NEW t \in Thread, RecvRegister(t) PROVE NoMatchLeftQueued'
  BY <1>4 DEF RecvRegister, NoMatchLeftQueued
<1>5. ASSUME NEW t \in Thread, NEW p \in Mortal, Purge(t, p) PROVE NoMatchLeftQueued'
  BY <1>5, Zenon DEF Purge, NoMatchLeftQueued
<1>6. CASE UNCHANGED <<sends, recvs>>
  BY <1>6, Zenon DEF NoMatchLeftQueued
<1> QED
  BY <1>1, <1>2, <1>3, <1>4, <1>5, <1>6, QueueSteps, Zenon DEF QueueStep

-----------------------------------------------------------------------------
(* Death is final *)

\* Only these steps change a thread's scheduler state.
LEMMA StateSteps ==
    ASSUME [Next]_vars
    PROVE  \/ UNCHANGED state
           \/ \E t \in Thread :
                 \/ \E w \in todo[t] : IpcWakeWith(w)
                 \/ ConsumeWake(t) \/ Block(t) \/ Dispatch(t)
                 \/ Exit(t) \/ ForceKill(t) \/ ExitFromTrap(t) \/ MarkVictims(t)
<1>1. ASSUME NEW t \in Thread, NEW w \in todo[t],
             WakePartner(t, w) \/ PurgeWake(t, w)
      PROVE  IpcWakeWith(w)
  BY <1>1, Zenon DEF WakePartner, PurgeWake
<1>2. ASSUME NEW t \in Thread, Syscall(t) PROVE UNCHANGED state
  BY <1>2, Zenon DEF Syscall, SendCall, RecvCall, schedVars
<1>3. ASSUME NEW t \in Thread,
             \/ \E r \in recvs : SendPair(t, r)
             \/ \E s \in sends : RecvPair(t, s)
             \/ SendRegister(t) \/ RecvRegister(t)
             \/ DonateOnBlock(t) \/ Sret(t) \/ KillWaitEnd(t) \/ Destroy(t)
      PROVE  UNCHANGED state
  BY <1>3, Zenon DEF SendPair, RecvPair, SendRegister, RecvRegister, DonateOnBlock,
              Sret, KillWaitEnd, Destroy, schedVars
<1>4. ASSUME NEW t \in Thread,
             IpiTakenByNext(t) \/ \E p \in Mortal : Purge(t, p)
      PROVE  UNCHANGED state
  BY <1>4, Zenon DEF IpiTakenByNext, Purge, schedVars
<1>5. ASSUME NEW p \in Proc, NEW slot \in Slot,
             ClearCap(p, slot) \/ \E c \in (Proc \ {p}) \cup {Other} : GrantCap(p, slot, c)
      PROVE  UNCHANGED state
  BY <1>5, Zenon DEF ClearCap, GrantCap, schedVars
<1> QED
  BY <1>1, <1>2, <1>3, <1>4, <1>5, Zenon DEF Next, KernelStep, vars, schedVars

\* An exited thread never runs again.
LEMMA ExitedStays ==
    ASSUME TypeOK, PcState, [Next]_vars, NEW u \in Thread, state[u] = "Exited"
    PROVE  state'[u] = "Exited"
<1>1. CASE UNCHANGED state
  BY <1>1, Zenon
<1>2. ASSUME NEW t \in Thread, NEW w \in todo[t], IpcWakeWith(w)
      PROVE  state'[u] = "Exited"
  BY <1>2, Records, Zenon DEF IpcWakeWith, TypeOK
<1>3. ASSUME NEW t \in Thread, ConsumeWake(t) \/ Block(t) \/ Dispatch(t)
      PROVE  state'[u] = "Exited"
  BY <1>3, Zenon DEF ConsumeWake, Block, Dispatch, PcState, TypeOK
<1>4. ASSUME NEW t \in Thread,
             Exit(t) \/ ForceKill(t) \/ ExitFromTrap(t) \/ MarkVictims(t)
      PROVE  state'[u] = "Exited"
  BY <1>4, Zenon DEF Exit, ForceKill, ExitFromTrap, MarkVictims, Exited, TypeOK
<1> QED
  BY <1>1, <1>2, <1>3, <1>4, StateSteps, Zenon

\* A process whose kill has begun stays killed.
LEMMA DoomedStays ==
    ASSUME TypeOK, CallOK, PcState, [Next]_vars
    PROVE  \A q \in Proc : Doomed(q) => Doomed(q)'
<1> USE DEF vars, ipcVars, schedVars, killVars, localVars,
            TypeOK, CallOK, PcState, Doomed, InKill
<1>1. ASSUME NEW t \in Thread, Syscall(t)
      PROVE  \A q \in Proc : Doomed(q) => Doomed(q)'
  BY <1>1 DEF Syscall, SendCall, RecvCall, Resolve, Refuse, InUser
<1>2. ASSUME NEW t \in Thread, NEW r \in recvs, SendPair(t, r)
      PROVE  \A q \in Proc : Doomed(q) => Doomed(q)'
  BY <1>2, Zenon DEF SendPair
<1>3. ASSUME NEW t \in Thread, NEW s \in sends, RecvPair(t, s)
      PROVE  \A q \in Proc : Doomed(q) => Doomed(q)'
  BY <1>3, Zenon DEF RecvPair
<1>4. ASSUME NEW t \in Thread, SendRegister(t) \/ RecvRegister(t)
      PROVE  \A q \in Proc : Doomed(q) => Doomed(q)'
  BY <1>4, Zenon DEF SendRegister, RecvRegister
<1>5. ASSUME NEW t \in Thread, NEW w \in todo[t], WakePartner(t, w)
      PROVE  \A q \in Proc : Doomed(q) => Doomed(q)'
  BY <1>5, Zenon DEF WakePartner, IpcWakeWith, Return
<1>6. ASSUME NEW t \in Thread, NEW w \in todo[t], PurgeWake(t, w)
      PROVE  \A q \in Proc : Doomed(q) => Doomed(q)'
  BY <1>6, Zenon DEF PurgeWake, IpcWakeWith
<1>7. ASSUME NEW t \in Thread, DonateOnBlock(t) \/ KillWaitEnd(t) \/ Sret(t)
      PROVE  \A q \in Proc : Doomed(q) => Doomed(q)'
  BY <1>7, Zenon DEF DonateOnBlock, KillWaitEnd, Sret
<1>8. ASSUME NEW t \in Thread, ConsumeWake(t) \/ Block(t) \/ Dispatch(t)
      PROVE  \A q \in Proc : Doomed(q) => Doomed(q)'
  BY <1>8 DEF ConsumeWake, Block, Dispatch, Return
<1>9. ASSUME NEW t \in Thread, NEW p \in Mortal, Purge(t, p)
      PROVE  \A q \in Proc : Doomed(q) => Doomed(q)'
  BY <1>9, Zenon DEF Purge, InUser
<1>10. ASSUME NEW t \in Thread, MarkVictims(t)
      PROVE  \A q \in Proc : Doomed(q) => Doomed(q)'
  BY <1>10, Zenon DEF MarkVictims, Victims
<1>11. ASSUME NEW t \in Thread, Destroy(t)
      PROVE  \A q \in Proc : Doomed(q) => Doomed(q)'
  BY <1>11, Zenon DEF Destroy
<1>12. ASSUME NEW t \in Thread, Exit(t) \/ ForceKill(t) \/ ExitFromTrap(t)
      PROVE  \A q \in Proc : Doomed(q) => Doomed(q)'
  BY <1>12 DEF Exit, ForceKill, ExitFromTrap, Exited, InUser
<1>13. CASE UNCHANGED <<alive, ipcVars, schedVars, localVars>>
  BY <1>13, Zenon
<1> QED
  BY <1>1, <1>2, <1>3, <1>4, <1>5, <1>6, <1>7, <1>8, <1>9, <1>10, <1>11,
     <1>12, <1>13, Zenon
     DEF Next, KernelStep, IpiTakenByNext, GrantCap, ClearCap

\* A thread that is live after a step was live before it.
LEMMA LiveStays ==
    ASSUME TypeOK, CallOK, PcState, [Next]_vars, NEW u \in Thread, Live(u)'
    PROVE  Live(u)
BY ExitedStays, DoomedStays, Zenon DEF Live

-----------------------------------------------------------------------------
(* One answer, in one place *)

\* A send entry is not a recv entry.
LEMMA EntriesDiffer == ASSUME TypeOK PROVE sends \cap recvs = {}
<1> SUFFICES ASSUME NEW e \in sends, e \in recvs PROVE FALSE
  BY Zenon
<1>1. e \in SendEntry /\ e \in RecvEntry
  BY Zenon DEF TypeOK
<1>2. "dst" \in DOMAIN e
  BY <1>1, Zenon DEF SendEntry
<1>3. DOMAIN e = {"tid", "pid", "src"}
  BY <1>1, Zenon DEF RecvEntry
<1> QED
  BY <1>2, <1>3, Zenon

\* A step that moves none of the three places an answer can be in, and
\* starts or ends no wait, keeps the answer where it is.
LEMMA AnswerKept ==
    ASSUME NEW u \in Thread, AnswerInOnePlace(u),
           Pending(u)' = Pending(u), Owers(u)' = Owers(u),
           ipc_wake'[u] = ipc_wake[u], Waiting(u)' <=> Waiting(u),
           state'[u] = "Blocked" <=> state[u] = "Blocked"
    PROVE  AnswerInOnePlace(u)'
BY Zenon DEF AnswerInOnePlace, IsOne

\* Pairing moves the answer from the queue to the thread that paired.
LEMMA AnswerPaired ==
    ASSUME TypeOK, NEW u \in Thread, AnswerInOnePlace(u),
           NEW t \in Thread, todo[t] = {}, NEW x,
           NEW e \in sends \cup recvs,
           (sends \cup recvs)' = (sends \cup recvs) \ {e},
           todo' = Set(todo, t, {[tid |-> e.tid, res |-> x]}),
           UNCHANGED <<state, ipc_wake>>, Waiting(u)' <=> Waiting(u)
    PROVE  AnswerInOnePlace(u)'
<1>1. todo'[t] = {[tid |-> e.tid, res |-> x]}
  BY Zenon DEF TypeOK
<1>2. \A k \in Thread \ {t} : todo'[k] = todo[k]
  BY Zenon DEF TypeOK
<1>3. CASE u = e.tid
  <2>1. Pending(u) = {e} /\ Owers(u) = {} /\ ipc_wake[u] = Nil /\ Waiting(u)
    BY <1>3, Zenon DEF AnswerInOnePlace, IsOne, Pending
  <2>2. Pending(u)' = {}
    BY <2>1, Zenon DEF Pending
  <2>3. Owers(u)' = {t}
    <3>1. [tid |-> e.tid, res |-> x].tid = u
      BY <1>3, Zenon
    <3>2. t \in Owers(u)'
      BY <1>1, <3>1, Zenon DEF Owers
    <3> QED
      BY <1>2, <2>1, <3>2, Zenon DEF Owers
  <2> QED
    BY <2>1, <2>2, <2>3, Zenon DEF AnswerInOnePlace, IsOne
<1>4. CASE u # e.tid
  <2>1. Pending(u)' = Pending(u)
    BY <1>4, Zenon DEF Pending
  <2>2. Owers(u)' = Owers(u)
    BY <1>1, <1>2, <1>4 DEF Owers
  <2> QED
    BY <2>1, <2>2, AnswerKept, Zenon
<1> QED
  BY <1>3, <1>4, Zenon

\* Registering begins a wait and queues the one answer it is owed.
LEMMA AnswerQueued ==
    ASSUME NEW u \in Thread, AnswerInOnePlace(u),
           NEW t \in Thread, ~Waiting(t), NEW e, e.tid = t,
           (sends \cup recvs)' = (sends \cup recvs) \cup {e},
           UNCHANGED <<todo, state, ipc_wake>>,
           Waiting(t)', u # t => (Waiting(u)' <=> Waiting(u))
    PROVE  AnswerInOnePlace(u)'
<1>1. Owers(u)' = Owers(u)
  BY Zenon DEF Owers
<1>2. CASE u = t
  <2>1. Pending(u) = {} /\ Owers(u) = {} /\ ipc_wake[u] = Nil
    BY <1>2, Zenon DEF AnswerInOnePlace
  <2>2. Pending(u)' = {e}
    BY <1>2, <2>1, Zenon DEF Pending
  <2> QED
    BY <1>1, <1>2, <2>1, <2>2, Zenon DEF AnswerInOnePlace, IsOne
<1>3. CASE u # t
  <2>1. Pending(u)' = Pending(u)
    BY <1>3, Zenon DEF Pending
  <2> QED
    BY <1>1, <1>3, <2>1, AnswerKept, Zenon
<1> QED
  BY <1>2, <1>3, Zenon

\* A wake-up hands the answer over: to the frame of a blocked thread, whose
\* wait is over, or to ipc_wake of one that has not blocked yet.
LEMMA AnswerDelivered ==
    ASSUME TypeOK, TodoOK, PcState, NEW u \in Thread, AnswerInOnePlace(u),
           NEW t \in Thread, NEW w \in todo[t], IpcWakeWith(w),
           todo' = Set(todo, t, todo[t] \ {w}), UNCHANGED <<sends, recvs>>,
           \A v \in Thread : pc'[v] \in {"registered", "parking"}
                               <=> pc[v] \in {"registered", "parking"}
    PROVE  AnswerInOnePlace(u)'
<1>1. w.tid \in Thread /\ w.res \in Result
  BY Records, Zenon DEF TypeOK
<1>2. w.res # Nil /\ t \in Owers(w.tid)
  BY <1>1, IpcConstants, Zenon DEF Result, Errno, Owers
<1>3. Pending(u)' = Pending(u)
  BY Zenon DEF Pending
<1>4. CASE u = w.tid
  <2>1. Pending(u) = {} /\ Owers(u) = {t} /\ ipc_wake[u] = Nil /\ Waiting(u)
    BY <1>2, <1>4, Zenon DEF AnswerInOnePlace, IsOne
  <2>2. Owers(u)' = {}
    <3>1. \A v \in todo'[t] : v.tid # u
      <4>1. todo'[t] = todo[t] \ {w}
        BY Zenon DEF TypeOK
      <4>2. \A v \in todo[t] : v.tid = w.tid => v = w
        BY Zenon DEF TodoOK
      <4> QED
        BY ONLY <1>4, <4>1, <4>2, Zenon
    <3>2. \A k \in Thread \ {t} : k \notin Owers(u) /\ todo'[k] = todo[k]
      BY <2>1, Zenon DEF TypeOK
    <3> QED
      BY <3>1, <3>2, Zenon DEF Owers
  <2>3. CASE state[u] = "Blocked"
    <3>1. state'[u] = "Ready" /\ ipc_wake'[u] = Nil
      BY <1>1, <1>4, <2>3 DEF IpcWakeWith, TypeOK
    <3>2. ~Waiting(u)'
      BY <2>3, <3>1, Zenon DEF Waiting, PcState
    <3> QED
      BY <1>3, <2>1, <2>2, <3>1, <3>2, Zenon DEF AnswerInOnePlace
  <2>4. CASE state[u] # "Blocked"
    <3>1. ipc_wake' = [ipc_wake EXCEPT ![u] = w.res] /\ state' = state
      BY <1>4, <2>4, Zenon DEF IpcWakeWith
    <3>2. ipc_wake'[u] # Nil
      BY <1>2, <3>1, Zenon DEF TypeOK
    <3>3. Waiting(u)'
      BY <2>1, <2>4, Zenon DEF Waiting
    <3> QED
      BY <1>3, <2>1, <2>2, <2>4, <3>1, <3>2, <3>3, Zenon DEF AnswerInOnePlace
  <2> QED
    BY <2>3, <2>4, Zenon
<1>5. CASE u # w.tid
  <2>1. ipc_wake'[u] = ipc_wake[u] /\ state'[u] = state[u]
    BY <1>1, <1>5 DEF IpcWakeWith, TypeOK
  <2>2. Owers(u)' = Owers(u)
    BY <1>5, Zenon DEF Owers, TypeOK
  <2>3. Waiting(u)' <=> Waiting(u)
    BY <2>1, Zenon DEF Waiting
  <2> QED
    BY <1>3, <2>1, <2>2, <2>3, AnswerKept, Zenon
<1> QED
  BY <1>4, <1>5, Zenon

\* The induction step of OneAnswerOwed: each step moves an answer from one
\* place to the next, or leaves it alone.
LEMMA NextAnswer ==
    ASSUME TypeOK, CallOK, PcState, TodoOK, EntryOK, OneAnswerOwed, [Next]_vars
    PROVE  OneAnswerOwed'
<1> SUFFICES ASSUME NEW u \in Thread, Live(u)'
             PROVE  AnswerInOnePlace(u)'
  BY Zenon DEF OneAnswerOwed
<1> USE DEF vars, ipcVars, schedVars, killVars, localVars
<1>0. AnswerInOnePlace(u)
  BY LiveStays, Zenon DEF OneAnswerOwed
<1>1. ASSUME UNCHANGED <<sends, recvs, todo, ipc_wake>>,
             Waiting(u)' <=> Waiting(u),
             state'[u] = "Blocked" <=> state[u] = "Blocked"
      PROVE  AnswerInOnePlace(u)'
  BY <1>0, <1>1, AnswerKept, Zenon DEF Pending, Owers
<1>2. ASSUME NEW t \in Thread, Syscall(t)
      PROVE  AnswerInOnePlace(u)'
  <2>1. /\ Waiting(u)' <=> Waiting(u)
        /\ state'[u] = "Blocked" <=> state[u] = "Blocked"
    BY <1>2, Zenon
       DEF Syscall, SendCall, RecvCall, Resolve, Refuse, InUser, Waiting, Live, PcState,
           TypeOK
  <2>2. UNCHANGED <<sends, recvs, todo, ipc_wake>>
    BY <1>2, Zenon DEF Syscall, SendCall, RecvCall, Resolve, Refuse, InUser
  <2> QED
    BY <1>1, <2>1, <2>2, Zenon
<1>3. ASSUME NEW t \in Thread, DonateOnBlock(t) \/ KillWaitEnd(t) \/ Sret(t)
      PROVE  AnswerInOnePlace(u)'
  <2>1. /\ Waiting(u)' <=> Waiting(u)
        /\ state'[u] = "Blocked" <=> state[u] = "Blocked"
    BY <1>3, Zenon DEF DonateOnBlock, KillWaitEnd, Sret, Waiting, Live, PcState, TypeOK
  <2>2. UNCHANGED <<sends, recvs, todo, ipc_wake>>
    BY <1>3, Zenon DEF DonateOnBlock, KillWaitEnd, Sret
  <2> QED
    BY <1>1, <2>1, <2>2, Zenon
<1>4. ASSUME NEW t \in Thread, Dispatch(t)
      PROVE  AnswerInOnePlace(u)'
  <2>1. /\ Waiting(u)' <=> Waiting(u)
        /\ state'[u] = "Blocked" <=> state[u] = "Blocked"
    BY <1>4, Zenon DEF Dispatch, Waiting, Live, PcState, TypeOK
  <2>2. UNCHANGED <<sends, recvs, todo, ipc_wake>>
    BY <1>4, Zenon DEF Dispatch
  <2> QED
    BY <1>1, <2>1, <2>2, Zenon
<1>5. ASSUME NEW t \in Thread, MarkVictims(t)
      PROVE  AnswerInOnePlace(u)'
  <2>1. /\ Waiting(u)' <=> Waiting(u)
        /\ state'[u] = "Blocked" <=> state[u] = "Blocked"
    BY <1>5, Zenon DEF MarkVictims, Victims, Waiting, Live, PcState, TypeOK
  <2>2. UNCHANGED <<sends, recvs, todo, ipc_wake>>
    BY <1>5, Zenon DEF MarkVictims, Victims
  <2> QED
    BY <1>1, <2>1, <2>2, Zenon
<1>6. ASSUME NEW t \in Thread, Destroy(t)
      PROVE  AnswerInOnePlace(u)'
  <2>1. /\ Waiting(u)' <=> Waiting(u)
        /\ state'[u] = "Blocked" <=> state[u] = "Blocked"
    BY <1>6, Zenon DEF Destroy, Waiting, Live, PcState, TypeOK
  <2>2. UNCHANGED <<sends, recvs, todo, ipc_wake>>
    BY <1>6, Zenon DEF Destroy
  <2> QED
    BY <1>1, <2>1, <2>2, Zenon
<1>7. ASSUME NEW t \in Thread, Exit(t) \/ ForceKill(t) \/ ExitFromTrap(t)
      PROVE  AnswerInOnePlace(u)'
  <2>1. /\ Waiting(u)' <=> Waiting(u)
        /\ state'[u] = "Blocked" <=> state[u] = "Blocked"
    BY <1>7, Zenon
       DEF Exit, ForceKill, ExitFromTrap, Exited, InUser, Waiting, Live, PcState, TypeOK
  <2>2. UNCHANGED <<sends, recvs, todo, ipc_wake>>
    BY <1>7, Zenon DEF Exit, ForceKill, ExitFromTrap, Exited, InUser
  <2> QED
    BY <1>1, <2>1, <2>2, Zenon
<1>8. ASSUME NEW t \in Thread, NEW r \in recvs, SendPair(t, r)
      PROVE  AnswerInOnePlace(u)'
  <2>1. todo[t] = {}
    BY <1>8, Zenon DEF SendPair, TodoOK
  <2>2. /\ (sends \cup recvs)' = (sends \cup recvs) \ {r}
        /\ todo' = Set(todo, t, {[tid |-> r.tid, res |-> call[t].msg]})
        /\ UNCHANGED <<state, ipc_wake>>
    BY <1>8, EntriesDiffer, Zenon DEF SendPair
  <2>3. Waiting(u)' <=> Waiting(u)
    BY <1>8, Zenon DEF SendPair, Waiting, TypeOK
  <2> QED
    BY <1>0, <2>1, <2>2, <2>3, AnswerPaired, Zenon
<1>9. ASSUME NEW t \in Thread, NEW s \in sends, RecvPair(t, s)
      PROVE  AnswerInOnePlace(u)'
  <2>1. todo[t] = {}
    BY <1>9, Zenon DEF RecvPair, TodoOK
  <2>2. /\ (sends \cup recvs)' = (sends \cup recvs) \ {s}
        /\ todo' = Set(todo, t, {[tid |-> s.tid, res |-> "Ack"]})
        /\ UNCHANGED <<state, ipc_wake>>
    BY <1>9, EntriesDiffer, Zenon DEF RecvPair
  <2>3. Waiting(u)' <=> Waiting(u)
    BY <1>9, Zenon DEF RecvPair, Waiting, TypeOK
  <2> QED
    BY <1>0, <2>1, <2>2, <2>3, AnswerPaired, Zenon
<1>10. ASSUME NEW t \in Thread, SendRegister(t)
      PROVE  AnswerInOnePlace(u)'
  <2> DEFINE e == [tid |-> t, pid |-> ProcOf[t],
                    dst |-> call[t].peer, msg |-> call[t].msg]
  <2>1. e.tid = t
    BY Zenon
  <2>2. (sends \cup recvs)' = (sends \cup recvs) \cup {e}
    BY <1>10, Zenon DEF SendRegister
  <2>3. UNCHANGED <<todo, state, ipc_wake>>
    BY <1>10, Zenon DEF SendRegister
  <2>4. ~Waiting(t) /\ Waiting(t)' /\ (u # t => (Waiting(u)' <=> Waiting(u)))
    BY <1>10, Zenon DEF SendRegister, Waiting, PcState, TypeOK
  <2> HIDE DEF e
  <2> QED
    BY <1>0, <2>1, <2>2, <2>3, <2>4, AnswerQueued, Zenon
<1>11. ASSUME NEW t \in Thread, RecvRegister(t)
      PROVE  AnswerInOnePlace(u)'
  <2> DEFINE e == [tid |-> t, pid |-> ProcOf[t], src |-> call[t].peer]
  <2>1. e.tid = t
    BY Zenon
  <2>2. (sends \cup recvs)' = (sends \cup recvs) \cup {e}
    BY <1>11, Zenon DEF RecvRegister
  <2>3. UNCHANGED <<todo, state, ipc_wake>>
    BY <1>11, Zenon DEF RecvRegister
  <2>4. ~Waiting(t) /\ Waiting(t)' /\ (u # t => (Waiting(u)' <=> Waiting(u)))
    BY <1>11, Zenon DEF RecvRegister, Waiting, PcState, TypeOK
  <2> HIDE DEF e
  <2> QED
    BY <1>0, <2>1, <2>2, <2>3, <2>4, AnswerQueued, Zenon
<1>12. ASSUME NEW t \in Thread, NEW w \in todo[t], WakePartner(t, w)
      PROVE  AnswerInOnePlace(u)'
  <2>1. \A v \in Thread : pc'[v] \in {"registered", "parking"}
                            <=> pc[v] \in {"registered", "parking"}
    BY <1>12, Zenon DEF WakePartner, Return, TypeOK
  <2>2. /\ IpcWakeWith(w) /\ todo' = Set(todo, t, todo[t] \ {w})
        /\ UNCHANGED <<sends, recvs>>
    BY <1>12, Zenon DEF WakePartner
  <2> QED
    BY <1>0, <2>1, <2>2, AnswerDelivered, Zenon
<1>13. ASSUME NEW t \in Thread, NEW w \in todo[t], PurgeWake(t, w)
      PROVE  AnswerInOnePlace(u)'
  <2>1. \A v \in Thread : pc'[v] \in {"registered", "parking"}
                            <=> pc[v] \in {"registered", "parking"}
    BY <1>13, Zenon DEF PurgeWake, TypeOK
  <2>2. /\ IpcWakeWith(w) /\ todo' = Set(todo, t, todo[t] \ {w})
        /\ UNCHANGED <<sends, recvs>>
    BY <1>13, Zenon DEF PurgeWake
  <2> QED
    BY <1>0, <2>1, <2>2, AnswerDelivered, Zenon
<1>14. ASSUME NEW t \in Thread, ConsumeWake(t)
      PROVE  AnswerInOnePlace(u)'
  <2>1. Pending(u)' = Pending(u) /\ Owers(u)' = Owers(u)
    BY <1>14, Zenon DEF ConsumeWake, Pending, Owers
  <2>2. CASE u = t
    <3>1. Pending(u) = {} /\ Owers(u) = {}
      BY <1>14, <1>0, <2>2, Zenon DEF ConsumeWake, AnswerInOnePlace, Waiting
    <3>2. ~Waiting(u)' /\ ipc_wake'[u] = Nil
      BY <1>14, <2>2, Zenon DEF ConsumeWake, Return, Waiting, TypeOK
    <3> QED
      BY <2>1, <3>1, <3>2, Zenon DEF AnswerInOnePlace
  <2>3. CASE u # t
    <3>1. /\ Waiting(u)' <=> Waiting(u)
          /\ state'[u] = state[u] /\ ipc_wake'[u] = ipc_wake[u]
      BY <1>14, <2>3, Zenon DEF ConsumeWake, Return, Waiting, TypeOK
    <3> QED
      BY <1>0, <2>1, <3>1, AnswerKept, Zenon
  <2> QED
    BY <2>2, <2>3, Zenon
<1>15. ASSUME NEW t \in Thread, Block(t)
      PROVE  AnswerInOnePlace(u)'
  <2>1. /\ Pending(u)' = Pending(u) /\ Owers(u)' = Owers(u)
        /\ ipc_wake'[u] = ipc_wake[u]
    BY <1>15, Zenon DEF Block, Pending, Owers
  <2>2. Waiting(u)' <=> Waiting(u)
    BY <1>15, Zenon DEF Block, Waiting, TypeOK
  <2>3. u = t => ipc_wake[u] = Nil
    BY <1>15, Zenon DEF Block
  <2>4. u # t => state'[u] = state[u]
    BY <1>15 DEF Block
  <2> QED
    BY <1>0, <2>1, <2>2, <2>3, <2>4, Zenon DEF AnswerInOnePlace, IsOne
<1>16. ASSUME NEW t \in Thread, NEW p \in Mortal, Purge(t, p)
      PROVE  AnswerInOnePlace(u)'
  <2> DEFINE out == {e \in sends : p \in {e.dst, e.pid}}
                      \cup {e \in recvs : p \in {e.src, e.pid}}
  <2>1. todo[t] = {} /\ p \in Proc
    BY <1>16, IpcConstants, Zenon DEF Purge, InUser, TodoOK
  <2>2. /\ Waiting(u)' <=> Waiting(u)
        /\ state'[u] = state[u] /\ ipc_wake'[u] = ipc_wake[u]
    BY <1>16, Zenon DEF Purge, InUser, Waiting, TypeOK
  <2>3. ProcOf[u] # p
    BY <1>16, <2>1, Zenon DEF Purge, Live, Doomed, TypeOK
  <2>4. Pending(u)' = Pending(u) \ out
    BY <1>16, EntriesDiffer, Zenon DEF Purge, Pending
  <2>5. todo'[t] = {[tid |-> e.tid, res |-> "ENOENT"] :
                       e \in {x \in out : x.pid # p}}
    BY <1>16, Zenon DEF Purge, TypeOK
  <2>6. \A k \in Thread : k # t => todo'[k] = todo[k]
    BY <1>16, Zenon DEF Purge, TypeOK
  <2>7. CASE \E e \in out : e.tid = u
    <3>1. PICK e \in out : e.tid = u
      BY <2>7, Zenon
    <3>2. Pending(u) = {e} /\ Owers(u) = {} /\ ipc_wake[u] = Nil /\ Waiting(u)
      BY <1>0, <3>1, Zenon DEF AnswerInOnePlace, IsOne, Pending
    <3>3. Pending(u)' = {}
      BY <2>4, <3>1, <3>2, Zenon
    <3>4. e.pid # p
      BY <2>3, <3>1, Zenon DEF EntryOK
    <3>5. [tid |-> u, res |-> "ENOENT"] \in todo'[t]
      BY <2>5, <3>1, <3>4, Zenon
    <3>6. Owers(u)' = {t}
      BY <2>6, <3>2, <3>5 DEF Owers
    <3> QED
      BY <2>2, <3>2, <3>3, <3>6, Zenon DEF AnswerInOnePlace, IsOne
  <2>8. CASE ~\E e \in out : e.tid = u
    <3>1. Pending(u)' = Pending(u)
      BY <2>4, <2>8, Zenon DEF Pending
    <3>2. \A w \in todo'[t] : w.tid # u
      BY <2>5, <2>8
    <3>3. Owers(u)' = Owers(u)
      BY <2>1, <2>6, <3>2, Zenon DEF Owers
    <3> QED
      BY <1>0, <2>2, <3>1, <3>3, AnswerKept, Zenon
  <2> QED
    BY <2>7, <2>8, Zenon
<1>17. CASE UNCHANGED <<ipcVars, schedVars, localVars>>
  BY <1>1, <1>17, Zenon DEF Waiting
<1> QED
  BY <1>2, <1>3, <1>4, <1>5, <1>6, <1>7, <1>8, <1>9, <1>10, <1>11, <1>12,
     <1>13, <1>14, <1>15, <1>16, <1>17, Zenon
     DEF Next, KernelStep, IpiTakenByNext, GrantCap, ClearCap

-----------------------------------------------------------------------------
(* Theorems *)

\* The inductive invariant holds initially ...
LEMMA InitInv == Init => Inv
<1> SUFFICES ASSUME Init PROVE Inv
  BY Zenon
<1>1. TypeOK /\ CallOK /\ PcState
  BY InitType, Zenon
<1>2. TodoOK /\ EntryOK /\ NoMatchLeftQueued
  BY Zenon DEF Init, TodoOK, EntryOK, NoMatchLeftQueued
<1>3. FramesOK /\ DonationOnlyWhileWaiting
  BY Zenon DEF Init, FramesOK, ReturnsOnce, DonationOnlyWhileWaiting, Fresh
<1>4. OneAnswerOwed
  BY Zenon DEF Init, OneAnswerOwed, AnswerInOnePlace, Waiting, Pending, Owers
<1> QED
  BY <1>1, <1>2, <1>3, <1>4, Zenon DEF Inv

\* ... and every step preserves it.
LEMMA NextInv == Inv /\ [Next]_vars => Inv'
<1> SUFFICES ASSUME Inv, [Next]_vars PROVE Inv'
  BY Zenon
<1> USE DEF Inv
<1>1. (TypeOK /\ CallOK /\ PcState)'
  BY NextTypeOK, NextCallOK, NextPcState, Zenon
<1>2. TodoOK' /\ EntryOK' /\ FramesOK'
  BY NextTodo, NextEntry, NextFrames, Zenon
<1>3. NoMatchLeftQueued' /\ DonationOnlyWhileWaiting'
  BY NextMatch, NextDonation, Zenon
<1>4. OneAnswerOwed'
  BY NextAnswer, Zenon
<1> QED
  BY <1>1, <1>2, <1>3, <1>4, Zenon

\* The inductive invariant holds in every reachable state.
THEOREM InvHolds == Spec => []Inv
BY InitInv, NextInv, PTL DEF Spec

\* Every variable of the IPC system keeps its type, in particular no kernel
\* message value or process id is invented by a stage of a call.
THEOREM TypeCorrect == Spec => []TypeOK
<1>1. Inv => TypeOK
  BY Zenon DEF Inv
<1> QED
  BY <1>1, InvHolds, PTL

\* The wake-up protocol loses no answer and duplicates none, however the
\* critical sections of any number of senders, receivers and killers
\* interleave (ipc.rs send, recv, purge_process; sched.rs ipc_wake_with_msg,
\* ipc_wake_with_err, block_user_from_trap).
THEOREM AnswersAreConserved == Spec => []OneAnswerOwed
<1>1. Inv => OneAnswerOwed
  BY Zenon DEF Inv
<1> QED
  BY <1>1, InvHolds, PTL

\* A send and the specific recv that wants it are never both queued.
THEOREM MatchesArePaired == Spec => []NoMatchLeftQueued
<1>1. Inv => NoMatchLeftQueued
  BY Zenon DEF Inv
<1> QED
  BY <1>1, InvHolds, PTL

\* Every call moves its sepc past the ecall exactly once, on whichever path
\* it completes (sched.rs ipc_wake_with_msg, block_user_from_trap;
\* syscall.rs handle).
THEOREM CallsReturnOnce == Spec => []ReturnsOnce
<1>1. Inv => ReturnsOnce
  BY Zenon DEF Inv, FramesOK
<1> QED
  BY <1>1, InvHolds, PTL

\* A priority donation is in force only while its donor waits, and goes to
\* the process it waits for (sched.rs register_donation, revoke_donations).
THEOREM DonationsAreBounded == Spec => []DonationOnlyWhileWaiting
<1>1. Inv => DonationOnlyWhileWaiting
  BY Zenon DEF Inv
<1> QED
  BY <1>1, InvHolds, PTL
=============================================================================
