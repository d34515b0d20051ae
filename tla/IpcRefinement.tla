--------------------------- MODULE IpcRefinement ---------------------------
(***************************************************************************)
(* While no process is killed, the kernel's IPC implements Rendezvous:     *)
(* proofs, for every set of processes, threads, capability slots and       *)
(* messages, that the initial states of Ipc map to initial states of       *)
(* Rendezvous and every step of Ipc maps to a step of it or to none.       *)
(***************************************************************************)
EXTENDS IpcProofs

USE DEF Set

\* No process is being killed or has been.
Quiet == alive = Proc /\ \A t \in Thread : pc[t] \notin InKill /\ ~ipi[t]

\* Nobody is waited for, or owed anything, who has exited.
Present ==
    /\ \A e \in sends \cup recvs : state[e.tid] # "Exited"
    /\ \A k \in Thread : \A w \in todo[k] : state[w.tid] # "Exited"

\* What a queue entry says is what its thread asked for.
AskedOK ==
    /\ \A t \in Thread :
          pc[t] = "resolved" /\ call[t].op = "recv" => call[t].msg = Nil
    /\ \A e \in sends :
          call[e.tid] = [op |-> "send", peer |-> e.dst, msg |-> e.msg]
    /\ \A e \in recvs :
          call[e.tid] = [op |-> "recv", peer |-> e.src, msg |-> Nil]

\* From donate_on_block until its answer comes, a thread that named its peer
\* donates to it.
DonatesOK ==
    \A t \in Thread :
        /\ pc[t] = "parking" \/ state[t] = "Blocked"
        /\ Pending(t) # {} /\ call[t].peer # AcceptAny
        => donation[t] = call[t].peer

\* The inductive invariant of a system without kills.
RInv == Inv /\ Quiet /\ Present /\ AskedOK /\ DonatesOK

-----------------------------------------------------------------------------
(* The steps of a system without kills *)

\* A step of a system without kills changes one thread's call, or only the
\* capabilities.
QuietStep(t) ==
    \/ Syscall(t)
    \/ \E r \in recvs : SendPair(t, r)
    \/ SendRegister(t)
    \/ \E s \in sends : RecvPair(t, s)
    \/ RecvRegister(t)
    \/ \E w \in todo[t] : WakePartner(t, w)
    \/ DonateOnBlock(t) \/ ConsumeWake(t) \/ Block(t)
    \/ Dispatch(t) \/ Sret(t) \/ Exit(t)

\* Without mortal processes, and with no kill under way, these are all.
LEMMA QuietSteps ==
    ASSUME Mortal = {}, Quiet, [Next]_vars
    PROVE  \/ \E t \in Thread : QuietStep(t)
           \/ UNCHANGED <<alive, ipcVars, schedVars, killVars, localVars>>
<1>1. ASSUME NEW t \in Thread, KernelStep(t) PROVE QuietStep(t)
  BY <1>1, Zenon DEF KernelStep, QuietStep, Quiet, InKill, PurgeWake, MarkVictims,
              KillWaitEnd, Destroy, ExitFromTrap
<1>2. ASSUME NEW t \in Thread, ForceKill(t) \/ IpiTakenByNext(t) PROVE FALSE
  BY <1>2, Zenon DEF ForceKill, IpiTakenByNext, Quiet
<1>3. ASSUME NEW p \in Proc, NEW slot \in Slot,
             \/ \E c \in (Proc \ {p}) \cup {Other} : GrantCap(p, slot, c)
             \/ ClearCap(p, slot)
      PROVE  UNCHANGED <<alive, ipcVars, schedVars, killVars, localVars>>
  BY <1>3, Zenon DEF GrantCap, ClearCap
<1>4. CASE UNCHANGED vars
  BY <1>4, Zenon DEF vars
<1>5. ASSUME NEW t \in Thread, Syscall(t) \/ Dispatch(t) \/ Exit(t)
      PROVE  QuietStep(t)
  BY <1>5, Zenon DEF QuietStep
<1> QED
  BY <1>1, <1>2, <1>3, <1>4, <1>5, Zenon DEF Next

\* Every thread that has not exited has its answer in one place.
LEMMA EveryAnswer ==
    ASSUME Inv, Quiet, NEW t \in Thread, state[t] # "Exited"
    PROVE  AnswerInOnePlace(t)
<1>1. \A p \in Proc : ~Doomed(p)
  BY Zenon DEF Doomed, Quiet, Inv, CallOK
<1> QED
  BY <1>1, Zenon DEF Live, Inv, OneAnswerOwed

\* A thread that is in the kernel for a call and not yet waiting, or is back
\* in user mode, has no entry and is owed nothing.
LEMMA NotWaiting ==
    ASSUME Inv, Quiet, NEW t \in Thread, state[t] # "Exited", ~Waiting(t)
    PROVE  Pending(t) = {} /\ Owers(t) = {} /\ ipc_wake[t] = Nil
BY EveryAnswer, Zenon DEF AnswerInOnePlace

\* A thread with an entry waits, and is owed nothing else.
LEMMA EntryWaits ==
    ASSUME Inv, Quiet, Present, NEW e \in sends \cup recvs
    PROVE  /\ e.tid \in Thread /\ Waiting(e.tid) /\ state[e.tid] # "Exited"
           /\ Pending(e.tid) = {e} /\ Owers(e.tid) = {} /\ ipc_wake[e.tid] = Nil
<1>1. e.tid \in Thread /\ state[e.tid] # "Exited"
  BY Records, Zenon DEF Inv, TypeOK, Present
<1>2. e \in Pending(e.tid)
  BY Zenon DEF Pending
<1>3. AnswerInOnePlace(e.tid)
  BY <1>1, EveryAnswer, Zenon
<1> QED
  BY <1>1, <1>2, <1>3, Zenon DEF AnswerInOnePlace, IsOne

\* A thread that is owed a wake-up waits, has no entry, and is owed one.
LEMMA OwedWaits ==
    ASSUME Inv, Quiet, Present, NEW k \in Thread, NEW w \in todo[k]
    PROVE  /\ w.tid \in Thread /\ Waiting(w.tid) /\ state[w.tid] # "Exited"
           /\ Pending(w.tid) = {} /\ Owers(w.tid) = {k}
           /\ ipc_wake[w.tid] = Nil
<1>1. w.tid \in Thread /\ state[w.tid] # "Exited"
  BY Records, Zenon DEF Inv, TypeOK, Present
<1>2. k \in Owers(w.tid)
  BY Zenon DEF Owers
<1>3. AnswerInOnePlace(w.tid)
  BY <1>1, EveryAnswer, Zenon
<1> QED
  BY <1>1, <1>2, <1>3, Zenon DEF AnswerInOnePlace, IsOne

-----------------------------------------------------------------------------
(* The invariant *)

\* Nothing that happens without mortal processes begins a kill.
LEMMA NextQuiet ==
    ASSUME Mortal = {}, TypeOK, Quiet, [Next]_vars
    PROVE  Quiet'
<1> USE DEF ipcVars, schedVars, killVars, localVars, TypeOK, Quiet, InKill
<1>1. ASSUME NEW t \in Thread, QuietStep(t)
      PROVE  UNCHANGED <<alive, ipi>>
  BY <1>1, Zenon DEF QuietStep, Syscall, SendCall, RecvCall, SendPair, SendRegister,
              RecvPair, RecvRegister, WakePartner, DonateOnBlock, ConsumeWake,
              Block, Dispatch, Sret, Exit
<1>2. ASSUME NEW t \in Thread, QuietStep(t)
      PROVE  \E q \in PC \ InKill : pc' = [pc EXCEPT ![t] = q]
  BY <1>2, Zenon DEF QuietStep, Syscall, SendCall, RecvCall, Resolve, Refuse,
              SendPair, SendRegister, RecvPair, RecvRegister, WakePartner,
              Return, DonateOnBlock, ConsumeWake, Block, Dispatch, Sret, Exit,
              Exited, PC, InSyscall
<1> QED
  BY <1>1, <1>2, QuietSteps, Zenon
\* A thread that exits has no entry and is owed nothing; nobody else comes to
\* wait for one that has exited.
LEMMA NextPresent ==
    ASSUME Mortal = {}, Inv, Quiet, Present, [Next]_vars
    PROVE  Present'
<1> USE Records DEF ipcVars, schedVars, killVars, localVars, Inv, TypeOK,
            PcState, Present
<1>1. ASSUME NEW t \in Thread, Syscall(t) PROVE Present'
  BY <1>1, Zenon DEF Syscall, SendCall, RecvCall
<1>2. ASSUME NEW t \in Thread, NEW r \in recvs, SendPair(t, r) PROVE Present'
  <2>1. UNCHANGED <<state, sends>> /\ recvs' \subseteq recvs
    BY <1>2, Zenon DEF SendPair
  <2>2. \A k \in Thread : \A w \in todo'[k] : w \in todo[k] \/ w.tid = r.tid
    BY <1>2 DEF SendPair
  <2> QED
    BY <2>1, <2>2
<1>3. ASSUME NEW t \in Thread, SendRegister(t) \/ RecvRegister(t) PROVE Present'
  <2>1. UNCHANGED <<state, todo>> /\ state[t] # "Exited"
    BY <1>3, Zenon DEF SendRegister, RecvRegister
  <2>2. \A e \in (sends \cup recvs)' : e \in sends \cup recvs \/ e.tid = t
    BY <1>3 DEF SendRegister, RecvRegister
  <2> QED
    BY <2>1, <2>2, Zenon
<1>4. ASSUME NEW t \in Thread, NEW s \in sends, RecvPair(t, s) PROVE Present'
  <2>1. UNCHANGED <<state, recvs>> /\ sends' \subseteq sends
    BY <1>4, Zenon DEF RecvPair
  <2>2. \A k \in Thread : \A w \in todo'[k] : w \in todo[k] \/ w.tid = s.tid
    BY <1>4 DEF RecvPair
  <2> QED
    BY <2>1, <2>2, Zenon
<1>5. ASSUME NEW t \in Thread, NEW w \in todo[t], WakePartner(t, w)
      PROVE  Present'
  <2>1. UNCHANGED <<sends, recvs>> /\ \A k \in Thread : todo'[k] \subseteq todo[k]
    BY <1>5, Zenon DEF WakePartner
  <2>2. \A u \in Thread : state'[u] = "Exited" => state[u] = "Exited"
    BY <1>5, Zenon DEF WakePartner, IpcWakeWith
  <2> QED
    BY <2>1, <2>2, Zenon
<1>6. ASSUME NEW t \in Thread,
             DonateOnBlock(t) \/ ConsumeWake(t) \/ Block(t) \/ Dispatch(t)
             \/ Sret(t)
      PROVE  Present'
  <2>1. UNCHANGED <<sends, recvs, todo>>
    BY <1>6, Zenon DEF DonateOnBlock, ConsumeWake, Block, Dispatch, Sret
  <2>2. \A u \in Thread : state'[u] = "Exited" => state[u] = "Exited"
    BY <1>6 DEF DonateOnBlock, ConsumeWake, Block, Dispatch, Sret
  <2> QED
    BY <2>1, <2>2, Zenon
<1>7. ASSUME NEW t \in Thread, Exit(t) PROVE Present'
  <2>1. UNCHANGED <<sends, recvs, todo>> /\ state[t] = "Running" /\ ~Waiting(t)
    BY <1>7, Zenon DEF Exit, InUser, Waiting
  <2>2. \A u \in Thread : u # t => state'[u] = state[u]
    BY <1>7, Zenon DEF Exit, Exited
  <2>3. Pending(t) = {} /\ Owers(t) = {}
    BY <2>1, NotWaiting, Zenon
  <2> QED
    BY <2>1, <2>2, <2>3 DEF Pending, Owers
<1>8. CASE UNCHANGED <<alive, ipcVars, schedVars, killVars, localVars>>
  BY <1>8, Zenon
<1> QED
  BY <1>1, <1>2, <1>3, <1>4, <1>5, <1>6, <1>7, <1>8, QuietSteps, Zenon DEF QuietStep

\* A call keeps its arguments from its registration to its answer.
LEMMA NextAsked ==
    ASSUME Mortal = {}, Inv, Quiet, Present, AskedOK, [Next]_vars
    PROVE  AskedOK'
<1> USE DEF ipcVars, schedVars, killVars, localVars, Inv, TypeOK
<1>1. ASSUME NEW t \in Thread, ~Waiting(t), state[t] # "Exited",
             sends' \subseteq sends, recvs' \subseteq recvs,
             \A u \in Thread \ {t} : pc'[u] = pc[u] /\ call'[u] = call[u],
             pc'[t] = "resolved" /\ call'[t].op = "recv" => call'[t].msg = Nil
      PROVE  AskedOK'
  <2>1. Pending(t) = {}
    BY <1>1, NotWaiting, Zenon
  <2>2. \A e \in sends \cup recvs : e.tid \in Thread \ {t}
    BY <2>1, Records, Zenon DEF Pending
  <2> QED
    BY <1>1, <2>2 DEF AskedOK
<1>2. ASSUME NEW t \in Thread, Syscall(t) PROVE AskedOK'
  <2>1. ~Waiting(t) /\ state[t] # "Exited" /\ UNCHANGED <<sends, recvs>>
    BY <1>2, Zenon DEF Syscall, SendCall, RecvCall, InUser, Waiting
  <2>2. \A u \in Thread \ {t} : pc'[u] = pc[u] /\ call'[u] = call[u]
    BY <1>2, Zenon DEF Syscall, SendCall, RecvCall, Resolve, Refuse
  <2>3. pc'[t] = "resolved" /\ call'[t].op = "recv" => call'[t].msg = Nil
    BY <1>2 DEF Syscall, SendCall, RecvCall, Resolve, Refuse
  <2> QED
    BY <1>1, <2>1, <2>2, <2>3, Zenon
<1>3. ASSUME NEW t \in Thread, NEW r \in recvs, SendPair(t, r) PROVE AskedOK'
  BY <1>3, Zenon DEF SendPair, AskedOK
<1>4. ASSUME NEW t \in Thread, NEW s \in sends, RecvPair(t, s) PROVE AskedOK'
  <2>1. ~Waiting(t) /\ state[t] # "Exited"
    BY <1>4, Zenon DEF RecvPair, Waiting, PcState
  <2>2. sends' \subseteq sends /\ recvs' \subseteq recvs /\ pc'[t] = "waking"
    BY <1>4, Zenon DEF RecvPair
  <2>3. \A u \in Thread \ {t} : pc'[u] = pc[u] /\ call'[u] = call[u]
    BY <1>4, Zenon DEF RecvPair
  <2> QED
    BY <1>1, <2>1, <2>2, <2>3, Zenon
<1>5. ASSUME NEW t \in Thread, SendRegister(t) PROVE AskedOK'
  <2>1. call[t] = [op |-> "send", peer |-> call[t].peer, msg |-> call[t].msg]
    BY <1>5, Zenon DEF SendRegister, Call
  <2> QED
    BY <1>5, <2>1 DEF SendRegister, AskedOK
<1>6. ASSUME NEW t \in Thread, RecvRegister(t) PROVE AskedOK'
  <2>1. call[t] = [op |-> "recv", peer |-> call[t].peer, msg |-> Nil]
    BY <1>6, Zenon DEF RecvRegister, Call, AskedOK
  <2> QED
    BY <1>6, <2>1 DEF RecvRegister, AskedOK
<1>7. ASSUME NEW t \in Thread,
             (\E w \in todo[t] : WakePartner(t, w)) \/ Exit(t)
      PROVE  AskedOK'
  <2>1. ~Waiting(t) /\ state[t] # "Exited" /\ UNCHANGED <<sends, recvs>>
    BY <1>7, Zenon DEF WakePartner, Exit, Waiting, InUser, PcState
  <2>2. /\ \A u \in Thread \ {t} : pc'[u] = pc[u] /\ call'[u] = call[u]
        /\ pc'[t] # "resolved"
    BY <1>7, Zenon DEF WakePartner, Exit, Exited, Return
  <2> QED
    BY <1>1, <2>1, <2>2, Zenon
<1>8. ASSUME NEW t \in Thread, DonateOnBlock(t) \/ Block(t) \/ Sret(t)
      PROVE  AskedOK'
  BY <1>8 DEF DonateOnBlock, Block, Sret, AskedOK
<1>9. ASSUME NEW t \in Thread, ConsumeWake(t) PROVE AskedOK'
  <2>1. Pending(t) = {}
    <3>1. ipc_wake[t] # Nil /\ state[t] # "Exited"
      BY <1>9, Zenon DEF ConsumeWake, PcState
    <3> QED
      BY <3>1, EveryAnswer, Zenon DEF AnswerInOnePlace
  <2>2. \A e \in sends \cup recvs : e.tid \in Thread \ {t}
    BY <2>1, Records, Zenon DEF Pending
  <2>3. /\ \A u \in Thread \ {t} : pc'[u] = pc[u] /\ call'[u] = call[u]
        /\ pc'[t] = "returning" /\ UNCHANGED <<sends, recvs>>
    BY <1>9, Zenon DEF ConsumeWake, Return
  <2> QED
    BY <2>2, <2>3 DEF AskedOK
<1>10. ASSUME NEW t \in Thread, Dispatch(t) PROVE AskedOK'
  <2>1. ~Waiting(t) /\ state[t] # "Exited" /\ UNCHANGED <<sends, recvs>>
    BY <1>10, Zenon DEF Dispatch, Waiting, PcState
  <2>2. /\ \A u \in Thread \ {t} : pc'[u] = pc[u] /\ call'[u] = call[u]
        /\ pc'[t] = "returning"
    BY <1>10, Zenon DEF Dispatch
  <2> QED
    BY <1>1, <2>1, <2>2, Zenon
<1>11. CASE UNCHANGED <<alive, ipcVars, schedVars, killVars, localVars>>
  BY <1>11, Zenon DEF AskedOK
<1> QED
  BY <1>2, <1>3, <1>4, <1>5, <1>6, <1>7, <1>8, <1>9, <1>10, <1>11,
     QuietSteps, Zenon DEF QuietStep

\* A thread that named its peer parks only after donate_on_block, and its
\* donation is withdrawn only with its answer.
LEMMA NextDonates ==
    ASSUME Mortal = {}, Inv, Quiet, Present, DonatesOK, [Next]_vars
    PROVE  DonatesOK'
<1> USE DEF ipcVars, schedVars, killVars, localVars, Inv, TypeOK
<1>1. ASSUME NEW t \in Thread, UNCHANGED <<state, donation>>,
             state[t] # "Blocked", pc'[t] # "parking",
             \A u \in Thread \ {t} : /\ pc'[u] = pc[u] /\ call'[u] = call[u]
                                     /\ Pending(u)' \subseteq Pending(u)
      PROVE  DonatesOK'
  BY <1>1, Zenon DEF DonatesOK
<1>2. ASSUME NEW t \in Thread, Syscall(t) \/ Sret(t) PROVE DonatesOK'
  <2>1. UNCHANGED <<state, donation, sends, recvs>> /\ state[t] # "Blocked"
    BY <1>2, Zenon DEF Syscall, SendCall, RecvCall, InUser, Sret, PcState
  <2>2. /\ pc'[t] # "parking"
        /\ \A u \in Thread \ {t} : pc'[u] = pc[u] /\ call'[u] = call[u]
    BY <1>2, Zenon DEF Syscall, SendCall, RecvCall, Resolve, Refuse, Sret
  <2> QED
    BY <1>1, <2>1, <2>2, Zenon DEF Pending
<1>3. ASSUME NEW t \in Thread,
             \/ \E r \in recvs : SendPair(t, r)
             \/ \E s \in sends : RecvPair(t, s)
             \/ SendRegister(t)
             \/ RecvRegister(t) /\ call[t].peer # AcceptAny
      PROVE  DonatesOK'
  <2>1. UNCHANGED <<state, donation>> /\ state[t] # "Blocked"
    BY <1>3, Zenon DEF SendPair, RecvPair, SendRegister, RecvRegister, PcState
  <2>2. /\ pc'[t] # "parking"
        /\ \A u \in Thread \ {t} : pc'[u] = pc[u]
    BY <1>3, Zenon DEF SendPair, RecvPair, SendRegister, RecvRegister
  <2>4. \A u \in Thread \ {t} : call'[u] = call[u]
    <3>1. ASSUME NEW s \in sends, RecvPair(t, s)
          PROVE  \A u \in Thread \ {t} : call'[u] = call[u]
      BY <3>1, Zenon DEF RecvPair
    <3> QED
      BY <1>3, <3>1, Zenon DEF SendPair, SendRegister, RecvRegister
  <2>3. \A e \in (sends \cup recvs)' : e \in sends \cup recvs \/ e.tid = t
    <3>1. CASE \/ \E r \in recvs : SendPair(t, r)
               \/ \E s \in sends : RecvPair(t, s)
      BY <3>1, Zenon DEF SendPair, RecvPair
    <3>2. CASE SendRegister(t) \/ RecvRegister(t)
      BY <3>2 DEF SendRegister, RecvRegister
    <3> QED
      BY <1>3, <3>1, <3>2, Zenon
  <2> QED
    BY <1>1, <2>1, <2>2, <2>3, <2>4, Zenon DEF Pending
<1>4. ASSUME NEW t \in Thread, RecvRegister(t), call[t].peer = AcceptAny
      PROVE  DonatesOK'
  <2>1. UNCHANGED <<state, donation, call, sends>>
    BY <1>4, Zenon DEF RecvRegister
  <2>2. /\ \A u \in Thread \ {t} : pc'[u] = pc[u]
        /\ \A e \in recvs' : e \in recvs \/ e.tid = t
    BY <1>4 DEF RecvRegister
  <2> QED
    BY <1>4, <2>1, <2>2, Zenon DEF DonatesOK, Pending
<1>5. ASSUME NEW t \in Thread, NEW w \in todo[t], WakePartner(t, w)
      PROVE  DonatesOK'
  <2>1. w.tid \in Thread /\ Pending(w.tid) = {} /\ UNCHANGED <<sends, recvs>>
    BY <1>5, OwedWaits, Zenon DEF WakePartner
  <2>2. \A u \in Thread \ {w.tid} :
          state'[u] = state[u] /\ donation'[u] = donation[u]
    BY <1>5, <2>1, Zenon DEF WakePartner, IpcWakeWith
  <2>3. /\ \A u \in Thread \ {t} : pc'[u] = pc[u] /\ call'[u] = call[u]
        /\ pc'[t] = "returning" /\ state[t] # "Blocked"
    BY <1>5, Zenon DEF WakePartner, Return, PcState
  <2> QED
    BY <2>1, <2>2, <2>3 DEF DonatesOK, Pending
<1>6. ASSUME NEW t \in Thread, DonateOnBlock(t) PROVE DonatesOK'
  BY <1>6, Zenon DEF DonateOnBlock, DonatesOK, Pending
<1>7. ASSUME NEW t \in Thread, Block(t) PROVE DonatesOK'
  BY <1>7, Zenon DEF Block, DonatesOK, Pending
<1>8. ASSUME NEW t \in Thread, ConsumeWake(t) \/ Dispatch(t) \/ Exit(t)
      PROVE  DonatesOK'
  <2>1. /\ \A u \in Thread \ {t} : /\ state'[u] = state[u]
                                   /\ donation'[u] = donation[u]
                                   /\ pc'[u] = pc[u] /\ call'[u] = call[u]
        /\ state'[t] # "Blocked" /\ pc'[t] # "parking"
    BY <1>8, Zenon DEF ConsumeWake, Dispatch, Exit, Exited, Return
  <2>2. UNCHANGED <<sends, recvs>>
    BY <1>8, Zenon DEF ConsumeWake, Dispatch, Exit
  <2> QED
    BY <2>1, <2>2, Zenon DEF DonatesOK, Pending
<1>9. CASE UNCHANGED <<alive, ipcVars, schedVars, killVars, localVars>>
  BY <1>9, Zenon DEF DonatesOK, Pending
<1> QED
  BY <1>2, <1>3, <1>4, <1>5, <1>6, <1>7, <1>8, <1>9, QuietSteps, Zenon DEF QuietStep

\* The invariant of a system without kills holds initially ...
LEMMA InitRInv == Init => RInv
<1> SUFFICES ASSUME Init PROVE RInv
  BY Zenon
<1>1. Inv
  BY InitInv, Zenon
<1>2. Quiet /\ Present /\ AskedOK /\ DonatesOK
  BY Zenon DEF Init, Quiet, Present, AskedOK, DonatesOK, Pending, InKill
<1> QED
  BY <1>1, <1>2, Zenon DEF RInv

\* ... and is preserved.
LEMMA NextRInv == ASSUME Mortal = {} PROVE RInv /\ [Next]_vars => RInv'
<1> SUFFICES ASSUME RInv, [Next]_vars PROVE RInv'
  BY Zenon
<1>1. Inv' /\ Quiet'
  BY NextInv, NextQuiet, Zenon DEF RInv, Inv
<1>2. Present' /\ AskedOK' /\ DonatesOK'
  BY NextPresent, NextAsked, NextDonates, Zenon DEF RInv
<1> QED
  BY <1>1, <1>2, Zenon DEF RInv

\* While no process is killed, whoever is blocked on a peer it named lends it
\* its priority for as long as its entry is queued: donate_on_block comes
\* before every such block, and only the answer withdraws the donation.
THEOREM BlockedThreadsDonate ==
    ASSUME Mortal = {} PROVE Spec => []BlockedDonates
<1>1. RInv => BlockedDonates
  BY Zenon DEF RInv, DonatesOK, BlockedDonates
<1> QED
  BY <1>1, InitRInv, NextRInv, PTL DEF Spec

-----------------------------------------------------------------------------
(* The state of Rendezvous that a state of Ipc stands for *)

\* The wake-ups that others have still to perform for t.
OwedTo(t) == {w \in UNION {todo[k] : k \in Thread} : w.tid = t}

AskOf(t) == IF PhaseOf(t) = "asking" THEN call[t] ELSE NoCall

\* A choice from a set with one candidate.
LEMMA OnlyChoice ==
    ASSUME NEW S, NEW u, NEW x, {w \in S : w.tid = u} = {x}
    PROVE  (CHOOSE w \in S : w.tid = u) = x
<1>1. \E w \in S : w.tid = u
  BY Zenon
<1>2. (CHOOSE w \in S : w.tid = u) \in {w \in S : w.tid = u}
  BY <1>1, Zenon
<1> QED
  BY <1>2, Zenon

\* Somebody owes u a wake-up when there is one.
LEMMA OwersOwe ==
    ASSUME NEW u \in Thread PROVE (Owers(u) = {}) <=> (OwedTo(u) = {})
BY Zenon DEF Owers, OwedTo

\* Nobody is owed two wake-ups.
LEMMA OneOwed ==
    ASSUME Inv, Quiet, Present, NEW u \in Thread
    PROVE  OwedTo(u) = {} \/ \E x : OwedTo(u) = {x}
<1> SUFFICES ASSUME NEW x \in OwedTo(u), NEW y \in OwedTo(u) PROVE x = y
  BY Zenon
<1>1. PICK k \in Thread : x \in todo[k] /\ x.tid = u
  BY Zenon DEF OwedTo
<1>2. PICK j \in Thread : y \in todo[j] /\ y.tid = u
  BY Zenon DEF OwedTo
<1>3. Owers(u) = {k} /\ Owers(u) = {j}
  BY <1>1, <1>2, OwedWaits, Zenon
<1>4. k = j
  BY <1>3, Zenon
<1> QED
  BY <1>1, <1>2, <1>4, Zenon DEF Inv, TodoOK

\* What a thread stands for depends on its own variables, its entries and
\* the wake-ups it is owed.
LEMMA SameView ==
    ASSUME Inv, Quiet, Present, NEW u \in Thread,
           state'[u] = state[u], pc'[u] = pc[u], call'[u] = call[u],
           Pending(u)' = Pending(u), OwedTo(u)' = OwedTo(u),
           ipc_wake'[u] = ipc_wake[u], saved'[u] = saved[u],
           live'[u] = live[u]
    PROVE  /\ PhaseOf(u)' = PhaseOf(u) /\ AskOf(u)' = AskOf(u)
           /\ AnswerOf(u)' = AnswerOf(u)
<1>1. PhaseOf(u)' = PhaseOf(u)
  BY Zenon DEF PhaseOf
<1>2. AskOf(u)' = AskOf(u)
  BY <1>1, Zenon DEF AskOf
<1>3. (Owers(u) = {}) <=> (OwedTo(u) = {})
  BY OwersOwe, Zenon
<1>4. (Owers(u)' = {}) <=> (OwedTo(u)' = {})
  BY DEF Owers, OwedTo
<1>5. CASE OwedTo(u) = {}
  BY <1>1, <1>2, <1>3, <1>4, <1>5, Zenon DEF AnswerOf
<1>6. CASE OwedTo(u) # {}
  <2>1. PICK x : OwedTo(u) = {x}
    BY <1>6, OneOwed, Zenon
  <2>2. OwedWake(u) = x /\ OwedWake(u)' = x
    BY <2>1, OnlyChoice DEF OwedTo, OwedWake
  <2> QED
    BY <1>1, <1>2, <1>3, <1>4, <2>2, Zenon DEF AnswerOf
<1> QED
  BY <1>1, <1>2, <1>5, <1>6, Zenon

-----------------------------------------------------------------------------
(* The steps *)

\* Thread u stands for the same before and after a step.
Same(u) ==
    /\ PhaseOf(u)' = PhaseOf(u) /\ AskOf(u)' = AskOf(u)
    /\ AnswerOf(u)' = AnswerOf(u)

\* A step after which every thread stands for what it stood for is no step
\* of Rendezvous.
LEMMA NoStep ==
    ASSUME \A u \in Thread : Same(u) PROVE UNCHANGED R!rvars
BY Zenon DEF Same, AskOf, R!rvars

\* Where a step leaves both queues and all owed wake-ups alone, a thread whose
\* own variables it leaves alone stands for the same.
LEMMA SameLocal ==
    ASSUME Inv, Quiet, Present, NEW u \in Thread,
           UNCHANGED <<sends, recvs, todo>>,
           state'[u] = state[u], pc'[u] = pc[u], call'[u] = call[u],
           ipc_wake'[u] = ipc_wake[u], saved'[u] = saved[u],
           live'[u] = live[u]
    PROVE  Same(u)
<1>1. Pending(u)' = Pending(u) /\ OwedTo(u)' = OwedTo(u)
  BY Zenon DEF Pending, OwedTo
<1> QED
  BY <1>1, SameView, Zenon DEF Same

\* A thread in user mode is idle.
LEMMA UserIdle ==
    ASSUME Inv, NEW t \in Thread, pc[t] = "user"
    PROVE  PhaseOf(t) = "idle" /\ AskOf(t) = NoCall /\ AnswerOf(t) = Nil
BY Zenon DEF Inv, PcState, PhaseOf, AskOf, AnswerOf

\* A thread that looks for a partner is asking.
LEMMA ResolvedAsks ==
    ASSUME Inv, NEW t \in Thread, pc[t] = "resolved"
    PROVE  PhaseOf(t) = "asking" /\ AskOf(t) = call[t] /\ AnswerOf(t) = Nil
BY Zenon DEF Inv, PcState, PhaseOf, AskOf, AnswerOf

\* So is a thread with an entry in a queue.
LEMMA QueuedAsks ==
    ASSUME Inv, Quiet, Present, NEW e \in sends \cup recvs
    PROVE  /\ PhaseOf(e.tid) = "asking" /\ AskOf(e.tid) = call[e.tid]
           /\ AnswerOf(e.tid) = Nil
<1>1. pc[e.tid] # "user" /\ state[e.tid] # "Exited" /\ Pending(e.tid) # {}
  BY EntryWaits, Zenon DEF Waiting, Inv, PcState
<1> QED
  BY <1>1, Zenon DEF PhaseOf, AskOf, AnswerOf

\* A call whose capability is found begins to ask; one whose capability is
\* not is refused.
LEMMA SyscallStep ==
    ASSUME RInv, NEW t \in Thread, Syscall(t)
    PROVE  R!RNext
<1> USE DEF RInv, ipcVars, schedVars, killVars
<1>1. pc[t] = "user" /\ state[t] = "Running" /\ ~Waiting(t)
  BY Zenon DEF Syscall, SendCall, RecvCall, InUser, Waiting
<1>2. PhaseOf(t) = "idle" /\ AskOf(t) = NoCall /\ AnswerOf(t) = Nil
  BY <1>1, UserIdle, Zenon
<1>3. UNCHANGED <<sends, recvs, todo, state, ipc_wake, saved>>
  BY Zenon DEF Syscall, SendCall, RecvCall
<1>4. Pending(t) = {} /\ Owers(t) = {} /\ ipc_wake[t] = Nil
  BY <1>1, NotWaiting, Zenon
<1>5. Pending(t)' = {} /\ Owers(t)' = {}
  BY <1>3, <1>4, Zenon DEF Pending, Owers
<1>6. ASSUME NEW op, NEW q, NEW m, Resolve(t, op, q, m),
             [op |-> op, peer |-> q, msg |-> m] \in R!Asks
      PROVE  R!RNext
  <2> DEFINE a == [op |-> op, peer |-> q, msg |-> m]
  <2>1. pc'[t] = "resolved" /\ call'[t] = a
    BY <1>6, Zenon DEF Resolve, Inv, TypeOK
  <2>2. \A u \in Thread \ {t} : Same(u)
    <3> SUFFICES ASSUME NEW u \in Thread \ {t} PROVE Same(u)
      BY Zenon
    <3>1. pc'[u] = pc[u] /\ call'[u] = call[u] /\ live'[u] = live[u]
      BY <1>6, Zenon DEF Resolve, Inv, TypeOK
    <3> QED
      BY <1>3, <3>1, SameLocal, Zenon
  <2>3. PhaseOf(t)' = "asking" /\ AskOf(t)' = a /\ AnswerOf(t)' = Nil
    BY <1>1, <1>3, <2>1, Zenon DEF PhaseOf, AskOf, AnswerOf
  <2> HIDE DEF a
  <2>4. R!Ask(t, a)
    BY <1>2, <2>2, <2>3, Zenon DEF R!Ask, R!Upd, Same, AskOf
  <2> QED
    BY <1>6, <2>4, Zenon DEF R!RNext, a
<1>7. ASSUME NEW e \in {"EACCES", "EINVAL"}, Refuse(t, e)
      PROVE  R!RNext
  <2>1. pc'[t] = "returning" /\ live'[t].res = e
    BY <1>7, Zenon DEF Refuse, Inv, TypeOK
  <2>2. \A u \in Thread \ {t} : Same(u)
    <3> SUFFICES ASSUME NEW u \in Thread \ {t} PROVE Same(u)
      BY Zenon
    <3>1. pc'[u] = pc[u] /\ call'[u] = call[u] /\ live'[u] = live[u]
      BY <1>7, Zenon DEF Refuse, Inv, TypeOK
    <3> QED
      BY <1>3, <3>1, SameLocal, Zenon
  <2>3. PhaseOf(t)' = "answered"
    BY <1>1, <1>3, <1>5, <2>1, Zenon DEF PhaseOf
  <2>4. AskOf(t)' = NoCall /\ AnswerOf(t)' = e
    BY <1>1, <1>3, <1>4, <1>5, <2>1, <2>3, Zenon DEF AskOf, AnswerOf
  <2>5. R!Refused(t, e)
    BY <1>2, <2>2, <2>3, <2>4, Zenon DEF R!Refused, R!Upd, Same, AskOf
  <2> QED
    BY <2>5, Zenon DEF R!RNext
<1>8. ASSUME NEW slot \in Slot, NEW m \in Msg, SendCall(t, slot, m)
      PROVE  R!RNext
  <2>1. \A c \in Proc : [op |-> "send", peer |-> c, msg |-> m] \in R!Asks
    BY Zenon DEF R!Asks
  <2> QED
    BY <1>6, <1>7, <1>8, <2>1, Zenon DEF SendCall
<1>9. ASSUME NEW slot \in Slot, RecvCall(t, slot)
      PROVE  R!RNext
  <2>1. \A c \in Proc \cup {AcceptAny} :
           [op |-> "recv", peer |-> c, msg |-> Nil] \in R!Asks
    BY Zenon DEF R!Asks
  <2> QED
    BY <1>6, <1>7, <1>9, <2>1, Zenon DEF RecvCall
<1> QED
  BY <1>8, <1>9, Zenon DEF Syscall

\* The step by which the caller t takes the entry e out of the table and owes its
\* thread the result x.
Paired(t, e, x) ==
    /\ pc[t] = "resolved"
    /\ (sends \cup recvs)' = (sends \cup recvs) \ {e}
    /\ todo' = Set(todo, t, {[tid |-> e.tid, res |-> x]})
    /\ pc' = Set(pc, t, "waking")
    /\ UNCHANGED <<schedVars, live>>
    /\ \A u \in Thread \ {t} : call'[u] = call[u]

\* When t pairs with the thread of entry e, both leave the queues and owe
\* nothing but the wake-up of e's thread; nobody else is concerned.
LEMMA PairViews ==
    ASSUME Inv, Quiet, Present, NEW t \in Thread, NEW e \in sends \cup recvs, NEW x,
           Paired(t, e, x)
    PROVE  /\ e.tid # t
           /\ \A u \in Thread \ {t, e.tid} : Same(u)
           /\ PhaseOf(t)' = "answered"
           /\ AnswerOf(t)' = (IF call'[t].op = "send" THEN "Ack"
                                                      ELSE call'[t].msg)
           /\ PhaseOf(e.tid)' = "answered" /\ AnswerOf(e.tid)' = x
<1> USE DEF schedVars, Paired
<1> DEFINE w == [tid |-> e.tid, res |-> x]
<1>1. ~Waiting(t) /\ state[t] # "Exited" /\ todo[t] = {}
  BY Zenon DEF Waiting, Inv, PcState, TodoOK
<1>2. /\ e.tid \in Thread /\ Waiting(e.tid) /\ state[e.tid] # "Exited"
      /\ Pending(e.tid) = {e} /\ Owers(e.tid) = {} /\ ipc_wake[e.tid] = Nil
  BY EntryWaits, Zenon
<1>3. e.tid # t
  BY <1>1, <1>2, Zenon
<1>4. todo'[t] = {w} /\ \A k \in Thread \ {t} : todo'[k] = todo[k]
  BY Zenon DEF Inv, TypeOK
<1>5. pc'[t] = "waking" /\ \A u \in Thread \ {t} : pc'[u] = pc[u]
  BY Zenon DEF Inv, TypeOK
<1>6. ASSUME NEW u \in Thread \ {t, e.tid} PROVE Same(u)
  <2>1. Pending(u)' = Pending(u)
    BY Zenon DEF Pending
  <2>2. OwedTo(u)' = OwedTo(u)
    BY <1>1, <1>4 DEF OwedTo
  <2> QED
    BY <1>5, <2>1, <2>2, SameView, Zenon DEF Same
<1>7. Pending(t)' = {} /\ Pending(e.tid)' = {}
  <2>1. Pending(t) = {}
    BY <1>1, NotWaiting, Zenon
  <2> QED
    BY <1>2, <2>1, Zenon DEF Pending
<1>8. PhaseOf(t)' = "answered"
  BY <1>1, <1>5, <1>7, Zenon DEF PhaseOf
<1>9. AnswerOf(t)' = (IF call'[t].op = "send" THEN "Ack" ELSE call'[t].msg)
  BY <1>5, <1>8, Zenon DEF AnswerOf
<1>10. pc[e.tid] \in {"registered", "parking", "blocked"}
  BY <1>2, Zenon DEF Waiting, Inv, PcState
<1>11. PhaseOf(e.tid)' = "answered"
  BY <1>2, <1>3, <1>5, <1>7, <1>10, Zenon DEF PhaseOf
<1>12. AnswerOf(e.tid)' = x
  <2>1. OwedTo(e.tid) = {}
    BY <1>2, OwersOwe, Zenon
  <2>2. w.tid = e.tid
    BY Zenon
  <2>3. OwedTo(e.tid)' = {w}
    BY <1>4, <2>1, <2>2 DEF OwedTo
  <2>4. OwedWake(e.tid)' = w
    BY <2>3, OnlyChoice DEF OwedTo, OwedWake
  <2>5. Owers(e.tid)' # {}
    BY <1>4, <2>2, Zenon DEF Owers
  <2> QED
    BY <1>3, <1>5, <1>10, <1>11, <2>4, <2>5 DEF AnswerOf
<1> QED
  BY <1>3, <1>6, <1>8, <1>9, <1>11, <1>12, Zenon

\* A send that finds a recv meets its thread.
LEMMA SendPairStep ==
    ASSUME RInv, NEW t \in Thread, NEW r \in recvs, SendPair(t, r)
    PROVE  R!RNext
<1> USE DEF RInv
<1>1. pc[t] = "resolved" /\ call[t].op = "send" /\ r.pid = call[t].peer
  BY Zenon DEF SendPair, RecvMatches, First
<1>2. r.src \in {ProcOf[t], AcceptAny}
  BY Zenon DEF SendPair, RecvMatches, First
<1>3. (sends \cup recvs)' = (sends \cup recvs) \ {r}
  BY EntriesDiffer, Zenon DEF SendPair, Inv
<1>4. /\ r.tid # t
      /\ \A u \in Thread \ {t, r.tid} : Same(u)
      /\ PhaseOf(t)' = "answered" /\ AnswerOf(t)' = "Ack"
      /\ PhaseOf(r.tid)' = "answered" /\ AnswerOf(r.tid)' = call[t].msg
  <2>1. UNCHANGED <<schedVars, live, call>>
    BY Zenon DEF SendPair
  <2>2. call'[t].op = "send"
    BY <1>1, <2>1, Zenon
  <2>3. /\ todo' = Set(todo, t, {[tid |-> r.tid, res |-> call[t].msg]})
        /\ pc' = Set(pc, t, "waking")
    BY Zenon DEF SendPair
  <2>4. /\ r.tid # t
        /\ \A u \in Thread \ {t, r.tid} : Same(u)
        /\ PhaseOf(t)' = "answered"
        /\ AnswerOf(t)' = (IF call'[t].op = "send" THEN "Ack"
                                                   ELSE call'[t].msg)
        /\ PhaseOf(r.tid)' = "answered" /\ AnswerOf(r.tid)' = call[t].msg
    <3>1. r \in sends \cup recvs /\ \A u \in Thread \ {t} : call'[u] = call[u]
      BY <2>1, Zenon
    <3> HIDE DEF Set, RInv
    <3>2. Inv /\ Quiet /\ Present
      BY Zenon DEF RInv
    <3>3. Paired(t, r, call[t].msg)
      BY <1>1, <1>3, <2>1, <2>3, <3>1, Zenon DEF Paired
    <3> QED
      BY <3>1, <3>2, <3>3, PairViews, Zenon
  <2> QED
    BY <2>2, <2>4, Zenon
<1>5. PhaseOf(t) = "asking" /\ AskOf(t) = call[t] /\ AnswerOf(t) = Nil
  BY <1>1, ResolvedAsks, Zenon
<1>6. /\ PhaseOf(r.tid) = "asking" /\ AskOf(r.tid) = call[r.tid]
      /\ AnswerOf(r.tid) = Nil /\ r.tid \in Thread
  BY QueuedAsks, EntryWaits, Zenon
<1>7. call[r.tid] = [op |-> "recv", peer |-> r.src, msg |-> Nil]
  BY Zenon DEF AskedOK
<1>8. r.pid = ProcOf[r.tid]
  BY Zenon DEF Inv, EntryOK
<1>9. AskOf(t)' = NoCall /\ AskOf(r.tid)' = NoCall
  BY <1>4, Zenon DEF AskOf
<1>10. R!Meet(t, r.tid)
  BY <1>4, <1>5, <1>6, <1>9, Zenon DEF R!Meet, R!NoAsk, NoCall, Same, AskOf
<1>11. R!Wants(t, r.tid)
  <2>1. /\ AskOf(t).op = "send" /\ AskOf(r.tid).op = "recv"
        /\ AskOf(t).peer = ProcOf[r.tid]
    BY <1>1, <1>5, <1>6, <1>7, <1>8
  <2> QED
    BY <1>5, <1>6, <2>1, Zenon DEF R!Wants, AskOf
<1>12. R!MeetSpecific(t, r.tid) \/ R!MeetAny(t, r.tid)
  BY <1>2, <1>6, <1>7, <1>10, <1>11
     DEF R!MeetSpecific, R!MeetAny, R!Specific, AskOf
<1> QED
  BY <1>6, <1>12, Zenon DEF R!RNext

\* A recv that finds a send meets its thread.
LEMMA RecvPairStep ==
    ASSUME RInv, NEW t \in Thread, NEW s \in sends, RecvPair(t, s)
    PROVE  R!RNext
<1> USE DEF RInv
<1>1. pc[t] = "resolved" /\ call[t].op = "recv" /\ s.pid = call[t].peer
  BY Zenon DEF RecvPair, SendMatches, First
<1>2. s.dst = ProcOf[t]
  BY Zenon DEF RecvPair, SendMatches, First
<1>3. (sends \cup recvs)' = (sends \cup recvs) \ {s}
  BY EntriesDiffer, Zenon DEF RecvPair, Inv
<1>4. call'[t].op = "recv" /\ call'[t].msg = s.msg
  BY <1>1, Zenon DEF RecvPair, Inv, TypeOK, Call
<1>5. /\ s.tid # t
      /\ \A u \in Thread \ {t, s.tid} : Same(u)
      /\ PhaseOf(t)' = "answered" /\ AnswerOf(t)' = s.msg
      /\ PhaseOf(s.tid)' = "answered" /\ AnswerOf(s.tid)' = "Ack"
  <2>1. UNCHANGED <<schedVars, live>>
    BY Zenon DEF RecvPair
  <2>2. \A u \in Thread \ {t} : call'[u] = call[u]
    BY Zenon DEF RecvPair, Inv, TypeOK
  <2>3. /\ todo' = Set(todo, t, {[tid |-> s.tid, res |-> "Ack"]})
        /\ pc' = Set(pc, t, "waking")
    BY Zenon DEF RecvPair
  <2>4. /\ s.tid # t
        /\ \A u \in Thread \ {t, s.tid} : Same(u)
        /\ PhaseOf(t)' = "answered"
        /\ AnswerOf(t)' = (IF call'[t].op = "send" THEN "Ack"
                                                   ELSE call'[t].msg)
        /\ PhaseOf(s.tid)' = "answered" /\ AnswerOf(s.tid)' = "Ack"
    <3> HIDE DEF Set, RInv
    <3>1. s \in sends \cup recvs /\ Inv /\ Quiet /\ Present
      BY Zenon DEF RInv
    <3>2. Paired(t, s, "Ack")
      BY <1>1, <1>3, <2>1, <2>2, <2>3, Zenon DEF Paired
    <3> QED
      BY <3>1, <3>2, PairViews, Zenon
  <2> QED
    BY <1>4, <2>4, Zenon
<1>6. PhaseOf(t) = "asking" /\ AskOf(t) = call[t] /\ AnswerOf(t) = Nil
  BY <1>1, ResolvedAsks, Zenon
<1>7. /\ PhaseOf(s.tid) = "asking" /\ AskOf(s.tid) = call[s.tid]
      /\ AnswerOf(s.tid) = Nil /\ s.tid \in Thread
  BY QueuedAsks, EntryWaits, Zenon
<1>8. call[s.tid] = [op |-> "send", peer |-> s.dst, msg |-> s.msg]
  BY Zenon DEF AskedOK
<1>9. s.pid = ProcOf[s.tid]
  BY Zenon DEF Inv, EntryOK
<1>10. AskOf(t)' = NoCall /\ AskOf(s.tid)' = NoCall
  BY <1>5, Zenon DEF AskOf
<1>11. AskOf(s.tid).msg = s.msg
  BY <1>7, <1>8
<1>12. R!Meet(s.tid, t)
  BY <1>5, <1>6, <1>7, <1>10, <1>11, Zenon DEF R!Meet, R!NoAsk, NoCall, Same, AskOf
<1>13. R!Wants(s.tid, t)
  BY <1>1, <1>2, <1>6, <1>7, <1>8 DEF R!Wants, AskOf
<1>14. R!MeetSpecific(s.tid, t)
  BY <1>1, <1>6, <1>9, <1>12, <1>13, Zenon DEF R!MeetSpecific, R!Specific, AskOf
<1> QED
  BY <1>7, <1>14, Zenon DEF R!RNext

\* Registering keeps the thread asking: its entry says what it asked for.
LEMMA RegisterStep ==
    ASSUME RInv, NEW t \in Thread, SendRegister(t) \/ RecvRegister(t)
    PROVE  \A u \in Thread : Same(u)
<1> USE DEF RInv, schedVars
<1>1. pc[t] = "resolved" /\ pc'[t] \in {"registered", "parking"}
  BY Zenon DEF SendRegister, RecvRegister, Inv, TypeOK
<1>2. state[t] # "Exited" /\ ~Waiting(t)
  BY <1>1, Zenon DEF Inv, PcState, Waiting
<1>3. UNCHANGED <<state, ipc_wake, saved, call, todo, live>>
  BY Zenon DEF SendRegister, RecvRegister
<1>4. PICK e : e.tid = t /\ (sends \cup recvs)' = (sends \cup recvs) \cup {e}
  <2>1. CASE SendRegister(t)
    <3> DEFINE e == [tid |-> t, pid |-> ProcOf[t], dst |-> call[t].peer,
                     msg |-> call[t].msg]
    <3>1. e.tid = t /\ sends' = sends \cup {e} /\ recvs' = recvs
      BY <2>1, Zenon DEF SendRegister
    <3> HIDE DEF e
    <3> QED
      BY <3>1, Zenon
  <2>2. CASE RecvRegister(t)
    <3> DEFINE e == [tid |-> t, pid |-> ProcOf[t], src |-> call[t].peer]
    <3>1. e.tid = t /\ recvs' = recvs \cup {e} /\ sends' = sends
      BY <2>2, Zenon DEF RecvRegister
    <3> HIDE DEF e
    <3> QED
      BY <3>1, Zenon
  <2> QED
    BY <2>1, <2>2, Zenon
<1>5. ASSUME NEW u \in Thread \ {t} PROVE Same(u)
  <2>1. Pending(u)' = Pending(u)
    BY <1>4, Zenon DEF Pending
  <2>2. OwedTo(u)' = OwedTo(u)
    BY <1>3, Zenon DEF OwedTo
  <2>3. pc'[u] = pc[u]
    BY Zenon DEF SendRegister, RecvRegister, Inv, TypeOK
  <2> QED
    BY <1>3, <2>1, <2>2, <2>3, SameView, Zenon DEF Same
<1>6. Same(t)
  <2>1. PhaseOf(t) = "asking" /\ AskOf(t) = call[t] /\ AnswerOf(t) = Nil
    BY <1>1, ResolvedAsks, Zenon
  <2>2. e \in Pending(t)'
    BY <1>4, Zenon DEF Pending
  <2>3. PhaseOf(t)' = "asking"
    BY <1>1, <1>2, <1>3, <2>2, Zenon DEF PhaseOf
  <2> QED
    BY <1>3, <2>1, <2>3, Zenon DEF Same, AskOf, AnswerOf
<1> QED
  BY <1>5, <1>6, Zenon

\* Delivering a wake-up moves two answers: the partner's to its saved frame
\* or to ipc_wake, and the thread's own to its trap frame.
LEMMA WakeStep ==
    ASSUME RInv, NEW t \in Thread, NEW w \in todo[t], WakePartner(t, w)
    PROVE  \A u \in Thread : Same(u)
<1> USE DEF RInv, ipcVars
<1>1. /\ w.tid \in Thread /\ Waiting(w.tid) /\ state[w.tid] # "Exited"
      /\ Pending(w.tid) = {} /\ Owers(w.tid) = {t} /\ ipc_wake[w.tid] = Nil
  BY OwedWaits, Zenon
<1>2. pc[t] = "waking" /\ ~Waiting(t) /\ state[t] \notin {"Exited", "Ready"}
  BY Zenon DEF WakePartner, Waiting, Inv, PcState
<1>3. Pending(t) = {} /\ Owers(t) = {} /\ ipc_wake[t] = Nil
  BY <1>2, NotWaiting, Zenon
<1>4. w.tid # t
  BY <1>1, <1>2, Zenon
<1>5. UNCHANGED <<sends, recvs>>
  BY Zenon DEF WakePartner
<1>6. todo'[t] = {} /\ \A k \in Thread \ {t} : todo'[k] = todo[k]
  <2>1. todo[t] = {w}
    BY <1>2, Zenon DEF Inv, TodoOK
  <2> QED
    BY <2>1, Zenon DEF WakePartner, Inv, TypeOK
<1>7. /\ pc'[t] = "returning"
      /\ \A u \in Thread \ {t} : /\ pc'[u] = pc[u] /\ call'[u] = call[u]
                                 /\ live'[u] = live[u]
  BY Zenon DEF WakePartner, Return, Inv, TypeOK
<1>8. \A u \in Thread \ {w.tid} : /\ state'[u] = state[u] /\ saved'[u] = saved[u]
                                  /\ ipc_wake'[u] = ipc_wake[u]
  BY <1>1, Zenon DEF WakePartner, IpcWakeWith, Inv, TypeOK
<1>9. w.res # Nil
  BY Records, IpcConstants, Zenon DEF Inv, TypeOK, Result, Errno
<1>10. \A u \in Thread : Pending(u)' = Pending(u)
  BY <1>5, Zenon DEF Pending
<1>11. \A u \in Thread \ {w.tid} : OwedTo(u)' = OwedTo(u)
  <2>1. todo[t] = {w}
    BY <1>2, Zenon DEF Inv, TodoOK
  <2> QED
    BY <1>6, <2>1 DEF OwedTo
<1>12. Owers(w.tid)' = {}
  BY <1>1, <1>6 DEF Owers
<1>13. ASSUME NEW u \in Thread \ {t, w.tid} PROVE Same(u)
  BY <1>7, <1>8, <1>10, <1>11, SameView, Zenon DEF Same
<1>14. Same(t)
  <2>1. PhaseOf(t) = "answered" /\ PhaseOf(t)' = "answered"
    BY <1>2, <1>3, <1>4, <1>7, <1>8, <1>10, Zenon DEF PhaseOf
  <2>2. live'[t].res = IF call[t].op = "send" THEN "Ack" ELSE call[t].msg
    BY Zenon DEF WakePartner, Return, Inv, TypeOK
  <2>3. AnswerOf(t) = IF call[t].op = "send" THEN "Ack" ELSE call[t].msg
    BY <1>2, <2>1, Zenon DEF AnswerOf
  <2>4. Owers(t)' = {} /\ ipc_wake'[t] = Nil /\ state'[t] # "Ready"
    BY <1>2, <1>3, <1>4, <1>6, <1>8 DEF Owers
  <2>5. AnswerOf(t)' = live'[t].res
    BY <1>7, <2>1, <2>4, Zenon DEF AnswerOf
  <2> QED
    BY <2>1, <2>2, <2>3, <2>5, Zenon DEF Same, AskOf
<1>15. Same(w.tid)
  <2>1. pc[w.tid] \in {"registered", "parking", "blocked"}
    BY <1>1, Zenon DEF Waiting, Inv, PcState
  <2>2. state'[w.tid] # "Exited"
    BY <1>1, Zenon DEF WakePartner, IpcWakeWith, Inv, TypeOK
  <2>3. PhaseOf(w.tid) = "answered" /\ PhaseOf(w.tid)' = "answered"
    BY <1>1, <1>4, <1>7, <1>10, <2>1, <2>2, Zenon DEF PhaseOf
  <2>4. AnswerOf(w.tid) = w.res
    <3>1. w \in OwedTo(w.tid)
      BY Zenon DEF OwedTo
    <3>2. OwedTo(w.tid) = {w}
      BY <1>1, <3>1, OneOwed, Zenon
    <3>3. OwedWake(w.tid) = w
      BY <3>2, OnlyChoice, Zenon DEF OwedTo, OwedWake
    <3> QED
      BY <1>1, <2>1, <2>3, <3>3, Zenon DEF AnswerOf
  <2>5. pc'[w.tid] # "waking"
    BY <1>1, <1>4, <1>7, <2>1, Zenon
  <2>6. CASE state[w.tid] = "Blocked"
    <3>1. /\ state'[w.tid] = "Ready" /\ ipc_wake'[w.tid] = Nil
          /\ saved'[w.tid].res = w.res
      BY <1>1, <2>6 DEF WakePartner, IpcWakeWith, Inv, TypeOK
    <3>2. AnswerOf(w.tid)' = w.res
      BY <1>12, <2>3, <2>5, <3>1, Zenon DEF AnswerOf
    <3> QED
      BY <2>3, <2>4, <3>2, Zenon DEF Same, AskOf
  <2>7. CASE state[w.tid] # "Blocked"
    <3>1. ipc_wake'[w.tid] = w.res
      BY <1>1, <2>7, Zenon DEF WakePartner, IpcWakeWith, Inv, TypeOK
    <3>2. AnswerOf(w.tid)' = w.res
      BY <1>9, <1>12, <2>3, <2>5, <3>1, Zenon DEF AnswerOf
    <3> QED
      BY <2>3, <2>4, <3>2, Zenon DEF Same, AskOf
  <2> QED
    BY <2>6, <2>7, Zenon
<1> QED
  BY <1>13, <1>14, <1>15, Zenon

\* Parking, blocking and being dispatched move an answer, or none.
LEMMA SchedStep ==
    ASSUME RInv, NEW t \in Thread,
           DonateOnBlock(t) \/ ConsumeWake(t) \/ Block(t) \/ Dispatch(t)
    PROVE  \A u \in Thread : Same(u)
<1> USE DEF RInv, ipcVars
<1>1. UNCHANGED <<sends, recvs, todo>>
  BY Zenon DEF DonateOnBlock, ConsumeWake, Block, Dispatch
<1>2. ASSUME NEW u \in Thread \ {t} PROVE Same(u)
  <2>1. /\ state'[u] = state[u] /\ pc'[u] = pc[u] /\ call'[u] = call[u]
        /\ ipc_wake'[u] = ipc_wake[u] /\ saved'[u] = saved[u]
        /\ live'[u] = live[u]
    BY DEF DonateOnBlock, ConsumeWake, Block, Dispatch, Return, Inv, TypeOK
  <2> QED
    BY <1>1, <2>1, SameLocal, Zenon
<1> SUFFICES Same(t)
  BY <1>2, Zenon
<1>3. Pending(t)' = Pending(t) /\ OwedTo(t)' = OwedTo(t) /\ Owers(t)' = Owers(t)
  BY <1>1, Zenon DEF Pending, OwedTo, Owers
<1>4. OwedWake(t)' = OwedWake(t)
  BY <1>1, Zenon DEF OwedWake
<1>5. CASE DonateOnBlock(t)
  <2>1. pc[t] = "registered" /\ pc'[t] = "parking" /\ state[t] # "Ready"
    BY <1>5, Zenon DEF DonateOnBlock, Inv, TypeOK, PcState
  <2>2. UNCHANGED <<state, call, ipc_wake, saved, live>>
    BY <1>5, Zenon DEF DonateOnBlock
  <2>3. PhaseOf(t)' = PhaseOf(t)
    BY <1>3, <2>1, <2>2, Zenon DEF PhaseOf
  <2> QED
    BY <1>3, <1>4, <2>1, <2>2, <2>3, Zenon DEF Same, AskOf, AnswerOf
<1>6. CASE ConsumeWake(t)
  <2>1. /\ pc[t] = "parking" /\ pc'[t] = "returning" /\ ipc_wake[t] # Nil
        /\ live'[t].res = ipc_wake[t] /\ ipc_wake'[t] = Nil
        /\ state'[t] = "Running" /\ state[t] # "Exited"
    BY <1>6, Zenon DEF ConsumeWake, Return, Inv, TypeOK, PcState
  <2>2. Pending(t) = {} /\ Owers(t) = {}
    BY <2>1, EveryAnswer, Zenon DEF AnswerInOnePlace
  <2>3. PhaseOf(t) = "answered" /\ PhaseOf(t)' = "answered"
    BY <1>3, <2>1, <2>2, Zenon DEF PhaseOf
  <2> QED
    BY <1>3, <2>1, <2>2, <2>3, Zenon DEF Same, AskOf, AnswerOf
<1>7. CASE Block(t)
  <2>1. /\ pc[t] = "parking" /\ pc'[t] = "blocked" /\ ipc_wake[t] = Nil
        /\ state'[t] = "Blocked" /\ state[t] # "Exited"
    BY <1>7, Zenon DEF Block, Inv, TypeOK, PcState
  <2>2. UNCHANGED <<call, ipc_wake>>
    BY <1>7, Zenon DEF Block
  <2>3. Pending(t) # {} \/ Owers(t) # {}
    BY <2>1, EveryAnswer, Zenon DEF AnswerInOnePlace, Waiting, IsOne
  <2>4. PhaseOf(t)' = PhaseOf(t)
    BY <1>3, <2>1, <2>2, Zenon DEF PhaseOf
  <2>5. PhaseOf(t) = "answered" => Owers(t) # {}
    BY <2>1, <2>3, Zenon DEF PhaseOf
  <2> QED
    BY <1>3, <1>4, <2>1, <2>2, <2>4, <2>5, Zenon DEF Same, AskOf, AnswerOf
<1>8. CASE Dispatch(t)
  <2>1. /\ pc[t] = "blocked" /\ pc'[t] = "returning" /\ state[t] = "Ready"
        /\ state'[t] = "Running" /\ live'[t] = saved[t] /\ ~Waiting(t)
    BY <1>8, Zenon DEF Dispatch, Inv, TypeOK, PcState, Waiting
  <2>2. Pending(t) = {} /\ Owers(t) = {} /\ ipc_wake[t] = Nil
    BY <2>1, NotWaiting, Zenon
  <2>3. ipc_wake'[t] = Nil
    BY <1>8, <2>2, Zenon DEF Dispatch
  <2>4. PhaseOf(t) = "answered" /\ PhaseOf(t)' = "answered"
    BY <1>3, <2>1, <2>2, Zenon DEF PhaseOf
  <2> QED
    BY <1>3, <2>1, <2>2, <2>3, <2>4, Zenon DEF Same, AskOf, AnswerOf
<1> QED
  BY <1>5, <1>6, <1>7, <1>8, Zenon

\* The return to user mode ends the call with its answer.
LEMMA SretStep ==
    ASSUME RInv, NEW t \in Thread, Sret(t)
    PROVE  R!RNext
<1> USE DEF RInv, ipcVars, schedVars
<1>1. pc[t] = "returning" /\ pc'[t] = "user" /\ ~Waiting(t)
  BY Zenon DEF Sret, Inv, TypeOK, PcState, Waiting
<1>2. state[t] # "Exited" /\ state[t] # "Ready"
  BY <1>1, Zenon DEF Inv, PcState
<1>3. Pending(t) = {} /\ Owers(t) = {} /\ ipc_wake[t] = Nil
  BY <1>1, <1>2, NotWaiting, Zenon
<1>4. UNCHANGED <<sends, recvs, todo, state, call, ipc_wake, saved>>
  BY Zenon DEF Sret
<1>5. \A u \in Thread \ {t} : Same(u)
  <2> SUFFICES ASSUME NEW u \in Thread \ {t} PROVE Same(u)
    BY Zenon
  <2>1. pc'[u] = pc[u] /\ live'[u] = live[u]
    BY Zenon DEF Sret, Inv, TypeOK
  <2> QED
    BY <1>4, <2>1, SameLocal, Zenon
<1>6. PhaseOf(t) = "answered" /\ AskOf(t) = NoCall
  BY <1>1, <1>2, <1>3, Zenon DEF PhaseOf, AskOf
<1>7. PhaseOf(t)' = "idle" /\ AskOf(t)' = NoCall /\ AnswerOf(t)' = Nil
  BY <1>1, <1>2, <1>4, Zenon DEF PhaseOf, AskOf, AnswerOf
<1>8. R!Return(t)
  BY <1>5, <1>6, <1>7, Zenon DEF R!Return, R!Upd, Same, AskOf
<1> QED
  BY <1>8, Zenon DEF R!RNext

\* An exit leaves.
LEMMA ExitStep ==
    ASSUME RInv, NEW t \in Thread, Exit(t)
    PROVE  R!RNext
<1> USE DEF RInv, ipcVars, schedVars
<1>1. pc[t] = "user" /\ state'[t] = "Exited"
  BY Zenon DEF Exit, Exited, InUser, Inv, TypeOK
<1>2. PhaseOf(t) = "idle" /\ AskOf(t) = NoCall /\ AnswerOf(t) = Nil
  BY <1>1, UserIdle, Zenon
<1>3. UNCHANGED <<sends, recvs, todo, ipc_wake, saved, live>>
  BY Zenon DEF Exit
<1>4. \A u \in Thread \ {t} : Same(u)
  <2> SUFFICES ASSUME NEW u \in Thread \ {t} PROVE Same(u)
    BY Zenon
  <2>1. pc'[u] = pc[u] /\ state'[u] = state[u] /\ call'[u] = call[u]
    BY Zenon DEF Exit, Exited, Inv, TypeOK
  <2> QED
    BY <1>3, <2>1, SameLocal, Zenon
<1>5. PhaseOf(t)' = "gone" /\ AskOf(t)' = NoCall /\ AnswerOf(t)' = Nil
  BY <1>1, Zenon DEF PhaseOf, AskOf, AnswerOf
<1>6. R!Leave(t)
  BY <1>2, <1>4, <1>5, Zenon DEF R!Leave, R!Upd, Same, AskOf
<1> QED
  BY <1>6, Zenon DEF R!RNext

\* Every step of a system without kills is a step of Rendezvous or none.
LEMMA RefinesStep ==
    ASSUME Mortal = {}
    PROVE  RInv /\ [Next]_vars => [R!RNext]_(R!rvars)
<1> SUFFICES ASSUME RInv, [Next]_vars PROVE R!RNext \/ UNCHANGED R!rvars
  BY Zenon
<1>1. ASSUME NEW t \in Thread, QuietStep(t)
      PROVE  R!RNext \/ UNCHANGED R!rvars
  BY <1>1, NoStep, SyscallStep, SendPairStep, RecvPairStep, RegisterStep,
     WakeStep, SchedStep, SretStep, ExitStep, Zenon DEF QuietStep
<1>2. CASE UNCHANGED <<alive, ipcVars, schedVars, killVars, localVars>>
  <2>1. \A u \in Thread : Same(u)
    BY <1>2, SameLocal, Zenon DEF RInv, ipcVars, schedVars, localVars
  <2> QED
    BY <2>1, NoStep, Zenon
<1> QED
  BY <1>1, <1>2, QuietSteps, Zenon DEF RInv

\* The initial state of Ipc stands for the initial state of Rendezvous.
LEMMA RefinesInit == Init => R!RInit
<1> SUFFICES ASSUME Init PROVE R!RInit
  BY Zenon
<1>1. \A t \in Thread : /\ PhaseOf(t) = "idle" /\ AskOf(t) = NoCall
                        /\ AnswerOf(t) = Nil
  BY InitInv, UserIdle, Zenon DEF Init
<1> QED
  BY <1>1, Zenon DEF R!RInit, R!NoAsk, NoCall, AskOf

\* While no process is killed, the queues, the two-stage wake-up and the
\* scheduler implement Rendezvous: every message that is sent is received
\* once, by a thread that asked for it, in the same step in which its sender
\* is acknowledged; nobody returns without the answer of its own call.
THEOREM IpcImplementsRendezvous ==
    ASSUME Mortal = {} PROVE Spec => R!RSafety
BY RefinesInit, RefinesStep, InitRInv, NextRInv, PTL DEF Spec, R!RSafety
=============================================================================
