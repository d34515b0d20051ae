----------------------------- MODULE IpcStages -----------------------------
(***************************************************************************)
(* Proofs about Ipc, for every set of processes, threads, capability slots *)
(* and messages and every choice of mortal processes.                      *)
(***************************************************************************)
EXTENDS Ipc, TLAPS

\* What the local variables of a call hold at each of its stages.
CallOK ==
    \A t \in Thread :
        /\ pc[t] = "resolved" =>
             /\ ProcOf[t] \in Proc
             /\ \/ call[t].op = "send" /\ call[t].peer \in Proc
                                       /\ call[t].msg \in Msg
                \/ call[t].op = "recv" /\ call[t].peer \in Proc \cup {AcceptAny}
        /\ pc[t] = "registered" => call[t].peer \in Proc
        /\ pc[t] = "waking" /\ call[t].op # "send" => call[t].msg \in Msg
        /\ pc[t] \in InKill <=> call[t].op = "kill"
        /\ pc[t] \in InKill => call[t].peer \in Proc
        /\ pc[t] = "exiting" => call[t].peer \notin alive

\* How the position of a thread and its scheduler state go together.
PcState ==
    \A t \in Thread :
        /\ pc[t] = "dead" <=> state[t] = "Exited"
        /\ pc[t] = "blocked" <=> state[t] \in {"Blocked", "Ready"}

\* The wake-ups a thread has still to perform.
TodoOK ==
    \A k \in Thread :
        /\ todo[k] # {} => pc[k] \in {"waking", "purging"}
        /\ pc[k] = "waking" => \E w \in todo[k] : todo[k] = {w}
        /\ \A v, w \in todo[k] : v.tid = w.tid => v = w

\* A queue entry names the process of its thread.
EntryOK == \A e \in sends \cup recvs : e.pid = ProcOf[e.tid]

\* Only a call that is returning has moved its sepc.
FramesOK ==
    ReturnsOnce /\ \A t \in Thread : pc[t] # "returning" => live[t].adv = 0

\* The inductive invariant.
Inv ==
    /\ TypeOK /\ CallOK /\ PcState /\ TodoOK /\ EntryOK /\ FramesOK
    /\ OneAnswerOwed /\ NoMatchLeftQueued /\ DonationOnlyWhileWaiting

-----------------------------------------------------------------------------
(* Types *)

USE DEF Set

\* The records the steps build, and the fields they read.
LEMMA Records ==
    /\ NoCall \in Call /\ Fresh \in Frame
    /\ \A f \in Frame : f.adv \in Nat
    /\ \A r \in Result \cup {Nil}, n \in Nat : [res |-> r, adv |-> n] \in Frame
    /\ \A w \in Wake : w.tid \in Thread /\ w.res \in Result
    /\ \A t \in Thread, r \in Result : [tid |-> t, res |-> r] \in Wake
    /\ \A o \in {"send", "recv", "kill"}, q \in Proc \cup {AcceptAny},
          m \in Msg \cup {Nil} : [op |-> o, peer |-> q, msg |-> m] \in Call
    /\ \A c \in Call, m \in Msg : [c EXCEPT !.msg = m] \in Call
    /\ \A e \in SendEntry : e.tid \in Thread /\ e.msg \in Msg
    /\ \A e \in RecvEntry : e.tid \in Thread
    /\ Msg \subseteq Result /\ Errno \subseteq Result /\ "Ack" \in Result
BY Zenon DEF NoCall, Call, Fresh, Frame, Wake, Result, Errno, SendEntry, RecvEntry

\* The part of TypeOK that a wake-up touches.
WakeTypes ==
    /\ state \in [Thread -> {"Ready", "Running", "Blocked", "Exited"}]
    /\ ipc_wake \in [Thread -> Result \cup {Nil}]
    /\ saved \in [Thread -> Frame]
    /\ donation \in [Thread -> Proc \cup {Nil}]

\* A wake-up keeps the types of what it writes.
LEMMA WakeType ==
    ASSUME TypeOK, NEW w \in Wake, IpcWakeWith(w)
    PROVE  WakeTypes'
<1>1. CASE state[w.tid] # "Blocked"
  BY <1>1, Records, Zenon DEF IpcWakeWith, TypeOK, WakeTypes
<1>2. CASE state[w.tid] = "Blocked"
  <2>1. w.tid \in Thread /\ w.res \in Result
    BY Records, Zenon
  <2>2. [res |-> w.res, adv |-> saved[w.tid].adv + 1] \in Frame
    BY <2>1 DEF TypeOK, Frame
  <2>3. /\ saved' = [saved EXCEPT ![w.tid] = [res |-> w.res,
                                               adv |-> saved[w.tid].adv + 1]]
        /\ ipc_wake' = [ipc_wake EXCEPT ![w.tid] = Nil]
        /\ state' = [state EXCEPT ![w.tid] = "Ready"]
        /\ donation' = [donation EXCEPT ![w.tid] = Nil]
    BY <1>2, Zenon DEF IpcWakeWith
  <2>4. saved' \in [Thread -> Frame]
    BY <2>2, <2>3, Zenon DEF TypeOK
  <2> QED
    BY <2>3, <2>4, Zenon DEF TypeOK, WakeTypes
<1> QED
  BY <1>1, <1>2, Zenon

\* The initial state has its types.
LEMMA InitType == Init => TypeOK /\ CallOK /\ PcState
<1> SUFFICES ASSUME Init PROVE TypeOK /\ CallOK /\ PcState
  BY Zenon
<1> USE IpcConstants DEF Init
<1>1. TypeOK
  BY Zenon DEF TypeOK, Frame, Fresh, Call, NoCall, PC, Result
<1>2. CallOK
  BY Zenon DEF CallOK, NoCall, InKill
<1>3. PcState
  BY Zenon DEF PcState
<1> QED
  BY <1>1, <1>2, <1>3, Zenon
\* Every step keeps the types.
LEMMA NextTypeOK ==
    ASSUME TypeOK, CallOK, [Next]_vars
    PROVE  TypeOK'
<1> USE IpcConstants, Records DEF vars, ipcVars, schedVars, killVars, localVars,
            TypeOK, PC, InSyscall, InKill
<1>1. ASSUME NEW t \in Thread, NEW slot \in Slot, NEW m \in Msg, SendCall(t, slot, m)
       PROVE  TypeOK'
  <2>1. ASSUME CapTarget(t, slot) \in Proc,
               Resolve(t, "send", CapTarget(t, slot), m)
        PROVE  TypeOK'
    BY <1>1, <2>1, Zenon DEF SendCall, Resolve
  <2>2. ASSUME NEW e \in Errno, Refuse(t, e)
        PROVE  TypeOK'
    BY <1>1, <2>2, Zenon DEF SendCall, Refuse
  <2> QED
    BY <1>1, <2>1, <2>2, Zenon DEF SendCall, Errno
<1>2. ASSUME NEW t \in Thread, NEW slot \in Slot, RecvCall(t, slot)
       PROVE  TypeOK'
  <2>1. ASSUME NEW q \in Proc \cup {AcceptAny}, Resolve(t, "recv", q, Nil)
        PROVE  TypeOK'
    BY <1>2, <2>1, Zenon DEF RecvCall, Resolve
  <2>2. ASSUME NEW e \in Errno, Refuse(t, e)
        PROVE  TypeOK'
    BY <1>2, <2>2, Zenon DEF RecvCall, Refuse
  <2> QED
    BY <1>2, <2>1, <2>2, Zenon DEF RecvCall, Errno
<1>3. ASSUME NEW t \in Thread, NEW r \in recvs, SendPair(t, r)
       PROVE  TypeOK'
  BY <1>3 DEF SendPair, RecvMatches, First, Dequeue, CallOK
<1>4. ASSUME NEW t \in Thread, SendRegister(t)
       PROVE  TypeOK'
  BY <1>4 DEF SendRegister, PushBack, CallOK, SendEntry, RecvEntry
<1>5. ASSUME NEW t \in Thread, NEW s \in sends, RecvPair(t, s)
       PROVE  TypeOK'
  BY <1>5 DEF RecvPair, SendMatches, First, Dequeue, CallOK
<1>6. ASSUME NEW t \in Thread, RecvRegister(t)
       PROVE  TypeOK'
  BY <1>6 DEF RecvRegister, PushBack, CallOK, SendEntry, RecvEntry
<1>7. ASSUME NEW t \in Thread, NEW w \in todo[t], WakePartner(t, w)
       PROVE  TypeOK'
  <2>1. WakeTypes'
    BY <1>7, WakeType, Zenon DEF WakePartner
  <2>2. /\ pc' \in [Thread -> PC] /\ call' \in [Thread -> Call]
        /\ todo' \in [Thread -> SUBSET Wake] /\ live' \in [Thread -> Frame]
    BY <1>7 DEF WakePartner, Return, CallOK
  <2> QED
    BY <1>7, <2>1, <2>2, Zenon DEF WakePartner, WakeTypes
<1>8. ASSUME NEW t \in Thread, NEW w \in todo[t], PurgeWake(t, w)
       PROVE  TypeOK'
  <2>1. WakeTypes'
    BY <1>8, WakeType, Zenon DEF PurgeWake
  <2> QED
    BY <1>8, <2>1, Zenon DEF PurgeWake, WakeTypes
<1>9. ASSUME NEW t \in Thread, DonateOnBlock(t)
       PROVE  TypeOK'
  BY <1>9, Zenon DEF DonateOnBlock, CallOK
<1>10. ASSUME NEW t \in Thread, ConsumeWake(t)
       PROVE  TypeOK'
  BY <1>10 DEF ConsumeWake, Return
<1>11. ASSUME NEW t \in Thread, Block(t)
       PROVE  TypeOK'
  BY <1>11, Zenon DEF Block
<1>12. ASSUME NEW t \in Thread, Sret(t)
       PROVE  TypeOK'
  BY <1>12, Zenon DEF Sret
<1>13. ASSUME NEW t \in Thread, MarkVictims(t)
       PROVE  TypeOK'
  BY <1>13 DEF MarkVictims, Victims, CallOK
<1>14. ASSUME NEW t \in Thread, KillWaitEnd(t)
       PROVE  TypeOK'
  BY <1>14, Zenon DEF KillWaitEnd
<1>15. ASSUME NEW t \in Thread, Destroy(t)
       PROVE  TypeOK'
  <2>1. caps' \in [Proc -> [Slot -> Proc \cup {Empty, Other}]]
    BY <1>15, Zenon DEF Destroy
  <2>2. CASE ProcOf[t] = call[t].peer
    BY <1>15, <2>1, <2>2, Zenon DEF Destroy
  <2>3. CASE ProcOf[t] # call[t].peer
    <3>1. pc' = Set(pc, t, "user") /\ call' = Set(call, t, NoCall)
      BY <1>15, <2>3, Zenon DEF Destroy
    <3> QED
      BY <1>15, <2>1, <3>1, Zenon DEF Destroy
  <2> QED
    BY <2>2, <2>3, Zenon
<1>16. ASSUME NEW t \in Thread, ExitFromTrap(t)
       PROVE  TypeOK'
  BY <1>16, Zenon DEF ExitFromTrap, Exited
<1>17. ASSUME NEW t \in Thread, Dispatch(t)
       PROVE  TypeOK'
  BY <1>17, Zenon DEF Dispatch
<1>18. ASSUME NEW t \in Thread, Exit(t)
       PROVE  TypeOK'
  BY <1>18, Zenon DEF Exit, Exited, InUser
<1>19. ASSUME NEW t \in Thread, ForceKill(t)
       PROVE  TypeOK'
  <2>1. CASE killReq[t]
    <3>1. Exited(t) /\ killReq' = Set(killReq, t, FALSE)
      BY <1>19, <2>1, Zenon DEF ForceKill
    <3> QED
      BY <1>19, <3>1, Zenon DEF ForceKill, Exited
  <2>2. CASE ~killReq[t]
    BY <1>19, <2>2, Zenon DEF ForceKill
  <2> QED
    BY <2>1, <2>2, Zenon
<1>20. ASSUME NEW t \in Thread, IpiTakenByNext(t)
       PROVE  TypeOK'
  BY <1>20, Zenon DEF IpiTakenByNext
<1>21. ASSUME NEW t \in Thread, NEW p \in Mortal, Purge(t, p)
       PROVE  TypeOK'
  <2>1. todo' \in [Thread -> SUBSET Wake]
    <3>1. \A e \in sends \cup recvs : [tid |-> e.tid, res |-> "ENOENT"] \in Wake
      BY Zenon DEF Wake, Result, Errno, SendEntry, RecvEntry
    <3> QED
      BY <1>21, <3>1 DEF Purge
  <2>2. older' \in [Thread -> SUBSET Thread]
    BY <1>21, Zenon DEF Purge, Dequeue
  <2>3. call' \in [Thread -> Call]
    BY <1>21, Zenon DEF Purge
  <2> QED
    BY <1>21, <2>1, <2>2, <2>3, Zenon DEF Purge
<1>22. ASSUME NEW p \in Proc, NEW slot \in Slot, NEW c \in (Proc \ {p}) \cup {Other}, GrantCap(p, slot, c)
       PROVE  TypeOK'
  BY <1>22, Zenon DEF GrantCap
<1>23. ASSUME NEW p \in Proc, NEW slot \in Slot, ClearCap(p, slot)
       PROVE  TypeOK'
  BY <1>23, Zenon DEF ClearCap
<1>24. CASE UNCHANGED vars
  BY <1>24, Zenon
<1> QED
  BY <1>1, <1>2, <1>3, <1>4, <1>5, <1>6, <1>7, <1>8, <1>9, <1>10, <1>11,
     <1>12, <1>13, <1>14, <1>15, <1>16, <1>17, <1>18, <1>19, <1>20, <1>21,
     <1>22, <1>23, <1>24, Zenon
     DEF Next, Syscall, KernelStep

\* Every step leaves the arguments of each call as its stage needs them.
LEMMA NextCallOK ==
    ASSUME TypeOK, CallOK, PcState, [Next]_vars
    PROVE  CallOK'
<1> USE IpcConstants, Records DEF vars, ipcVars, schedVars, killVars, localVars,
            TypeOK, CallOK, PcState, InKill, NoCall
<1>1. ASSUME NEW t \in Thread, Syscall(t)
      PROVE  CallOK'
  BY <1>1 DEF Syscall, SendCall, RecvCall, Resolve, Refuse, InUser
<1>2. ASSUME NEW t \in Thread, NEW r \in recvs, SendPair(t, r)
      PROVE  CallOK'
  BY <1>2, Zenon DEF SendPair
<1>3. ASSUME NEW t \in Thread, NEW s \in sends, RecvPair(t, s)
      PROVE  CallOK'
  BY <1>3 DEF RecvPair
<1>4. ASSUME NEW t \in Thread, SendRegister(t) \/ RecvRegister(t)
      PROVE  CallOK'
  BY <1>4 DEF SendRegister, RecvRegister
<1>5. ASSUME NEW t \in Thread, NEW w \in todo[t], WakePartner(t, w)
      PROVE  CallOK'
  BY <1>5 DEF WakePartner, IpcWakeWith, Return
<1>6. ASSUME NEW t \in Thread, NEW w \in todo[t], PurgeWake(t, w)
      PROVE  CallOK'
  BY <1>6, Zenon DEF PurgeWake, IpcWakeWith
<1>7. ASSUME NEW t \in Thread, DonateOnBlock(t) \/ KillWaitEnd(t) \/ Sret(t)
      PROVE  CallOK'
  BY <1>7 DEF DonateOnBlock, KillWaitEnd, Sret
<1>8. ASSUME NEW t \in Thread, ConsumeWake(t) \/ Block(t) \/ Dispatch(t)
      PROVE  CallOK'
  BY <1>8 DEF ConsumeWake, Block, Dispatch, Return
<1>9. ASSUME NEW t \in Thread, NEW p \in Mortal, Purge(t, p)
      PROVE  CallOK'
  BY <1>9 DEF Purge, InUser
<1>10. ASSUME NEW t \in Thread, MarkVictims(t)
      PROVE  CallOK'
  <2>1. UNCHANGED <<call, alive>> /\ pc[t] = "purging" /\ pc'[t] = "waiting"
    BY <1>10, Zenon DEF MarkVictims, Victims
  <2>2. \A u \in Thread \ {t} :
           \/ pc'[u] = pc[u]
           \/ pc'[u] = "dead" /\ pc[u] \in {"dead", "blocked"}
    BY <1>10, Zenon DEF MarkVictims, Victims
  <2> QED
    BY ONLY <2>1, <2>2, CallOK, Zenon DEF CallOK, InKill
<1>11. ASSUME NEW t \in Thread, Destroy(t)
      PROVE  CallOK'
  BY <1>11 DEF Destroy
<1>12. ASSUME NEW t \in Thread, Exit(t) \/ ForceKill(t) \/ ExitFromTrap(t)
      PROVE  CallOK'
  BY <1>12 DEF Exit, ForceKill, ExitFromTrap, Exited, InUser
<1>13. CASE UNCHANGED <<alive, ipcVars, schedVars, localVars>>
  BY <1>13, Zenon
<1> QED
  BY <1>1, <1>2, <1>3, <1>4, <1>5, <1>6, <1>7, <1>8, <1>9, <1>10, <1>11,
     <1>12, <1>13, Zenon
     DEF Next, KernelStep, IpiTakenByNext, GrantCap, ClearCap

\* Every step keeps positions and scheduler states in agreement.
LEMMA NextPcState ==
    ASSUME TypeOK, PcState, [Next]_vars
    PROVE  PcState'
<1> USE Records DEF vars, ipcVars, schedVars, killVars, localVars,
            TypeOK, PcState
<1>1. ASSUME NEW t \in Thread, Syscall(t)
      PROVE  PcState'
  BY <1>1, Zenon DEF Syscall, SendCall, RecvCall, Resolve, Refuse, InUser
<1>2. ASSUME NEW t \in Thread, NEW r \in recvs, SendPair(t, r)
      PROVE  PcState'
  BY <1>2, Zenon DEF SendPair
<1>3. ASSUME NEW t \in Thread, NEW s \in sends, RecvPair(t, s)
      PROVE  PcState'
  BY <1>3, Zenon DEF RecvPair
<1>4. ASSUME NEW t \in Thread, SendRegister(t) \/ RecvRegister(t)
      PROVE  PcState'
  BY <1>4, Zenon DEF SendRegister, RecvRegister
<1>5. ASSUME NEW t \in Thread, NEW w \in todo[t], WakePartner(t, w)
      PROVE  PcState'
  BY <1>5 DEF WakePartner, IpcWakeWith, Return
<1>6. ASSUME NEW t \in Thread, NEW w \in todo[t], PurgeWake(t, w)
      PROVE  PcState'
  BY <1>6 DEF PurgeWake, IpcWakeWith
<1>7. ASSUME NEW t \in Thread, DonateOnBlock(t) \/ KillWaitEnd(t) \/ Sret(t)
      PROVE  PcState'
  BY <1>7, Zenon DEF DonateOnBlock, KillWaitEnd, Sret
<1>8. ASSUME NEW t \in Thread, ConsumeWake(t) \/ Block(t) \/ Dispatch(t)
      PROVE  PcState'
  BY <1>8 DEF ConsumeWake, Block, Dispatch, Return
<1>9. ASSUME NEW t \in Thread, NEW p \in Mortal, Purge(t, p)
      PROVE  PcState'
  BY <1>9, Zenon DEF Purge, InUser
<1>10. ASSUME NEW t \in Thread, MarkVictims(t)
      PROVE  PcState'
  BY <1>10, Zenon DEF MarkVictims, Victims
<1>11. ASSUME NEW t \in Thread, Destroy(t)
      PROVE  PcState'
  BY <1>11, Zenon DEF Destroy
<1>12. ASSUME NEW t \in Thread, Exit(t) \/ ForceKill(t) \/ ExitFromTrap(t)
      PROVE  PcState'
  BY <1>12 DEF Exit, ForceKill, ExitFromTrap, Exited, InUser
<1>13. CASE UNCHANGED <<alive, ipcVars, schedVars, localVars>>
  BY <1>13, Zenon
<1> QED
  BY <1>1, <1>2, <1>3, <1>4, <1>5, <1>6, <1>7, <1>8, <1>9, <1>10, <1>11,
     <1>12, <1>13, Zenon
     DEF Next, KernelStep, IpiTakenByNext, GrantCap, ClearCap

-----------------------------------------------------------------------------
(* What the stages of a call keep up with *)

\* A thread owes wake-ups only while it is waking or purging.
LEMMA NextTodo ==
    ASSUME TypeOK, CallOK, PcState, TodoOK, [Next]_vars
    PROVE  TodoOK'
<1> USE DEF vars, ipcVars, schedVars, killVars, localVars,
            TypeOK, TodoOK, PcState, InKill
<1>1. ASSUME NEW t \in Thread, Syscall(t)
      PROVE  TodoOK'
  BY <1>1 DEF Syscall, SendCall, RecvCall, Resolve, Refuse, InUser
<1>2. ASSUME NEW t \in Thread, NEW r \in recvs, SendPair(t, r)
      PROVE  TodoOK'
  BY <1>2, Zenon DEF SendPair
<1>3. ASSUME NEW t \in Thread, NEW s \in sends, RecvPair(t, s)
      PROVE  TodoOK'
  BY <1>3, Zenon DEF RecvPair
<1>4. ASSUME NEW t \in Thread, SendRegister(t) \/ RecvRegister(t)
      PROVE  TodoOK'
  BY <1>4 DEF SendRegister, RecvRegister
<1>5. ASSUME NEW t \in Thread, NEW w \in todo[t], WakePartner(t, w)
      PROVE  TodoOK'
  BY <1>5 DEF WakePartner, IpcWakeWith, Return
<1>6. ASSUME NEW t \in Thread, NEW w \in todo[t], PurgeWake(t, w)
      PROVE  TodoOK'
  BY <1>6 DEF PurgeWake, IpcWakeWith
<1>7. ASSUME NEW t \in Thread, DonateOnBlock(t) \/ KillWaitEnd(t) \/ Sret(t)
      PROVE  TodoOK'
  BY <1>7 DEF DonateOnBlock, KillWaitEnd, Sret
<1>8. ASSUME NEW t \in Thread, ConsumeWake(t) \/ Block(t) \/ Dispatch(t)
      PROVE  TodoOK'
  <2>1. CASE ConsumeWake(t)
    BY <2>1, Zenon DEF ConsumeWake, Return
  <2>2. CASE Block(t)
    BY <2>2, Zenon DEF Block
  <2>3. CASE Dispatch(t)
    BY <2>3, Zenon DEF Dispatch
  <2> QED
    BY <1>8, <2>1, <2>2, <2>3, Zenon
<1>9. ASSUME NEW t \in Thread, NEW p \in Mortal, Purge(t, p)
      PROVE  TodoOK'
  BY <1>9 DEF Purge, InUser
<1>10. ASSUME NEW t \in Thread, MarkVictims(t)
      PROVE  TodoOK'
  BY <1>10, Zenon DEF MarkVictims, Victims
<1>11. ASSUME NEW t \in Thread, Destroy(t)
      PROVE  TodoOK'
  BY <1>11, Zenon DEF Destroy
<1>12. ASSUME NEW t \in Thread, Exit(t) \/ ForceKill(t) \/ ExitFromTrap(t)
      PROVE  TodoOK'
  <2>1. CASE Exit(t)
    BY <2>1, Zenon DEF Exit, Exited, InUser
  <2>2. CASE ForceKill(t)
    BY <2>2 DEF ForceKill, Exited, InUser
  <2>3. CASE ExitFromTrap(t)
    BY <2>3, Zenon DEF ExitFromTrap, Exited
  <2> QED
    BY <1>12, <2>1, <2>2, <2>3, Zenon
<1>13. CASE UNCHANGED <<alive, ipcVars, schedVars, localVars>>
  BY <1>13, Zenon
<1> QED
  BY <1>1, <1>2, <1>3, <1>4, <1>5, <1>6, <1>7, <1>8, <1>9, <1>10, <1>11,
     <1>12, <1>13, Zenon
     DEF Next, KernelStep, IpiTakenByNext, GrantCap, ClearCap

\* sepc moves once per call: the induction step of ReturnsOnce.
LEMMA NextFrames ==
    ASSUME TypeOK, PcState, FramesOK, [Next]_vars
    PROVE  FramesOK'
<1> USE DEF vars, ipcVars, schedVars, killVars, localVars,
            TypeOK, PcState, FramesOK, ReturnsOnce, Fresh, Wake
<1>1. ASSUME NEW t \in Thread, Syscall(t)
      PROVE  FramesOK'
  <2>1. pc[t] = "user" /\ UNCHANGED <<state, saved>>
    BY <1>1, Zenon DEF Syscall, SendCall, RecvCall, InUser
  <2>2. \A u \in Thread \ {t} : pc'[u] = pc[u] /\ live'[u] = live[u]
    BY <1>1, Zenon DEF Syscall, SendCall, RecvCall, Resolve, Refuse
  <2>3. \/ pc'[t] = "resolved" /\ live'[t] = live[t]
        \/ pc'[t] = "returning" /\ live'[t].adv = 1
    BY <1>1 DEF Syscall, SendCall, RecvCall, Resolve, Refuse
  <2> QED
    BY <2>1, <2>2, <2>3
<1>2. ASSUME NEW t \in Thread, NEW r \in recvs, SendPair(t, r)
      PROVE  FramesOK'
  BY <1>2, Zenon DEF SendPair
<1>3. ASSUME NEW t \in Thread, NEW s \in sends, RecvPair(t, s)
      PROVE  FramesOK'
  BY <1>3, Zenon DEF RecvPair
<1>4. ASSUME NEW t \in Thread, SendRegister(t) \/ RecvRegister(t)
      PROVE  FramesOK'
  BY <1>4 DEF SendRegister, RecvRegister
<1>5. ASSUME NEW t \in Thread, NEW w \in todo[t], WakePartner(t, w)
      PROVE  FramesOK'
  <2>1. /\ pc[t] = "waking" /\ pc'[t] = "returning"
        /\ live'[t].adv = live[t].adv + 1
    BY <1>5, Zenon DEF WakePartner, Return
  <2>2. \A u \in Thread \ {t} : pc'[u] = pc[u] /\ live'[u] = live[u]
    BY <1>5, Zenon DEF WakePartner, Return
  <2>3. w.tid \in Thread
    BY DEF Wake
  <2>4. \A u \in Thread :
           \/ state'[u] = state[u] /\ saved'[u] = saved[u]
           \/ /\ state[u] = "Blocked" /\ state'[u] = "Ready"
              /\ saved'[u].adv = saved[u].adv + 1
    BY <1>5, <2>3 DEF WakePartner, IpcWakeWith
  <2> QED
    BY ONLY <2>1, <2>2, <2>4, FramesOK DEF FramesOK, ReturnsOnce
<1>6. ASSUME NEW t \in Thread, NEW w \in todo[t], PurgeWake(t, w)
      PROVE  FramesOK'
  BY <1>6 DEF PurgeWake, IpcWakeWith
<1>7. ASSUME NEW t \in Thread, DonateOnBlock(t) \/ KillWaitEnd(t) \/ Sret(t)
      PROVE  FramesOK'
  <2>1. CASE DonateOnBlock(t)
    BY <2>1, Zenon DEF DonateOnBlock
  <2>2. CASE KillWaitEnd(t)
    BY <2>2, Zenon DEF KillWaitEnd
  <2>3. CASE Sret(t)
    BY <2>3, Zenon DEF Sret
  <2> QED
    BY <1>7, <2>1, <2>2, <2>3, Zenon
<1>8. ASSUME NEW t \in Thread, ConsumeWake(t) \/ Block(t) \/ Dispatch(t)
      PROVE  FramesOK'
  <2>1. CASE ConsumeWake(t)
    BY <2>1 DEF ConsumeWake, Return
  <2>2. CASE Block(t)
    BY <2>2, Zenon DEF Block
  <2>3. CASE Dispatch(t)
    BY <2>3, Zenon DEF Dispatch
  <2> QED
    BY <1>8, <2>1, <2>2, <2>3, Zenon
<1>9. ASSUME NEW t \in Thread, NEW p \in Mortal, Purge(t, p)
      PROVE  FramesOK'
  BY <1>9, Zenon DEF Purge, InUser
<1>10. ASSUME NEW t \in Thread, MarkVictims(t)
      PROVE  FramesOK'
  BY <1>10, Zenon DEF MarkVictims, Victims
<1>11. ASSUME NEW t \in Thread, Destroy(t)
      PROVE  FramesOK'
  BY <1>11 DEF Destroy
<1>12. ASSUME NEW t \in Thread, Exit(t) \/ ForceKill(t) \/ ExitFromTrap(t)
      PROVE  FramesOK'
  BY <1>12 DEF Exit, ForceKill, ExitFromTrap, Exited, InUser
<1>13. CASE UNCHANGED <<alive, ipcVars, schedVars, localVars>>
  BY <1>13, Zenon
<1> QED
  BY <1>1, <1>2, <1>3, <1>4, <1>5, <1>6, <1>7, <1>8, <1>9, <1>10, <1>11,
     <1>12, <1>13, Zenon
     DEF Next, KernelStep, IpiTakenByNext, GrantCap, ClearCap

\* The induction step of DonationOnlyWhileWaiting.
LEMMA NextDonation ==
    ASSUME TypeOK, PcState, CallOK, DonationOnlyWhileWaiting, [Next]_vars
    PROVE  DonationOnlyWhileWaiting'
<1> USE Records DEF vars, ipcVars, schedVars, killVars, localVars,
            TypeOK, PcState, CallOK, DonationOnlyWhileWaiting, InKill
<1>1. ASSUME NEW t \in Thread, Syscall(t)
      PROVE  DonationOnlyWhileWaiting'
  BY <1>1 DEF Syscall, SendCall, RecvCall, Resolve, Refuse, InUser
<1>2. ASSUME NEW t \in Thread, NEW r \in recvs, SendPair(t, r)
      PROVE  DonationOnlyWhileWaiting'
  BY <1>2, Zenon DEF SendPair
<1>3. ASSUME NEW t \in Thread, NEW s \in sends, RecvPair(t, s)
      PROVE  DonationOnlyWhileWaiting'
  BY <1>3 DEF RecvPair
<1>4. ASSUME NEW t \in Thread, SendRegister(t) \/ RecvRegister(t)
      PROVE  DonationOnlyWhileWaiting'
  BY <1>4 DEF SendRegister, RecvRegister
<1>5. ASSUME NEW t \in Thread, NEW w \in todo[t], WakePartner(t, w)
      PROVE  DonationOnlyWhileWaiting'
  BY <1>5 DEF WakePartner, IpcWakeWith, Return
<1>6. ASSUME NEW t \in Thread, NEW w \in todo[t], PurgeWake(t, w)
      PROVE  DonationOnlyWhileWaiting'
  BY <1>6 DEF PurgeWake, IpcWakeWith
<1>7. ASSUME NEW t \in Thread, DonateOnBlock(t) \/ KillWaitEnd(t) \/ Sret(t)
      PROVE  DonationOnlyWhileWaiting'
  BY <1>7 DEF DonateOnBlock, KillWaitEnd, Sret
<1>8. ASSUME NEW t \in Thread, ConsumeWake(t) \/ Block(t) \/ Dispatch(t)
      PROVE  DonationOnlyWhileWaiting'
  BY <1>8 DEF ConsumeWake, Block, Dispatch, Return
<1>9. ASSUME NEW t \in Thread, NEW p \in Mortal, Purge(t, p)
      PROVE  DonationOnlyWhileWaiting'
  BY <1>9 DEF Purge, InUser
<1>10. ASSUME NEW t \in Thread, MarkVictims(t)
      PROVE  DonationOnlyWhileWaiting'
  BY <1>10, Zenon DEF MarkVictims, Victims
<1>11. ASSUME NEW t \in Thread, Destroy(t)
      PROVE  DonationOnlyWhileWaiting'
  <2>1. donation[t] = Nil /\ UNCHANGED <<state, donation>>
    BY <1>11, Zenon DEF Destroy
  <2>2. \A u \in Thread \ {t} : pc'[u] = pc[u] /\ call'[u] = call[u]
    BY <1>11 DEF Destroy
  <2> QED
    BY ONLY <2>1, <2>2, DonationOnlyWhileWaiting, Zenon DEF DonationOnlyWhileWaiting
<1>12. ASSUME NEW t \in Thread, Exit(t) \/ ForceKill(t) \/ ExitFromTrap(t)
      PROVE  DonationOnlyWhileWaiting'
  BY <1>12 DEF Exit, ForceKill, ExitFromTrap, Exited, InUser
<1>13. CASE UNCHANGED <<alive, ipcVars, schedVars, localVars>>
  BY <1>13, Zenon
<1> QED
  BY <1>1, <1>2, <1>3, <1>4, <1>5, <1>6, <1>7, <1>8, <1>9, <1>10, <1>11,
     <1>12, <1>13, Zenon
     DEF Next, KernelStep, IpiTakenByNext, GrantCap, ClearCap
=============================================================================
