-------------------------------- MODULE Ipc --------------------------------
(***************************************************************************)
(* Synchronous IPC of the kernel (kernel/src/ipc.rs) together with the     *)
(* parts of the scheduler that park and wake its users                     *)
(* (kernel/src/sched.rs) and the kill path that purges it.                 *)
(*                                                                         *)
(* A system call is a sequence of critical sections: TABLE for the         *)
(* capability, IPC for the pairing, SCHED for every wake, donation and     *)
(* block.  No two of these locks overlap, so each section is one action    *)
(* and the threads running on other harts interleave between them.  A      *)
(* trap runs with interrupts off: a thread inside a system call is never   *)
(* preempted, and takes an IPI only when it is back in user mode.          *)
(*                                                                         *)
(* The five message words and the user's registers are abstracted to one   *)
(* message value; a trap frame is what the current system call has         *)
(* written to it and how often it moved sepc past the ecall.  A frame copy *)
(* that can no longer be restored is forgotten (Fresh).  Preemption of a   *)
(* thread in user mode changes nothing that IPC sees and is left to Sched. *)
(***************************************************************************)
EXTENDS Naturals, FiniteSets

CONSTANTS
    Proc,       \* process ids
    Thread,     \* thread ids (one TCB slot each, not reused here)
    ProcOf,     \* [Thread -> Proc \cup {NoProc}]: Thread::proc
    Slot,       \* capability slots in range (< MAX_CAPS)
    Msg,        \* message payloads
    Mortal,     \* the processes that a fault or a kernel thread may kill
    NoProc,     \* proc == None: a kernel thread
    AcceptAny,  \* IPC_ACCEPT_ANY
    Empty,      \* an empty capability slot
    Other,      \* a slot holding Cap::Shm or Cap::Page
    Nil         \* None

ASSUME IpcConstants ==
    /\ ProcOf \in [Thread -> Proc \cup {NoProc}]
    /\ Mortal \subseteq Proc
    /\ NoProc \notin Proc /\ AcceptAny \notin Proc
    /\ Empty \notin Proc /\ Other \notin Proc /\ Empty # Other
    /\ Nil \notin Proc \cup Msg \cup {"Ack", "ENOENT", "EACCES", "EINVAL"}
    /\ Msg \cap {"Ack", "ENOENT", "EACCES", "EINVAL"} = {}

VARIABLES
    caps,       \* Table: Process::caps, [Proc -> [Slot -> ...]]
    alive,      \* Table: the pids whose slot is valid (p.id == pid)
    sends,      \* IpcState::sends, without its order
    recvs,      \* IpcState::recvs, without its order
    older,      \* the order of both queues: who was queued when t was pushed
    state,      \* Thread::state
    ipc_wake,   \* Thread::ipc_wake, Nil or the result it carries
    saved,      \* Thread::frame of a thread that is not running
    donation,   \* donations, by donor: the peer process or Nil
    killReq,    \* THREAD_KILL_REQUEST
    ipi,        \* a REMOTE_FORCE_KILL IPI is pending where t ran
    pc,         \* where t is in the kernel
    call,       \* the system call's resolved arguments
    todo,       \* wake-ups t still has to perform, outside the IPC lock
    live        \* the trap frame t is running on

ipcVars   == <<sends, recvs, older>>
schedVars == <<state, ipc_wake, saved, donation>>
killVars  == <<killReq, ipi>>
localVars == <<pc, call, todo, live>>
vars == <<caps, alive, ipcVars, schedVars, killVars, localVars>>

-----------------------------------------------------------------------------
(* Types *)

Errno  == {"ENOENT", "EACCES", "EINVAL"}
Result == Msg \cup {"Ack"} \cup Errno

\* What a trap frame holds of the current call: a0..a5 and the sepc steps.
Frame  == [res : Result \cup {Nil}, adv : Nat]
Fresh  == [res |-> Nil, adv |-> 0]

SendEntry == [tid : Thread, pid : Proc, dst : Proc, msg : Msg]
RecvEntry == [tid : Thread, pid : Proc, src : Proc \cup {AcceptAny}]
Wake      == [tid : Thread, res : Result]
Call      == [op : {"send", "recv", "kill", "none"},
              peer : Proc \cup {AcceptAny, Nil}, msg : Msg \cup {Nil}]
NoCall    == [op |-> "none", peer |-> Nil, msg |-> Nil]

InSyscall == {"resolved", "waking", "registered", "parking", "returning"}
InKill    == {"purging", "waiting", "destroying", "exiting"}
PC        == {"user", "blocked", "dead"} \cup InSyscall \cup InKill

\* The type of the state of ipc.rs, and of what the model keeps of sched.rs.
TypeOK ==
    /\ caps \in [Proc -> [Slot -> Proc \cup {Empty, Other}]]
    /\ alive \subseteq Proc
    /\ sends \subseteq SendEntry
    /\ recvs \subseteq RecvEntry
    /\ older \in [Thread -> SUBSET Thread]
    /\ state \in [Thread -> {"Ready", "Running", "Blocked", "Exited"}]
    /\ ipc_wake \in [Thread -> Result \cup {Nil}]
    /\ saved \in [Thread -> Frame]
    /\ donation \in [Thread -> Proc \cup {Nil}]
    /\ killReq \in [Thread -> BOOLEAN]
    /\ ipi \in [Thread -> BOOLEAN]
    /\ pc \in [Thread -> PC]
    /\ call \in [Thread -> Call]
    /\ todo \in [Thread -> SUBSET Wake]
    /\ live \in [Thread -> Frame]

-----------------------------------------------------------------------------
(* Helpers *)

Set(f, t, v) == [f EXCEPT ![t] = v]

\* Running in user mode: the only place where a trap can begin.
InUser(t) == pc[t] = "user" /\ state[t] = "Running"

\* The entry pushed first among the candidates (VecDeque::position).
First(Q) == {e \in Q : \A f \in Q : f.tid \in older[e.tid] => f = e}

\* push_back: t is now behind everything queued.
PushBack(t) == older' = Set(older, t, {e.tid : e \in sends \cup recvs} \ {t})

\* remove / retain: the entries of the threads in T leave the queues.
Dequeue(T) == older' = [u \in Thread |-> IF u \in T THEN {} ELSE older[u] \ T]

\* position() of a recv for a send of pid to dst: specific ones first.
RecvMatches(pid, dst) ==
    LET specific == {r \in recvs : r.pid = dst /\ r.src = pid}
        any      == {r \in recvs : r.pid = dst /\ r.src = AcceptAny}
    IN  IF specific # {} THEN First(specific) ELSE First(any)

\* position() of a send for a recv of pid from src.
SendMatches(pid, src) == First({s \in sends : s.pid = src /\ s.dst = pid})

\* cap_target restricted to what IPC does with its answer.
CapTarget(t, slot) ==
    IF ProcOf[t] \in alive THEN caps[ProcOf[t]][slot] ELSE Empty

\* Mutant: a wake-up that finds its thread not yet blocked is dropped.
IpcWakeDropped(w) ==
    IF state[w.tid] # "Blocked"
    THEN UNCHANGED <<state, ipc_wake, saved, donation>>
    ELSE /\ saved' = Set(saved, w.tid,
                         [res |-> w.res, adv |-> saved[w.tid].adv + 1])
         /\ ipc_wake' = Set(ipc_wake, w.tid, Nil)
         /\ state' = Set(state, w.tid, "Ready")
         /\ donation' = Set(donation, w.tid, Nil)

\* ipc_wake_with_msg / ipc_wake_with_err: one SCHED section.
IpcWakeWith(w) ==
    IF state[w.tid] # "Blocked"
    THEN /\ ipc_wake' = Set(ipc_wake, w.tid, w.res)
         /\ UNCHANGED <<state, saved, donation>>
    ELSE /\ saved' = Set(saved, w.tid,
                         [res |-> w.res, adv |-> saved[w.tid].adv + 1])
         /\ ipc_wake' = Set(ipc_wake, w.tid, Nil)
         /\ state' = Set(state, w.tid, "Ready")
         /\ donation' = Set(donation, w.tid, Nil)

Return(t, res) ==
    /\ live' = Set(live, t, [res |-> res, adv |-> live[t].adv + 1])
    /\ pc' = Set(pc, t, "returning")
    /\ call' = Set(call, t, NoCall)

-----------------------------------------------------------------------------
(* System calls: capability resolution (TABLE) *)

Resolve(t, op, peer, msg) ==
    /\ pc' = Set(pc, t, "resolved")
    /\ call' = Set(call, t, [op |-> op, peer |-> peer, msg |-> msg])
    /\ UNCHANGED live

Refuse(t, errno) ==
    /\ live' = Set(live, t, [res |-> errno, adv |-> 1])
    /\ pc' = Set(pc, t, "returning")
    /\ UNCHANGED call

SendCall(t, slot, msg) ==
    /\ InUser(t) /\ ProcOf[t] \in Proc
    /\ LET c == CapTarget(t, slot) IN
         \/ c \in Proc /\ Resolve(t, "send", c, msg)
         \/ c = Other  /\ Refuse(t, "EINVAL")
         \/ c = Empty  /\ Refuse(t, "EACCES")
    /\ UNCHANGED <<caps, alive, ipcVars, schedVars, killVars, todo>>

RecvCall(t, slot) ==
    /\ InUser(t) /\ ProcOf[t] \in Proc
    /\ LET c == CapTarget(t, slot) IN
         \/ c \in Proc /\ Resolve(t, "recv", c, Nil)
         \/ c = Other  /\ Refuse(t, "EINVAL")
         \/ c = Empty  /\ Resolve(t, "recv", AcceptAny, Nil)
    /\ UNCHANGED <<caps, alive, ipcVars, schedVars, killVars, todo>>

(* System calls: pairing (IPC) *)

\* Mutant: the paired recv stays in its queue.
SendPairKeepsEntry(t, r) ==
    /\ pc[t] = "resolved" /\ call[t].op = "send"
    /\ r \in RecvMatches(ProcOf[t], call[t].peer)
    /\ todo' = Set(todo, t, {[tid |-> r.tid, res |-> call[t].msg]})
    /\ pc' = Set(pc, t, "waking")
    /\ UNCHANGED <<caps, alive, ipcVars, schedVars, killVars, call, live>>

\* send finds a recv: the entry leaves the queue, the wake-up is still owed.
SendPair(t, r) ==
    /\ pc[t] = "resolved" /\ call[t].op = "send"
    /\ r \in RecvMatches(ProcOf[t], call[t].peer)
    /\ recvs' = recvs \ {r}
    /\ Dequeue({r.tid})
    /\ todo' = Set(todo, t, {[tid |-> r.tid, res |-> call[t].msg]})
    /\ pc' = Set(pc, t, "waking")
    /\ UNCHANGED <<caps, alive, sends, schedVars, killVars, call, live>>

\* Mutant: send blocks without donate_on_block.
SendRegisterNoDonation(t) ==
    /\ pc[t] = "resolved" /\ call[t].op = "send"
    /\ {r \in recvs : r.pid = call[t].peer
                      /\ r.src \in {ProcOf[t], AcceptAny}} = {}
    /\ sends' = sends \cup {[tid |-> t, pid |-> ProcOf[t],
                             dst |-> call[t].peer, msg |-> call[t].msg]}
    /\ PushBack(t)
    /\ pc' = Set(pc, t, "parking")
    /\ UNCHANGED <<caps, alive, recvs, schedVars, killVars, call, todo, live>>

SendRegister(t) ==
    /\ pc[t] = "resolved" /\ call[t].op = "send"
    /\ {r \in recvs : r.pid = call[t].peer
                      /\ r.src \in {ProcOf[t], AcceptAny}} = {}
    /\ sends' = sends \cup {[tid |-> t, pid |-> ProcOf[t],
                             dst |-> call[t].peer, msg |-> call[t].msg]}
    /\ PushBack(t)
    /\ pc' = Set(pc, t, "registered")
    /\ UNCHANGED <<caps, alive, recvs, schedVars, killVars, call, todo, live>>

\* recv finds a send: it takes the message and owes the sender an ack.
RecvPair(t, s) ==
    /\ pc[t] = "resolved" /\ call[t].op = "recv"
    /\ s \in SendMatches(ProcOf[t], call[t].peer)
    /\ sends' = sends \ {s}
    /\ Dequeue({s.tid})
    /\ todo' = Set(todo, t, {[tid |-> s.tid, res |-> "Ack"]})
    /\ call' = Set(call, t, [call[t] EXCEPT !.msg = s.msg])
    /\ pc' = Set(pc, t, "waking")
    /\ UNCHANGED <<caps, alive, recvs, schedVars, killVars, live>>

\* Mutant: recv registers without looking for a queued send.
RecvRegisterUnchecked(t) ==
    /\ pc[t] = "resolved" /\ call[t].op = "recv"
    /\ recvs' = recvs \cup {[tid |-> t, pid |-> ProcOf[t],
                             src |-> call[t].peer]}
    /\ PushBack(t)
    /\ pc' = Set(pc, t, IF call[t].peer = AcceptAny THEN "parking"
                                                    ELSE "registered")
    /\ UNCHANGED <<caps, alive, sends, schedVars, killVars, call, todo, live>>

\* An accept-any recv skips the donation: it has no peer to donate to.
RecvRegister(t) ==
    /\ pc[t] = "resolved" /\ call[t].op = "recv"
    /\ {s \in sends : s.pid = call[t].peer /\ s.dst = ProcOf[t]} = {}
    /\ recvs' = recvs \cup {[tid |-> t, pid |-> ProcOf[t],
                             src |-> call[t].peer]}
    /\ PushBack(t)
    /\ pc' = Set(pc, t, IF call[t].peer = AcceptAny THEN "parking"
                                                    ELSE "registered")
    /\ UNCHANGED <<caps, alive, sends, schedVars, killVars, call, todo, live>>

(* System calls: wake the partner, or donate and block (SCHED) *)

WakePartner(t, w) ==
    /\ pc[t] = "waking" /\ w \in todo[t]
    /\ IpcWakeWith(w)
    /\ todo' = Set(todo, t, todo[t] \ {w})
    /\ Return(t, IF call[t].op = "send" THEN "Ack" ELSE call[t].msg)
    /\ UNCHANGED <<caps, alive, ipcVars, killVars>>

DonateOnBlock(t) ==
    /\ pc[t] = "registered"
    /\ donation' = Set(donation, t, call[t].peer)
    /\ pc' = Set(pc, t, "parking")
    /\ UNCHANGED <<caps, alive, ipcVars, state, ipc_wake, saved, killVars,
                   call, todo, live>>

\* block_user_from_trap: consume a wake-up that came first ...
ConsumeWake(t) ==
    /\ pc[t] = "parking" /\ ipc_wake[t] # Nil
    /\ Return(t, ipc_wake[t])
    /\ ipc_wake' = Set(ipc_wake, t, Nil)
    /\ state' = Set(state, t, "Running")
    /\ donation' = Set(donation, t, Nil)
    /\ UNCHANGED <<caps, alive, ipcVars, saved, killVars, todo>>

\* ... or save the frame and give up the hart.
Block(t) ==
    /\ pc[t] = "parking" /\ ipc_wake[t] = Nil
    /\ saved' = Set(saved, t, live[t])
    /\ live' = Set(live, t, Fresh)
    /\ state' = Set(state, t, "Blocked")
    /\ pc' = Set(pc, t, "blocked")
    /\ UNCHANGED <<caps, alive, ipcVars, ipc_wake, donation, killVars,
                   call, todo>>

(* The scheduler, reduced to who runs *)

Dispatch(t) ==
    /\ state[t] = "Ready"
    /\ state' = Set(state, t, "Running")
    /\ live' = Set(live, t, saved[t])
    /\ saved' = Set(saved, t, Fresh)
    /\ pc' = Set(pc, t, "returning")
    /\ call' = Set(call, t, NoCall)
    /\ UNCHANGED <<caps, alive, ipcVars, ipc_wake, donation, killVars, todo>>

\* The trap exit: sret to the user, who now has the result.
Sret(t) ==
    /\ pc[t] = "returning"
    /\ pc' = Set(pc, t, "user")
    /\ live' = Set(live, t, Fresh)
    /\ UNCHANGED <<caps, alive, ipcVars, schedVars, killVars, call, todo>>

Exited(t) ==
    /\ state' = Set(state, t, "Exited")
    /\ pc' = Set(pc, t, "dead")
    /\ call' = Set(call, t, NoCall)

Exit(t) ==
    /\ InUser(t) /\ ProcOf[t] \in Proc
    /\ Exited(t)
    /\ UNCHANGED <<caps, alive, ipcVars, ipc_wake, saved, donation, killVars,
                   todo, live>>

-----------------------------------------------------------------------------
(* Capability changes between calls (TABLE) *)

\* grant_typed_cap: by service_connect, mmap_share, mem_grant or boot code.
GrantCap(p, slot, c) ==
    /\ p \in alive
    /\ caps' = [caps EXCEPT ![p][slot] = c]
    /\ UNCHANGED <<alive, ipcVars, schedVars, killVars, localVars>>

\* clear_cap, the second section of cap_revoke.
ClearCap(p, slot) ==
    /\ p \in alive
    /\ caps' = [caps EXCEPT ![p][slot] = Empty]
    /\ UNCHANGED <<alive, ipcVars, schedVars, killVars, localVars>>

-----------------------------------------------------------------------------
(* kill_process: by a faulting thread of the process, or a kernel thread *)

\* Mutant: purge_process forgets the survivors it dequeued.
PurgeSilently(t, p) ==
    /\ InUser(t)
    /\ p \in Mortal /\ ProcOf[t] \in {p, NoProc}
    /\ ProcOf[t] = NoProc => p \in alive
    /\ LET gone == {e \in sends : p \in {e.dst, e.pid}}
           lost == {e \in recvs : p \in {e.src, e.pid}}
       IN  /\ sends' = sends \ gone
           /\ recvs' = recvs \ lost
           /\ Dequeue({e.tid : e \in gone \cup lost})
    /\ pc' = Set(pc, t, "purging")
    /\ call' = Set(call, t, [op |-> "kill", peer |-> p, msg |-> Nil])
    /\ UNCHANGED <<caps, alive, schedVars, killVars, live, todo>>

\* 1) purge_process, the IPC section: the dead process leaves both queues.
Purge(t, p) ==
    /\ InUser(t)
    /\ p \in Mortal /\ ProcOf[t] \in {p, NoProc}
    /\ ProcOf[t] = NoProc => p \in alive
    /\ LET gone == {e \in sends : p \in {e.dst, e.pid}}
           lost == {e \in recvs : p \in {e.src, e.pid}}
       IN  /\ sends' = sends \ gone
           /\ recvs' = recvs \ lost
           /\ Dequeue({e.tid : e \in gone \cup lost})
           /\ todo' = Set(todo, t, {[tid |-> e.tid, res |-> "ENOENT"] :
                                    e \in {x \in gone \cup lost : x.pid # p}})
    /\ pc' = Set(pc, t, "purging")
    /\ call' = Set(call, t, [op |-> "kill", peer |-> p, msg |-> Nil])
    /\ UNCHANGED <<caps, alive, schedVars, killVars, live>>

\* purge_process, after the IPC lock: one ipc_wake_with_err per survivor.
PurgeWake(t, w) ==
    /\ pc[t] = "purging" /\ w \in todo[t]
    /\ IpcWakeWith(w)
    /\ todo' = Set(todo, t, todo[t] \ {w})
    /\ UNCHANGED <<caps, alive, ipcVars, killVars, pc, call, live>>

Victims(t, p) == {v \in Thread \ {t} : ProcOf[v] = p}

\* Mutant: the victims' donations are not revoked.
MarkVictimsKeepDonations(t) ==
    /\ pc[t] = "purging" /\ todo[t] = {}
    /\ LET p     == call[t].peer
           force == {v \in Victims(t, p) : state[v] = "Running"}
           dead  == Victims(t, p) \ force
       IN  /\ state' = [v \in Thread |-> IF v \in dead THEN "Exited"
                                                       ELSE state[v]]
           /\ pc' = [v \in Thread |-> IF v \in dead THEN "dead"
                                      ELSE IF v = t THEN "waiting"
                                      ELSE pc[v]]
           /\ killReq' = [v \in Thread |-> killReq[v] \/ v \in force]
           /\ \E sent \in SUBSET force :
                ipi' = [v \in Thread |-> ipi[v] \/ v \in sent]
    /\ UNCHANGED <<caps, alive, ipcVars, ipc_wake, saved, donation, call, todo,
                   live>>

\* 2), 3) mark the victims; the running ones get a request and an IPI,
\* which the firmware may refuse (warn! in send_remote_req).
MarkVictims(t) ==
    /\ pc[t] = "purging" /\ todo[t] = {}
    /\ LET p     == call[t].peer
           force == {v \in Victims(t, p) : state[v] = "Running"}
           dead  == Victims(t, p) \ force
       IN  /\ state' = [v \in Thread |-> IF v \in dead THEN "Exited"
                                                       ELSE state[v]]
           /\ pc' = [v \in Thread |-> IF v \in dead THEN "dead"
                                      ELSE IF v = t THEN "waiting"
                                      ELSE pc[v]]
           /\ killReq' = [v \in Thread |-> killReq[v] \/ v \in force]
           /\ \E sent \in SUBSET force :
                ipi' = [v \in Thread |-> ipi[v] \/ v \in sent]
           /\ donation' = [v \in Thread |->
                             IF donation[v] = p \/ v \in Victims(t, p) \cup {t}
                             THEN Nil ELSE donation[v]]
    /\ UNCHANGED <<caps, alive, ipcVars, ipc_wake, saved, call, todo, live>>

\* 4) the bounded wait: over when every request is cleared, or timed out.
KillWaitEnd(t) ==
    /\ pc[t] = "waiting"
    /\ pc' = Set(pc, t, "destroying")
    /\ UNCHANGED <<caps, alive, ipcVars, schedVars, killVars, call, todo,
                   live>>

\* 6) process::destroy invalidates the slot; a second destroy does nothing.
Destroy(t) ==
    /\ pc[t] = "destroying"
    /\ LET p == call[t].peer IN
         /\ alive' = alive \ {p}
         /\ caps' = IF p \in alive
                    THEN [caps EXCEPT ![p] = [s \in Slot |-> Empty]]
                    ELSE caps
         /\ IF ProcOf[t] = p
            THEN pc' = Set(pc, t, "exiting") /\ UNCHANGED call
            ELSE pc' = Set(pc, t, "user") /\ call' = Set(call, t, NoCall)
    /\ UNCHANGED <<ipcVars, schedVars, killVars, todo, live>>

\* exit_from_trap of the faulting thread.
ExitFromTrap(t) ==
    /\ pc[t] = "exiting"
    /\ Exited(t)
    /\ UNCHANGED <<caps, alive, ipcVars, ipc_wake, saved, donation, killVars,
                   todo, live>>

\* The SSIP handler in t's user mode: force_kill_current.
ForceKill(t) ==
    /\ InUser(t) /\ ipi[t]
    /\ ipi' = Set(ipi, t, FALSE)
    /\ IF killReq[t]
       THEN Exited(t) /\ killReq' = Set(killReq, t, FALSE)
       ELSE UNCHANGED <<state, pc, call, killReq>>
    /\ UNCHANGED <<caps, alive, ipcVars, ipc_wake, saved, donation, todo,
                   live>>

\* The same IPI taken by whatever runs on that hart after t left it.
IpiTakenByNext(t) ==
    /\ ipi[t] /\ state[t] # "Running"
    /\ ipi' = Set(ipi, t, FALSE)
    /\ UNCHANGED <<caps, alive, ipcVars, schedVars, killReq, localVars>>

-----------------------------------------------------------------------------

Init ==
    /\ caps = [p \in Proc |-> [s \in Slot |-> Empty]]
    /\ alive = Proc
    /\ sends = {} /\ recvs = {} /\ older = [t \in Thread |-> {}]
    /\ state = [t \in Thread |-> "Running"]
    /\ ipc_wake = [t \in Thread |-> Nil]
    /\ saved = [t \in Thread |-> Fresh]
    /\ donation = [t \in Thread |-> Nil]
    /\ killReq = [t \in Thread |-> FALSE]
    /\ ipi = [t \in Thread |-> FALSE]
    /\ pc = [t \in Thread |-> "user"]
    /\ call = [t \in Thread |-> NoCall]
    /\ todo = [t \in Thread |-> {}]
    /\ live = [t \in Thread |-> Fresh]

Syscall(t) ==
    \/ \E slot \in Slot, m \in Msg : SendCall(t, slot, m)
    \/ \E slot \in Slot : RecvCall(t, slot)

\* A step that t takes inside the kernel, with interrupts off.
KernelStep(t) ==
    \/ \E r \in recvs : SendPair(t, r)
    \/ SendRegister(t)
    \/ \E s \in sends : RecvPair(t, s)
    \/ RecvRegister(t)
    \/ \E w \in todo[t] : WakePartner(t, w) \/ PurgeWake(t, w)
    \/ DonateOnBlock(t)
    \/ ConsumeWake(t)
    \/ Block(t)
    \/ Sret(t)
    \/ MarkVictims(t)
    \/ KillWaitEnd(t)
    \/ Destroy(t)
    \/ ExitFromTrap(t)

Next ==
    \/ \E t \in Thread : \/ Syscall(t)
                         \/ KernelStep(t)
                         \/ Dispatch(t)
                         \/ Exit(t)
                         \/ ForceKill(t)
                         \/ IpiTakenByNext(t)
                         \/ \E p \in Mortal : Purge(t, p)
    \/ \E p \in Proc, slot \in Slot :
          \/ \E c \in (Proc \ {p}) \cup {Other} : GrantCap(p, slot, c)
          \/ ClearCap(p, slot)

\* A trap runs to its end on its hart, and the round-robin scheduler gets to
\* every ready thread; nothing forces a user program to make a call.
Fairness == \A t \in Thread : WF_vars(KernelStep(t)) /\ WF_vars(Dispatch(t))

Spec == Init /\ [][Next]_vars /\ Fairness

-----------------------------------------------------------------------------
(* Properties *)

Pending(t) == {e \in sends \cup recvs : e.tid = t}
Owers(t)   == {k \in Thread : \E w \in todo[k] : w.tid = t}
IsOne(S)   == \E x \in S : S = {x}
Waiting(t) == pc[t] \in {"registered", "parking"} \/ state[t] = "Blocked"

\* Killed, or in the course of being killed.
Doomed(p) == p \notin alive \/ \E k \in Thread : call[k].op = "kill"
                                                /\ call[k].peer = p
\* A thread that no kill concerns.
Live(t) == state[t] # "Exited" /\ (ProcOf[t] \in Proc => ~Doomed(ProcOf[t]))

\* The answer of a waiting thread is in exactly one place; nobody else has one.
AnswerInOnePlace(t) ==
    IF Waiting(t)
    THEN \/ IsOne(Pending(t)) /\ Owers(t) = {} /\ ipc_wake[t] = Nil
         \/ Pending(t) = {} /\ IsOne(Owers(t)) /\ ipc_wake[t] = Nil
         \/ /\ Pending(t) = {} /\ Owers(t) = {} /\ ipc_wake[t] # Nil
            /\ state[t] # "Blocked"
    ELSE Pending(t) = {} /\ Owers(t) = {} /\ ipc_wake[t] = Nil

\* A thread that has registered and not returned is owed exactly one answer,
\* and it is in exactly one place: still queued, in the hands of the thread
\* that paired with it, or stored in ipc_wake because it came before the
\* thread blocked.  A thread that waits for nothing is owed nothing.  (The B1
\* protocol of ipc_wake_with_msg and block_user_from_trap; threads of a
\* process that is being killed are excepted, purge_process drops theirs.)
OneAnswerOwed == \A t \in Thread : Live(t) => AnswerInOnePlace(t)

\* A send and a specific recv that match are never both left in the queues:
\* whoever comes second takes the first one out (ipc.rs, pairing semantics).
NoMatchLeftQueued ==
    \A s \in sends, r \in recvs : ~(r.pid = s.dst /\ r.src = s.pid)

\* A system call moves sepc past its ecall exactly once, whichever of the
\* wake paths, the consumed wake-up or the direct return completes it.
ReturnsOnce ==
    \A t \in Thread :
        /\ pc[t] = "returning" => live[t].adv = 1
        /\ state[t] = "Ready" => saved[t].adv = 1
        /\ state[t] = "Blocked" => saved[t].adv = 0

\* A donation outlives neither the wait it was made for nor its donor: it is
\* in force only between donate_on_block and the answer.
DonationOnlyWhileWaiting ==
    \A t \in Thread : donation[t] # Nil =>
        /\ pc[t] = "parking" \/ state[t] = "Blocked"
        /\ donation[t] = call[t].peer

\* While nobody is killed, a thread blocked on a specific peer has its
\* donation to that peer in force (donate_on_block precedes the block).
BlockedDonates ==
    \A t \in Thread :
        state[t] = "Blocked" /\ Pending(t) # {} /\ call[t].peer # AcceptAny
            => donation[t] = call[t].peer


\* ipc.rs purge_process: no queue entry of a killed process's thread is left
\* to swallow a message.
NoEntryOfTheDead ==
    \A e \in sends \cup recvs : state[e.tid] # "Exited"

\* sched.rs force_kill_current: a thread that blocked has no kill request.
BlockedNotCondemned ==
    \A t \in Thread : state[t] = "Blocked" => ~killReq[t]

\* ipc.rs purge_process and sched.rs kill_process: the death of a process is
\* reported to its partners, so nobody blocks on a process that is gone.
NobodyWaitsForTheDead ==
    \A t \in Thread : Live(t) /\ state[t] = "Blocked" /\ Pending(t) # {}
        => call[t].peer \in alive \cup {AcceptAny}

\* Whoever is owed an answer gets it: paired or purged waiters return to
\* user mode, or are killed.
OwedIsDelivered ==
    \A t \in Thread : (Owers(t) # {}) ~> (InUser(t) \/ state[t] = "Exited")

-----------------------------------------------------------------------------
(* Refinement: without kills, the kernel's IPC implements Rendezvous *)

\* Paired, or still to be paired: where the call is between its two ends.
PhaseOf(t) ==
    IF state[t] = "Exited" THEN "gone"
    ELSE IF pc[t] = "user" THEN "idle"
    ELSE IF pc[t] = "resolved" \/ Pending(t) # {} THEN "asking"
    ELSE "answered"

\* The wake-up that some other thread has still to perform for t.
OwedWake(t) == CHOOSE w \in UNION {todo[k] : k \in Thread} : w.tid = t

\* The answer of t, wherever the wake-up protocol keeps it at the moment.
AnswerOf(t) ==
    IF PhaseOf(t) # "answered" THEN Nil
    ELSE IF pc[t] = "waking" /\ call[t].op = "send" THEN "Ack"
    ELSE IF pc[t] = "waking" THEN call[t].msg
    ELSE IF Owers(t) # {} THEN OwedWake(t).res
    ELSE IF ipc_wake[t] # Nil THEN ipc_wake[t]
    ELSE IF state[t] = "Ready" THEN saved[t].res
    ELSE live[t].res

R == INSTANCE Rendezvous WITH
        phase <- [t \in Thread |-> PhaseOf(t)],
        ask   <- [t \in Thread |-> IF PhaseOf(t) = "asking" THEN call[t]
                                                            ELSE NoCall],
        got   <- [t \in Thread |-> AnswerOf(t)]

\* Every message sent is received once, by a thread that asked for it, and
\* the sender's acknowledgement means just that; a sender and a receiver
\* that name each other do meet (ipc.rs send, recv and both wake paths).
ImplementsRendezvous == R!RSpec

=============================================================================
