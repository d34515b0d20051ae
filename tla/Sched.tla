------------------------------- MODULE Sched -------------------------------
(***************************************************************************)
(* The scheduler of the kernel (kernel/src/sched.rs): per-hart ready       *)
(* queues, cooperative and preemptive switches with their two kinds of     *)
(* resume data, wake-ups, exit and TCB reuse, and the kill of a process.   *)
(*                                                                         *)
(* A critical section of the SCHED lock is one action.  A cooperative      *)
(* switch is two: the section that picks the next thread and publishes it  *)
(* in current[h], and do_switch, which saves the old context and loads the *)
(* new one after the lock is gone.  The other harts act between the two.   *)
(*                                                                         *)
(* Registers are abstracted to freshness: fresh[t] says which of ctx and   *)
(* frame of TCB t describe the point where the thread in t stopped; cpu[h] *)
(* is the thread whose program hart h really executes.  Of IPC the module  *)
(* has what touches the scheduler: a user thread that finds no partner     *)
(* lends its priority to the process it waits for and blocks, and whoever  *)
(* pairs with it wakes it (IpcWake).                                       *)
(***************************************************************************)
EXTENDS Integers, Sequences, FiniteSets

CONSTANTS
    Harts,         \* MAX_HARTS
    Boot,          \* the boot hart
    MAX_THREADS,   \* bound on TCB slots
    PRIO_LEVELS,
    SLICE_TICKS,
    Proc,          \* process ids
    Boots          \* the ways the boot code may leave the machine: the number of
                   \* harts online, the threads it spawned, in order, whether it
                   \* still runs the boot tests, a bound on later spawn calls,
                   \* the processes that a user fault may kill and those that
                   \* the others' user threads may name in a send or recv

Hart  == 0..(Harts - 1)
Tid   == 0..(MAX_THREADS - 1)
Level == 0..(PRIO_LEVELS - 1)
None  == -1

\* init(): TCBs 0, 1, ... are the idle threads of harts 0, 1, ...
Idle(h) == h

Kinds == [kind : {"kernel"}, proc : {None}] \cup [kind : {"user"}, proc : Proc]

ASSUME SchedConstants ==
    /\ Harts \in Nat \ {0} /\ Boot \in Hart
    /\ PRIO_LEVELS \in Nat \ {0} /\ SLICE_TICKS \in Nat \ {0}
    /\ MAX_THREADS \in Nat /\ None \notin Proc
    /\ \A b \in Boots : /\ b.harts \in 1..Harts /\ Boot < b.harts
                        /\ b.spawned \in Seq([of : Kinds, prio : Level,
                                              hart : 0..(b.harts - 1)])
                        /\ b.spawns \in Nat
                        /\ b.mortal \subseteq Proc /\ b.peers \subseteq Proc
                        /\ Harts + Len(b.spawned) <= MAX_THREADS
                        /\ b.tests \in BOOLEAN

VARIABLES
    boot,        \* the member of Boots this machine came up with
    th,          \* Scheduler::threads
    ready,       \* Scheduler::ready
    current,     \* Scheduler::current
    ticks_run,   \* Scheduler::ticks_run
    free_slots,  \* Scheduler::free_slots
    donations,   \* Scheduler::donations
    reaper,      \* Scheduler::reaper: stacks, by the hart still on them
    killReq,     \* THREAD_KILL_REQUEST
    ipi,         \* harts with REMOTE_FORCE_KILL and an IPI pending
    alive,       \* processes not yet destroyed
    reg,         \* threads in the wait queue of some Mutex or Condvar
    pc,          \* where the code of a kernel thread is
    dying,       \* harts inside kill_process, before exit_from_trap
    sie,         \* harts with interrupts enabled
    sw,          \* SwitchTarget of a hart between its section and do_switch
    spawns,      \* spawn calls made
    cpu,         \* ghost: whose program a hart executes
    fresh,       \* ghost: which resume data of a TCB is up to date
    stale,       \* ghost: threads resumed from data that was not
    freed        \* ghost: harts whose stack was freed under them

vars == <<boot, th, ready, current, ticks_run, free_slots, donations, reaper, killReq,
          ipi, alive, reg, pc, dying, sie, sw, spawns, cpu, fresh, stale, freed>>

-----------------------------------------------------------------------------
(* Types *)

\* The harts that came up; the others stay in the firmware.
Online == 0..(boot.harts - 1)

Thread == [state : {"Absent", "Ready", "Running", "Blocked", "Exited"},
           prio : Level, hart : Hart, of : Kinds,
           ctx_valid : BOOLEAN, frame_valid : BOOLEAN, woken : BOOLEAN,
           ipc_wake : BOOLEAN]
Donation == [donor : Tid, peer : Proc, prio : Level]
Switch == [old : Tid, new : Tid, frame : BOOLEAN]
NoSwitch == [old |-> None, new |-> None, frame |-> FALSE]
Quiet == None   \* a stack in the reaper that nobody runs on

\* The type of the state of sched.rs: table, queues, slices and flags.
TypeOK ==
    /\ boot \in Boots
    /\ th \in [Tid -> Thread]
    /\ ready \in [Hart -> [Level -> Seq(Tid)]]
    /\ current \in [Hart -> Tid]
    /\ ticks_run \in [Hart -> 0..(SLICE_TICKS - 1)]
    /\ free_slots \in Seq(Tid)
    /\ donations \in Seq(Donation) /\ Len(donations) <= MAX_THREADS
    /\ reaper \subseteq Hart \cup {Quiet}
    /\ killReq \subseteq Tid /\ ipi \subseteq Hart
    /\ alive \subseteq Proc /\ reg \subseteq Tid
    /\ pc \in [Tid -> {"entry", "run", "wait", "post", "pend", "park",
                       "tests", "loop"}]
    /\ dying \subseteq Hart /\ sie \subseteq Hart
    /\ sw \in [Hart -> Switch \cup {NoSwitch}]
    /\ spawns \in 0..boot.spawns
    /\ cpu \in [Hart -> Tid \cup {None}]
    /\ fresh \in [Tid -> SUBSET {"ctx", "frame"}]
    /\ stale \subseteq Tid /\ freed \subseteq Hart

-----------------------------------------------------------------------------
(* Queues *)

Set(f, x, v) == [f EXCEPT ![x] = v]

Least(S) == CHOOSE x \in S : \A y \in S : x <= y

\* The elements of a finite set of numbers, in order.
InOrder(S) ==
    [i \in 1..Cardinality(S) |->
        CHOOSE x \in S : Cardinality({y \in S : y < x}) = i - 1]

\* The entries of q at the positions I, and those that are in S (retain).
Only(q, I)  == [k \in 1..Cardinality(I) |-> q[InOrder(I)[k]]]
Those(q, S) == Only(q, {i \in DOMAIN q : q[i] \in S})

\* s[0], ..., s[n - 1], one after the other.
Joined(s, n) ==
    LET upto[i \in 0..n] == IF i = 0 THEN <<>> ELSE upto[i - 1] \o s[i - 1]
    IN  upto[n]

\* eff_prio: the best of the thread's own level and those lent to its process.
EffPrio(T, D, t) ==
    Least({T[t].prio} \cup
          {D[i].prio : i \in {j \in DOMAIN D : D[j].peer = T[t].of.proc}})

\* Mutant: a queue that is a stack.
PushFront(T, Q, D, t) == [Q EXCEPT ![T[t].hart][EffPrio(T, D, t)] = <<t>> \o @]

\* enqueue: at the tail of the level and hart of thread t of the table T.
Push(T, Q, D, t) == [Q EXCEPT ![T[t].hart][EffPrio(T, D, t)] = Append(@, t)]

Readied(T, t) == [T EXCEPT ![t].state = "Ready"]

Dispatched(T, t) == [T EXCEPT ![t].state = "Running"]

\* Mutant: the old frame stays valid.
SavedKeepsFrame(T, t) == [T EXCEPT ![t].ctx_valid = TRUE]

\* A thread that leaves its hart by itself will be resumed from its context ...
Saved(T, t) == [T EXCEPT ![t].frame_valid = FALSE, ![t].ctx_valid = TRUE]

\* ... and one that a trap stops, from the frame of the trap.
Captured(T, t) == [T EXCEPT ![t].frame_valid = TRUE, ![t].ctx_valid = FALSE]

\* remove_from_ready: the first entry of t on its own hart.
RemoveFromReady(Q, t) ==
    LET h == th[t].hart
        at(l) == {i \in DOMAIN Q[h][l] : Q[h][l][i] = t}
        lvls == {l \in Level : at(l) # {}}
        l == Least(lvls)
        i == Least(at(l))
    IN  IF lvls = {} THEN Q
        ELSE [Q EXCEPT ![h][l] = SubSeq(@, 1, i - 1)
                                   \o SubSeq(@, i + 1, Len(@))]

\* preemptable, and the test of pick_next: coop is its need_ctx.
Eligible(T, t, coop) ==
    /\ T[t].state = "Ready"
    /\ \/ T[t].frame_valid
       \/ T[t].ctx_valid /\ (coop \/ T[t].woken)

StillReady(T, q) == Those(q, {t \in Tid : T[t].state = "Ready"})

\* pick_next: the first eligible thread of the highest level that has one;
\* those before it go to the tail, entries that are not Ready are dropped.
PickNext(T, Q, h, coop) ==
    LET hits(l) == {i \in DOMAIN Q[h][l] : Eligible(T, Q[h][l][i], coop)}
        lvls == {l \in Level : hits(l) # {}}
        lvl  == Least(lvls)
        q    == Q[h][lvl]
        i    == Least(hits(lvl))
        rest == SubSeq(q, i + 1, Len(q)) \o StillReady(T, SubSeq(q, 1, i - 1))
    IN  IF lvls = {}
        THEN [id |-> IF T[current[h]].state = "Running" THEN current[h]
                                                        ELSE Idle(h),
              th |-> T,
              ready |-> [Q EXCEPT ![h] = [l \in Level |->
                                            StillReady(T, Q[h][l])]]]
        ELSE [id |-> q[i],
              th |-> Dispatched(T, q[i]),
              ready |-> [Q EXCEPT ![h] = [l \in Level |->
                            IF l < lvl THEN StillReady(T, Q[h][l])
                            ELSE IF l = lvl THEN rest ELSE Q[h][l]]]]

-----------------------------------------------------------------------------
(* Switching *)

\* A new time slice begins.
ResetTicks(h) == Set(ticks_run, h, 0)

\* The end of yield_, block_current, exit and their trap versions: pick the
\* next thread and leave the lock with a SwitchTarget, interrupts off.
Reschedule(h, T, Q) ==
    \E p \in {PickNext(T, Q, h, TRUE)} :
    /\ th' = p.th /\ ready' = p.ready
    /\ current' = Set(current, h, p.id)
    /\ ticks_run' = ResetTicks(h)
    /\ sw' = Set(sw, h, [old |-> current[h], new |-> p.id,
                         frame |-> ~p.th[p.id].ctx_valid])
    /\ sie' = sie \ {h}

\* Hart h goes on with the program of t, from one of its two records.
\* A context resumes with interrupts off; yield_ and thread_entry turn them
\* on at once, block_current at its end and secondary_idle never.
Resume(h, t, how, F) ==
    /\ cpu' = Set(cpu, h, t)
    /\ fresh' = Set(F, t, {})
    /\ stale' = IF how \in F[t] THEN stale ELSE stale \cup {t}
    /\ sie' = IF how = "frame" \/ pc[t] \notin {"post", "loop"}
              THEN sie \cup {h} ELSE sie \ {h}

\* do_switch: context_switch or frame_restore, both save the old context
\* first.  The context of a user thread is a point it never returns to.
DoSwitch(h) ==
    /\ sw[h] # NoSwitch
    /\ LET old == sw[h].old
           F   == [fresh EXCEPT ![old] =
                     IF cpu[h] = old /\ th[old].of.kind = "kernel"
                     THEN @ \cup {"ctx"} ELSE @ \ {"ctx"}]
       IN  Resume(h, sw[h].new, IF sw[h].frame THEN "frame" ELSE "ctx", F)
    /\ sw' = Set(sw, h, NoSwitch)
    /\ reaper' = IF h \in reaper THEN (reaper \ {h}) \cup {Quiet} ELSE reaper
    /\ UNCHANGED <<boot, donations, th, ready, current, ticks_run, free_slots,
                   killReq, ipi, reg, pc, alive, dying, spawns, freed>>

\* The interrupt handlers resume a frame; a context is expanded into one.
SwitchFromIsr(h, T, next, F) ==
    LET expand == ~T[next].frame_valid
    IN  /\ th' = IF expand
                 THEN [T EXCEPT ![next].frame_valid = TRUE,
                                ![next].ctx_valid = FALSE,
                                ![next].woken = FALSE]
                 ELSE T
        /\ current' = Set(current, h, next)
        /\ sw' = Set(sw, h, NoSwitch)
        /\ Resume(h, next, "frame",
                  IF expand THEN [F EXCEPT ![next] =
                                    IF "ctx" \in @ THEN {"frame"} ELSE {}]
                            ELSE F)

-----------------------------------------------------------------------------
(* What a hart can be doing *)

\* The program of the current thread runs, outside any section.
Runs(h) == h \in Online /\ sw[h] = NoSwitch /\ cpu[h] = current[h] /\ h \notin dying

\* It is kernel code that may call the scheduler: a thread's own, or the
\* boot tests, which run on the idle thread of the boot hart.
Acts(h) ==
    Runs(h) /\ th[current[h]].of.kind = "kernel"
            /\ pc[current[h]] \in {"run", "tests"}

\* The same, in a thread that may block and exit.
OwnThread(h) == Acts(h) /\ pc[current[h]] = "run"

InUser(h) ==
    Runs(h) /\ th[current[h]].of.kind = "user" /\ pc[current[h]] = "run"

-----------------------------------------------------------------------------
(* Kernel threads *)

\* thread_entry: the initial frame is used up.
ThreadEntry(h) ==
    /\ Runs(h) /\ pc[current[h]] = "entry"
    /\ th' = [th EXCEPT ![current[h]].frame_valid = FALSE]
    /\ pc' = Set(pc, current[h], "run")
    /\ UNCHANGED <<boot, donations, ready, current, ticks_run, free_slots, reaper,
                   killReq, ipi, reg, alive, dying, sie, sw, spawns, cpu, fresh,
                   stale, freed>>

Drain ==
    /\ reaper' = {}
    /\ freed' = freed \cup (reaper \ {Quiet})

Yield(h) ==
    /\ Acts(h)
    /\ LET cur == current[h]
           T   == Saved(th, cur)
       IN  Reschedule(h, Readied(T, cur), Push(T, ready, donations, cur))
    /\ Drain
    /\ UNCHANGED <<boot, donations, free_slots, killReq, ipi, reg, pc, alive, dying,
                   spawns, cpu, fresh, stale>>

\* Mutex::lock and Condvar::wait put the thread in a wait queue first.
Register(h) ==
    /\ OwnThread(h)
    /\ reg' = reg \cup {current[h]}
    /\ pc' = Set(pc, current[h], "wait")
    /\ UNCHANGED <<boot, donations, th, ready, current, ticks_run, free_slots,
                   reaper, killReq, ipi, alive, dying, sie, sw, spawns, cpu, fresh,
                   stale, freed>>

\* block_current, when the wake-up came first: go on.
BlockSkipped(h) ==
    /\ Runs(h) /\ pc[current[h]] = "wait"
    /\ LET cur == current[h] IN
         /\ th[cur].state = "Ready" \/ th[cur].woken
         /\ th' = [th EXCEPT ![cur].state = "Running", ![cur].woken = FALSE]
         /\ ready' = IF th[cur].state = "Ready" THEN RemoveFromReady(ready, cur)
                                                ELSE ready
         /\ pc' = Set(pc, cur, "run")
    /\ UNCHANGED <<boot, donations, current, ticks_run, free_slots, reaper, killReq,
                   ipi, reg, alive, dying, sie, sw, spawns, cpu, fresh, stale,
                   freed>>

\* Mutant: woken is not looked at before blocking.
BlockCurrentUnchecked(h) ==
    /\ Runs(h) /\ pc[current[h]] = "wait"
    /\ LET cur == current[h] IN
         /\ Reschedule(h, [Saved(th, cur) EXCEPT ![cur].state = "Blocked"], ready)
         /\ pc' = Set(pc, cur, "post")
    /\ UNCHANGED <<boot, donations, free_slots, reaper, killReq, ipi, reg, alive,
                   dying, spawns, cpu, fresh, stale, freed>>

BlockCurrent(h) ==
    /\ Runs(h) /\ pc[current[h]] = "wait"
    /\ LET cur == current[h] IN
         /\ th[cur].state # "Ready" /\ ~th[cur].woken
         /\ Reschedule(h, [Saved(th, cur) EXCEPT ![cur].state = "Blocked"], ready)
         /\ pc' = Set(pc, cur, "post")
    /\ UNCHANGED <<boot, donations, free_slots, reaper, killReq, ipi, reg, alive,
                   dying, spawns, cpu, fresh, stale, freed>>

\* block_current after do_switch: the thread is back.
BlockReturns(h) ==
    /\ Runs(h) /\ pc[current[h]] = "post"
    /\ ready' = RemoveFromReady(ready, current[h])
    /\ th' = [th EXCEPT ![current[h]].woken = FALSE]
    /\ pc' = Set(pc, current[h], "run")
    /\ sie' = sie \cup {h}
    /\ UNCHANGED <<boot, donations, current, ticks_run, free_slots, reaper, killReq,
                   ipi, reg, alive, dying, sw, spawns, cpu, fresh, stale, freed>>

\* wake, by whoever took t out of the wait queue.
Wake(h, t) ==
    /\ Acts(h) /\ t \in reg
    /\ reg' = reg \ {t}
    /\ LET T == [th EXCEPT ![t].woken = TRUE] IN
         IF th[t].state = "Blocked"
         THEN th' = Readied(T, t) /\ ready' = Push(T, ready, donations, t)
         ELSE th' = T /\ UNCHANGED ready
    /\ UNCHANGED <<boot, donations, current, ticks_run, free_slots, reaper, killReq,
                   ipi, pc, alive, dying, sie, sw, spawns, cpu, fresh, stale, freed>>


\* exit: the slot and the stack are given away, then the hart switches.
Exit(h) ==
    /\ OwnThread(h)
    /\ LET cur == current[h] IN
         /\ Reschedule(h, [Saved(th, cur) EXCEPT ![cur].state = "Exited"], ready)
         /\ free_slots' = Append(free_slots, cur)
    /\ reaper' = reaper \cup {h}
    /\ UNCHANGED <<boot, donations, killReq, ipi, reg, pc, alive, dying, spawns, cpu,
                   fresh, stale, freed>>

NewThread(of, prio, h) ==
    [state |-> "Ready", prio |-> prio, hart |-> h, of |-> of,
     ctx_valid |-> of.kind = "kernel", frame_valid |-> TRUE, woken |-> FALSE,
     ipc_wake |-> FALSE]

NewFresh(of) == IF of.kind = "kernel" THEN {"ctx", "frame"} ELSE {"frame"}
NewPc(of)    == IF of.kind = "kernel" THEN "entry" ELSE "run"

\* Mutant: the slot stays in the pool.
TakenSlotStays == free_slots

\* free_slots.pop_front.
SlotsLeft == IF free_slots # <<>> THEN Tail(free_slots) ELSE <<>>

\* spawn and spawn_user: on the caller's hart, in a reused slot if any.  A
\* hart still on its way out of that slot's last thread now runs a program
\* that is in no TCB.
Spawn(h, of, prio) ==
    /\ Acts(h) /\ spawns < boot.spawns
    /\ of.proc \in alive \cup {None}
    /\ LET absent == {t \in Tid : th[t].state = "Absent"} IN
         /\ free_slots # <<>> \/ absent # {}
         /\ LET id == IF free_slots # <<>> THEN Head(free_slots)
                                           ELSE Least(absent)
                T  == Set(th, id, NewThread(of, prio, h))
            IN  /\ th' = T /\ ready' = Push(T, ready, donations, id)
                /\ killReq' = killReq \ {id}
                /\ pc' = Set(pc, id, NewPc(of))
                /\ fresh' = Set(fresh, id, NewFresh(of))
                /\ cpu' = [g \in Hart |-> IF cpu[g] = id THEN None ELSE cpu[g]]
    /\ free_slots' = SlotsLeft
    /\ spawns' = spawns + 1
    /\ UNCHANGED <<boot, donations, current, ticks_run, reaper, ipi, alive, reg,
                   dying, sie, sw, stale, freed>>

\* Mutant: a running thread is moved as well.
SetAffinityOfRunning(h, t, g) ==
    /\ Acts(h) /\ g \in Online \ {h} /\ t # Idle(h) /\ th[t].hart = h
    /\ th[t].state \in {"Ready", "Blocked", "Running"}
    /\ LET T == [th EXCEPT ![t].hart = g] IN
         /\ th' = T
         /\ ready' = IF th[t].state = "Ready"
                     THEN Push(T, RemoveFromReady(ready, t), donations, t) ELSE ready
    /\ UNCHANGED <<boot, donations, current, ticks_run, free_slots, reaper, killReq,
                   ipi, reg, pc, alive, dying, sie, sw, spawns, cpu, fresh, stale,
                   freed>>

\* Mutant: the entry in the old queue is left behind.
SetAffinityKeepsEntry(h, t, g) ==
    /\ Acts(h) /\ g \in Online \ {h} /\ t # Idle(h) /\ th[t].hart = h
    /\ th[t].state \in {"Ready", "Blocked"}
    /\ LET T == [th EXCEPT ![t].hart = g] IN
         /\ th' = T
         /\ ready' = IF th[t].state = "Ready"
                     THEN Push(T, ready, donations, t) ELSE ready
    /\ UNCHANGED <<boot, donations, current, ticks_run, free_slots, reaper, killReq,
                   ipi, reg, pc, alive, dying, sie, sw, spawns, cpu, fresh, stale,
                   freed>>

\* set_affinity, as the code uses it: on a thread of the caller's own hart.
SetAffinity(h, t, g) ==
    /\ Acts(h) /\ g \in Online \ {h} /\ t # Idle(h) /\ th[t].hart = h
    /\ th[t].state \in {"Ready", "Blocked"}
    /\ LET T == [th EXCEPT ![t].hart = g] IN
         /\ th' = T
         /\ ready' = IF th[t].state = "Ready"
                     THEN Push(T, RemoveFromReady(ready, t), donations, t) ELSE ready
    /\ UNCHANGED <<boot, donations, current, ticks_run, free_slots, reaper, killReq,
                   ipi, reg, pc, alive, dying, sie, sw, spawns, cpu, fresh, stale,
                   freed>>

-----------------------------------------------------------------------------
(* User threads: traps, with interrupts off *)

\* requeue_proc_threads: the ready threads of process p leave their queues, in
\* the order of harts and levels, and each is queued again.
Requeue(T, Q, D, p) ==
    LET mine     == {t \in Tid : T[t].of.proc = p}
        row(h)   == Joined([l \in Level |-> Those(Q[h][l], mine)], PRIO_LEVELS)
        buf      == Joined([h \in Hart |-> row(h)], Harts)
        to(h, l) == {t \in Tid : T[t].hart = h /\ EffPrio(T, D, t) = l}
    IN  [h \in Hart |-> [l \in Level |->
            Those(Q[h][l], Tid \ mine) \o Those(buf, to(h, l))]]

\* The same for several processes, in turn.
RequeueAll(T, Q, D, procs) ==
    LET after[i \in 0..Len(procs)] ==
            IF i = 0 THEN Q ELSE Requeue(T, after[i - 1], D, procs[i])
    IN  after[Len(procs)]

Distinct(s) == Only(s, {i \in DOMAIN s : \A j \in 1..(i - 1) : s[j] # s[i]})

\* revoke_donations_of: what is left of the table without these donors, and the
\* processes that had the priority lent to them.
Kept(donors) == Those(donations, {d \in Donation : d.donor \notin donors})
Lent(donors) ==
    LET gone == Those(donations, {d \in Donation : d.donor \in donors})
    IN  Distinct([i \in DOMAIN gone |-> gone[i].peer])

\* send or recv found no partner: the call is in the table of ipc.rs, where
\* other harts see it.
EnterIpc(h) ==
    /\ InUser(h)
    /\ pc' = Set(pc, current[h], "pend")
    /\ sie' = sie \ {h}
    /\ UNCHANGED <<boot, donations, th, ready, current, ticks_run, free_slots, reaper,
                   killReq, ipi, reg, alive, dying, sw, spawns, cpu, fresh, stale,
                   freed>>

\* register_donation: one entry per donor, if the table has room.
Registered(cur, p) ==
    LET d == [donor |-> cur, peer |-> p, prio |-> EffPrio(th, donations, cur)]
    IN  IF \E i \in DOMAIN donations : donations[i].donor = cur
        THEN [i \in DOMAIN donations |->
                IF donations[i].donor = cur THEN d ELSE donations[i]]
        ELSE IF Len(donations) < MAX_THREADS THEN Append(donations, d) ELSE donations

\* Mutant: the threads of the peer stay where they are queued.
DonateOnly(h, p) ==
    /\ Runs(h) /\ pc[current[h]] = "pend"
    /\ p \in boot.peers \ {th[current[h]].of.proc}
    /\ donations' = Registered(current[h], p)
    /\ pc' = Set(pc, current[h], "park")
    /\ UNCHANGED <<boot, ready, th, current, ticks_run, free_slots, reaper, killReq,
                   ipi, reg, alive, dying, sie, sw, spawns, cpu, fresh, stale, freed>>

\* donate_on_block, when the call names its partner.
DonateOnBlock(h, p) ==
    /\ Runs(h) /\ pc[current[h]] = "pend"
    /\ p \in boot.peers \ {th[current[h]].of.proc}
    /\ donations' = Registered(current[h], p)
    /\ ready' = Requeue(th, ready, Registered(current[h], p), p)
    /\ pc' = Set(pc, current[h], "park")
    /\ UNCHANGED <<boot, th, current, ticks_run, free_slots, reaper, killReq, ipi, reg,
                   alive, dying, sie, sw, spawns, cpu, fresh, stale, freed>>

\* block_user_from_trap: the partner came first and left ipc_wake; go on.
BlockUserSkipped(h) ==
    /\ Runs(h) /\ pc[current[h]] \in {"pend", "park"}
    /\ LET cur == current[h] IN
         /\ th[cur].ipc_wake
         /\ th' = [th EXCEPT ![cur].ipc_wake = FALSE, ![cur].state = "Running"]
         /\ donations' = Kept({cur})
         /\ ready' = RequeueAll(th, ready, Kept({cur}), Lent({cur}))
         /\ pc' = Set(pc, cur, "run")
    /\ sie' = sie \cup {h}
    /\ UNCHANGED <<boot, current, ticks_run, free_slots, reaper, killReq, ipi, reg,
                   alive, dying, sw, spawns, cpu, fresh, stale, freed>>

\* block_user_from_trap: the frame is saved inside the section.
BlockUser(h) ==
    /\ Runs(h) /\ pc[current[h]] \in {"pend", "park"}
    /\ LET cur == current[h] IN
         /\ ~th[cur].ipc_wake
         /\ Reschedule(h, [Captured(th, cur) EXCEPT ![cur].state = "Blocked",
                                                   ![cur].woken = FALSE], ready)
         /\ fresh' = Set(fresh, cur, {"frame"})
         /\ pc' = Set(pc, cur, "run")
    /\ UNCHANGED <<boot, donations, free_slots, reaper, killReq, ipi, reg, alive, dying,
                   spawns, cpu, stale, freed>>

\* ipc_wake_with_msg / _err: a thread that has not blocked yet finds ipc_wake;
\* one that has is queued, and what it lent is taken back.
IpcWake(h, t) ==
    /\ InUser(h) \/ Acts(h)
    /\ th[t].of.kind = "user"
    /\ \/ /\ pc[t] \in {"pend", "park"} /\ ~th[t].ipc_wake
          /\ th' = [th EXCEPT ![t].ipc_wake = TRUE]
          /\ UNCHANGED <<ready, donations>>
       \/ /\ th[t].state = "Blocked"
          /\ LET T == Readied(th, t)
                 Q == Push(T, ready, donations, t)
             IN  /\ th' = T
                 /\ donations' = Kept({t})
                 /\ ready' = RequeueAll(T, Q, Kept({t}), Lent({t}))
    /\ UNCHANGED <<boot, current, ticks_run, free_slots, reaper, killReq, ipi, reg, pc,
                   alive, dying, sie, sw, spawns, cpu, fresh, stale, freed>>

\* exit_from_trap: SYS_EXIT, or the end of kill_current_process.
ExitFromTrap(h) ==
    /\ InUser(h) \/ h \in dying
    /\ LET cur == current[h] IN
         /\ Reschedule(h, [Saved(th, cur) EXCEPT ![cur].state = "Exited"], ready)
         /\ free_slots' = Append(free_slots, cur)
    /\ dying' = dying \ {h}
    /\ alive' = IF h \in dying THEN alive \ {th[current[h]].of.proc} ELSE alive
    /\ UNCHANGED <<boot, donations, reaper, killReq, ipi, reg, pc, spawns, cpu,
                   fresh, stale, freed>>

\* No queue holds a victim any more.
Retain(Q, victims) ==
    [g \in Hart |-> [l \in Level |-> Those(Q[g][l], Tid \ victims)]]

\* revoke_donations_for_proc, then revoke_donations_of: what was lent to p and
\* what its threads lent is void, and the processes at the other end are queued
\* again.
Revoked(T, Q, p, donors) ==
    LET toP       == {d \in Donation : d.peer = p}
        lenders   == Those(donations, toP)
        procs     == [i \in DOMAIN lenders |-> T[lenders[i].donor].of.proc]
        D         == Those(donations, Donation \ toP)
        E         == Those(D, {d \in Donation : d.donor \notin donors})
        borrowers == Those(Lent(donors), Proc \ {p})
    IN  /\ donations' = E
        /\ ready' = RequeueAll(T, RequeueAll(T, Q, D, Those(procs, Proc \ {p})),
                               E, borrowers)

\* kill_process, for a fault of the current thread: mark the others.  The
\* IPI to the hart of a running one may fail.
KillProcess(h) ==
    /\ InUser(h)
    /\ LET cur     == current[h]
           p       == th[cur].of.proc
           victims == {t \in Tid \ {cur} : th[t].state # "Absent"
                                           /\ th[t].of.proc = p}
           force   == {t \in victims : th[t].state = "Running"}
           dead    == victims \ force
           T       == [t \in Tid |->
                         IF t \in dead
                         THEN [th[t] EXCEPT !.state = "Exited",
                                 !.frame_valid = FALSE, !.ctx_valid = FALSE]
                         ELSE th[t]]
       IN  /\ p \in boot.mortal
           /\ th' = T
           /\ Revoked(T, Retain(ready, victims), p, victims \cup {cur})
           /\ free_slots' = free_slots \o InOrder(dead)
           /\ killReq' = killReq \cup force
           /\ \E sent \in SUBSET force :
                ipi' = ipi \cup {th[t].hart : t \in sent}
    /\ dying' = dying \cup {h}
    /\ sie' = sie \ {h}
    /\ UNCHANGED <<boot, current, ticks_run, reaper, alive, reg, pc, sw,
                   spawns, cpu, fresh, stale, freed>>

-----------------------------------------------------------------------------
(* Interrupts *)

\* The few instructions between a section and its do_switch take less than a
\* time slice, so the slice cannot run out among them.
SliceMayEnd(h) == sw[h] = NoSwitch \/ ticks_run[h] + 1 < SLICE_TICKS

\* on_tick: nothing yet, or the current thread is captured and put behind.
Tick(h) ==
    /\ h \in sie /\ SliceMayEnd(h)
    /\ LET cur     == current[h]
           expired == ticks_run[h] + 1 >= SLICE_TICKS
           can(l)  == \E i \in DOMAIN ready[h][l] :
                         /\ ready[h][l][i] # cur
                         /\ Eligible(th, ready[h][l][i], FALSE)
           higher  == \E l \in Level : l < EffPrio(th, donations, cur) /\ can(l)
           other   == \E l \in Level : can(l)
           T       == Captured(th, cur)
           Q       == Push(T, ready, donations, cur)
           F       == Set(fresh, cur, IF cpu[h] = cur THEN {"frame"} ELSE {})
       IN  \/ /\ ~expired /\ ~higher
              /\ ticks_run' = Set(ticks_run, h, ticks_run[h] + 1)
              /\ UNCHANGED <<th, ready, current, sw, cpu, fresh, stale, sie>>
           \/ /\ expired /\ ~other
              /\ ticks_run' = ResetTicks(h)
              /\ UNCHANGED <<th, ready, current, sw, cpu, fresh, stale, sie>>
           \/ /\ (expired \/ higher) /\ other
              /\ ticks_run' = ResetTicks(h)
              /\ \E p \in {PickNext(Readied(T, cur), Q, h, FALSE)} :
                   /\ ready' = p.ready
                   /\ \/ /\ p.id = cur /\ th' = p.th
                         /\ UNCHANGED <<current, sw, cpu, fresh, stale, sie>>
                      \/ /\ p.id # cur
                         /\ SwitchFromIsr(h, p.th, p.id, F)
    /\ UNCHANGED <<boot, donations, free_slots, reaper, killReq, ipi, reg, pc, alive,
                   dying, spawns, freed>>

\* The SSIP handler: force_kill_current, if the request is for this thread.
ForceKill(h) ==
    /\ h \in sie /\ h \in ipi
    /\ ipi' = ipi \ {h}
    /\ LET cur == current[h]
           T   == [th EXCEPT ![cur].state = "Exited",
                             ![cur].frame_valid = FALSE,
                             ![cur].ctx_valid = FALSE, ![cur].woken = FALSE]
           p   == PickNext(T, ready, h, FALSE)
       IN  \/ /\ cur \notin killReq
              /\ UNCHANGED <<th, ready, current, ticks_run, free_slots, killReq,
                             sw, cpu, fresh, stale, sie>>
           \/ /\ cur \in killReq
              /\ killReq' = killReq \ {cur}
              /\ free_slots' = Append(free_slots, cur)
              /\ ticks_run' = ResetTicks(h)
              /\ ready' = p.ready
              /\ SwitchFromIsr(h, p.th, p.id, fresh)
    /\ UNCHANGED <<boot, donations, reaper, reg, pc, alive, dying, spawns, freed>>

-----------------------------------------------------------------------------
(* Idle threads *)

\* One round of secondary_idle.  Only its own section has interrupts off.
SecondaryIdle(h) ==
    /\ h # Boot /\ Runs(h) /\ current[h] = Idle(h)
    /\ LET p == PickNext(th, ready, h, TRUE) IN
         /\ th' = p.th /\ ready' = p.ready
         /\ current' = Set(current, h, p.id)
         /\ ticks_run' = ResetTicks(h)
         /\ sw' = IF p.id = Idle(h) THEN sw
                  ELSE Set(sw, h, [old |-> Idle(h), new |-> p.id,
                                   frame |-> ~p.th[p.id].ctx_valid])
    /\ UNCHANGED <<boot, donations, free_slots, reaper, killReq, ipi, reg, pc, alive,
                   dying, sie, spawns, cpu, fresh, stale, freed>>

\* The boot tests are over: kernel_main enters its idle loop ...
BootDone ==
    /\ Runs(Boot) /\ pc[Idle(Boot)] = "tests" /\ current[Boot] = Idle(Boot)
    /\ pc' = Set(pc, Idle(Boot), "loop")
    /\ UNCHANGED <<boot, donations, th, ready, current, ticks_run, free_slots,
                   reaper, killReq, ipi, reg, alive, dying, sie, sw, spawns, cpu,
                   fresh, stale, freed>>

\* ... which frees stacks and waits for interrupts.
DrainReaper ==
    /\ Runs(Boot) /\ current[Boot] = Idle(Boot) /\ pc[Idle(Boot)] = "loop"
    /\ Drain
    /\ UNCHANGED <<boot, donations, th, ready, current, ticks_run, free_slots,
                   killReq, ipi, reg, pc, alive, dying, sie, sw, spawns, cpu, fresh,
                   stale>>

-----------------------------------------------------------------------------

IdleThread(h) ==
    [state |-> "Running", prio |-> PRIO_LEVELS - 1, hart |-> h,
     of |-> [kind |-> "kernel", proc |-> None],
     ctx_valid |-> TRUE, frame_valid |-> FALSE, woken |-> FALSE, ipc_wake |-> FALSE]

AbsentThread == [IdleThread(Boot) EXCEPT !.state = "Absent"]

\* The boot code's threads, already moved to their harts by set_affinity.
Booted(b) ==
    /\ boot = b
    /\ th = [t \in Tid |->
               IF t \in Hart THEN IdleThread(t)
               ELSE IF t < Harts + Len(b.spawned)
               THEN LET s == b.spawned[t - Harts + 1]
                    IN  NewThread(s.of, s.prio, s.hart)
               ELSE AbsentThread]
    /\ ready = [h \in Hart |-> [l \in Level |->
                  Those([i \in 1..Len(b.spawned) |-> Harts + i - 1],
                        {t \in Tid : th[t].hart = h /\ th[t].prio = l})]]
    /\ current = [h \in Hart |-> Idle(h)]
    /\ ticks_run = [h \in Hart |-> 0]
    /\ free_slots = <<>> /\ donations = <<>> /\ reaper = {} /\ killReq = {} /\ ipi = {}
    /\ alive = Proc /\ reg = {} /\ dying = {} /\ sie = Online /\ spawns = 0
    /\ pc = [t \in Tid |->
               IF t = Idle(Boot) /\ b.tests THEN "tests"
               ELSE IF t \in Hart THEN "loop" ELSE NewPc(th[t].of)]
    /\ sw = [h \in Hart |-> NoSwitch]
    /\ cpu = [h \in Hart |-> Idle(h)]
    /\ fresh = [t \in Tid |-> IF th[t].state = "Ready" THEN NewFresh(th[t].of)
                                                       ELSE {}]
    /\ stale = {} /\ freed = {}

Init == \E b \in Boots : Booted(b)

\* What the code of the current thread of h decides to do.
Calls(h) ==
    \/ Yield(h) \/ Register(h) \/ Exit(h)
    \/ EnterIpc(h) \/ KillProcess(h)
    \/ \E t \in Tid : Wake(h, t) \/ IpcWake(h, t)
    \/ \E of \in Kinds, prio \in Level : Spawn(h, of, prio)
    \/ \E t \in Tid, g \in Hart : SetAffinity(h, t, g)

\* What it does once it is inside the kernel.
Continues(h) ==
    \/ DoSwitch(h) \/ ThreadEntry(h) \/ BlockReturns(h)
    \/ BlockSkipped(h) \/ BlockCurrent(h)
    \/ BlockUserSkipped(h) \/ BlockUser(h)
    \/ \E p \in Proc : DonateOnBlock(h, p)
    \/ SecondaryIdle(h)

Next ==
    \/ \E h \in Hart : \/ Calls(h) \/ Continues(h)
                       \/ ExitFromTrap(h)
                       \/ Tick(h) \/ ForceKill(h)
    \/ BootDone \/ DrainReaper

\* Kernel code runs on and the timer keeps ticking; nothing makes a thread
\* yield, block or exit.
Fairness == \A h \in Hart : WF_vars(Continues(h)) /\ WF_vars(Tick(h))

Spec == Init /\ [][Next]_vars /\ Fairness

-----------------------------------------------------------------------------
(* Properties *)

Places(t) ==
    UNION {{<<h, l, i>> : i \in {j \in DOMAIN ready[h][l] : ready[h][l][j] = t}} :
              h \in Hart, l \in Level}

\* A Ready thread is queued exactly once, on its own hart and at the level of
\* its effective priority, and nothing else is queued (the invariant of
\* Thread::hart, and the debug_assert of pick_next).
QueuesAgree ==
    /\ TypeOK
    /\ \A t \in Tid :
        IF th[t].state = "Ready"
        THEN \E i \in 1..MAX_THREADS :
                Places(t) = {<<th[t].hart, EffPrio(th, donations, t), i>>}
        ELSE Places(t) = {}

\* A hart never turns to a thread while one of higher effective priority waits
\* in its queues: what a blocked thread lends, or takes back, counts at the next
\* switch (Donation: the holder runs at the level of the one that waits for it).
MostUrgentFirst ==
    [][\A h \in Hart, t \in Tid :
          current'[h] # current[h] /\ th'[t].hart = h /\ Eligible(th', t, FALSE) =>
              EffPrio(th', donations', current'[h]) <= EffPrio(th', donations', t)]_vars

\* The current thread of a hart is Running (pick_next: "dispatched is running";
\* a thread still Ready would be picked a second time).
DispatchedRuns == \A h \in Hart : th[current[h]].state = "Running"

\* A thread runs on its own hart and on no other: every hart's current thread
\* is Running and belongs to it, and no other thread but an idle one is
\* Running (D19: a thread only runs on the hart of its affinity).
RunsAtHome ==
    /\ DispatchedRuns
    /\ \A h \in Hart : th[current[h]].hart = h
    /\ \A t \in Tid \ Hart : th[t].state = "Running" => current[th[t].hart] = t

\* Once a thread is off its hart, exactly one of ctx and frame is valid (both for
\* a thread that never ran) and what is valid is up to date.
OneValidRecord ==
    \A t \in Tid \ Hart :
        th[t].state \in {"Ready", "Blocked"} /\ (\A h \in Hart : cpu[h] # t) =>
            /\ th[t].ctx_valid => "ctx" \in fresh[t]
            /\ th[t].frame_valid => "frame" \in fresh[t]
            /\ th[t].ctx_valid \/ th[t].frame_valid
            /\ th[t].ctx_valid /\ th[t].frame_valid => pc[t] = "entry"

\* The resume protocol of the module header: no thread other than an idle one is
\* ever resumed from a context or frame that is not where it stopped (pick_next:
\* "never selects stale data"), as whoever is off its hart has one valid record;
\* and on a single hart this includes the idle thread, which runs the boot tests.
ResumesFresh ==
    /\ stale \subseteq Hart /\ OneValidRecord
    /\ boot.harts = 1 => stale = {}

\* A wake-up is never lost, whether it comes before block_current, between
\* its registration and its section, or after: a kernel thread that is
\* blocked is still in the wait queue of what it waits for.
NoLostWake ==
    \A t \in Tid : th[t].state = "Blocked" /\ th[t].of.kind = "kernel"
                       => t \in reg /\ ~th[t].woken

\* Until a process is killed, free_slots holds each TCB at most once, and only
\* ones whose thread exited (spawn overwrites whatever it finds there).
FreeSlotsAreFree ==
    dying = {} /\ alive = Proc =>
        \A i, j \in DOMAIN free_slots :
            /\ th[free_slots[i]].state = "Exited"
            /\ free_slots[i] = free_slots[j] => i = j


\* A ready thread that preemption may pick does run, even if no other thread
\* of its level ever yields (D22: woken threads are not starved).
PreemptableRuns ==
    \A t \in Tid : Eligible(th, t, FALSE) ~> (th[t].state # "Ready")

\* Module header, time slices: a thread that does not yield within its slice
\* is preempted, so whoever is ready at its level gets to run.
ReadyRuns ==
    \A t \in Tid \ Hart : (th[t].state = "Ready") ~> (th[t].state # "Ready")

=============================================================================
