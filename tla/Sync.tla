-------------------------------- MODULE Sync --------------------------------
(***************************************************************************)
(* The blocking mutex and the condition variable of kernel/src/sync.rs,    *)
(* over the scheduler's block_current and wake.                            *)
(*                                                                         *)
(* A step is what no other thread can split: one atomic access to          *)
(* Mutex::locked, or one section under a `waiters` spin lock.  Between     *)
(* irq_save and irq_restore a thread is not preempted on its own hart, so  *)
(* the threads of a hart interleave only outside those regions, and the    *)
(* threads of different harts everywhere.                                  *)
(*                                                                         *)
(* The threads run the programs of sync.rs' own self test: mutex_inc adds  *)
(* to a counter under the mutex, cond_consumer waits for a value,          *)
(* cond_producer sets it and notifies.  A broadcaster is a producer that   *)
(* calls notify_all.  All of them share one mutex and one condition        *)
(* variable.                                                               *)
(***************************************************************************)
EXTENDS Integers, Sequences, FiniteSetsExt

CONSTANTS Thread,
          Setups,   \* the [home, role] assignments to consider: home[t] is the
                    \* hart of thread t, role[t] its program
          Rounds,   \* mutex_inc's number of iterations
          None      \* no thread

ASSUME ConstantsAssumption ==
    /\ Rounds \in Nat \ {0}
    /\ None \notin Thread
    /\ \A s \in Setups : /\ DOMAIN s.home = Thread
                         /\ s.role \in [Thread -> {"inc", "consumer", "producer",
                                                   "broadcaster"}]

VARIABLES
    setup,     \* the assignment of this behaviour; never changes
    locked,    \* Mutex::locked
    waiters,   \* Mutex::waiters
    cv,        \* Condvar::waiters
    cvlock,    \* the holder of the spin lock around Condvar::waiters, where it
               \* is held for longer than one step
    state,     \* ThreadState: Running (on or off a hart), Blocked, Ready
    woken,     \* Thread::woken
    pc, todo,  \* where each thread is, and its iterations left
    count,     \* the value mutex_inc adds to
    read,      \* the value a thread has read of it
    ready      \* the consumer's condition, *g == 42

vars == <<setup, locked, waiters, cv, cvlock, state, woken, pc, todo, count, read, ready>>

home == setup.home
role == setup.role

-----------------------------------------------------------------------------
(* Interrupts and the scheduler *)

IrqOff == {"push", "again", "back", "pop", "wstore", "wpop"}

Runs(t, at) ==
    /\ pc[t] = at
    /\ state[t] = "Running"
    /\ \A u \in Thread \ {t} : home[u] = home[t] => pc[u] \notin IrqOff

Goto(t, next) == pc' = [pc EXCEPT ![t] = next]

\* Mutant: a wake that finds the thread not yet blocked is not recorded.
WakeBlockedOnly(t) ==
    /\ state' = [state EXCEPT ![t] = IF @ = "Blocked" THEN "Ready" ELSE @]
    /\ UNCHANGED woken

Wake(t) ==
    /\ woken' = [woken EXCEPT ![t] = TRUE]
    /\ state' = [state EXCEPT ![t] = IF @ = "Blocked" THEN "Ready" ELSE @]

WakeFirst(queue) ==
    IF queue = <<>> THEN UNCHANGED <<woken, state>> ELSE Wake(Head(queue))

Rest(queue) == IF queue = <<>> THEN <<>> ELSE Tail(queue)

\* a wake that came before the block is consumed; otherwise the thread sleeps
BlockCurrent(t) ==
    /\ Runs(t, "block")
    /\ IF woken[t]
       THEN /\ woken' = [woken EXCEPT ![t] = FALSE]
            /\ Goto(t, "swap")
            /\ UNCHANGED state
       ELSE /\ state' = [state EXCEPT ![t] = "Blocked"]
            /\ UNCHANGED <<woken, pc>>
    /\ UNCHANGED <<setup, locked, waiters, cv, cvlock, todo, count, read, ready>>

\* the second half of block_current: picked again, the thread consumes woken
\* and goes back to Mutex::lock
Resume(t) ==
    /\ pc[t] = "block"
    /\ state[t] = "Ready"
    /\ \A u \in Thread \ {t} : home[u] = home[t] => pc[u] \notin IrqOff
    /\ state' = [state EXCEPT ![t] = "Running"]
    /\ woken' = [woken EXCEPT ![t] = FALSE]
    /\ Goto(t, "swap")
    /\ UNCHANGED <<setup, locked, waiters, cv, cvlock, todo, count, read, ready>>

-----------------------------------------------------------------------------
(* Mutex::lock *)

Swap(t) ==
    /\ Runs(t, "swap")
    /\ locked' = TRUE
    /\ Goto(t, IF locked THEN "push" ELSE "held")
    /\ UNCHANGED <<setup, waiters, cv, cvlock, state, woken, todo, count, read, ready>>

Push(t) ==
    /\ Runs(t, "push")
    /\ waiters' = Append(waiters, t)
    /\ Goto(t, "again")
    /\ UNCHANGED <<setup, locked, cv, cvlock, state, woken, todo, count, read, ready>>

Again(t) ==
    /\ Runs(t, "again")
    /\ locked' = TRUE
    /\ Goto(t, IF locked THEN "block" ELSE "back")
    /\ UNCHANGED <<setup, waiters, cv, cvlock, state, woken, todo, count, read, ready>>

PopBack(t) ==
    /\ Runs(t, "back")
    /\ waiters' = SubSeq(waiters, 1, Len(waiters) - 1)
    /\ Goto(t, "held")
    /\ UNCHANGED <<setup, locked, cv, cvlock, state, woken, todo, count, read, ready>>

(* Mutex::unlock: the flag first, then the head of the queue *)

Unlock(t) ==
    /\ Runs(t, "unlock")
    /\ locked' = FALSE
    /\ Goto(t, "pop")
    /\ UNCHANGED <<setup, waiters, cv, cvlock, state, woken, todo, count, read, ready>>

AfterUnlock(t) ==
    CASE role[t] = "inc" /\ todo[t] > 1 -> "swap"
      [] role[t] = "producer" -> "notify"
      [] role[t] = "broadcaster" -> "broadcast"
      [] OTHER -> "done"

Pop(t) ==
    /\ Runs(t, "pop")
    /\ waiters' = Rest(waiters)
    /\ WakeFirst(waiters)
    /\ Goto(t, AfterUnlock(t))
    /\ todo' = [todo EXCEPT ![t] = @ - 1]
    /\ UNCHANGED <<setup, locked, cv, cvlock, count, read, ready>>

-----------------------------------------------------------------------------
(* Condvar *)

Wait(t) ==
    /\ Runs(t, "wait")
    /\ cvlock = None
    /\ cv' = Append(cv, t)
    /\ Goto(t, "wstore")
    /\ UNCHANGED <<setup, locked, waiters, cvlock, state, woken, todo, count, read, ready>>

WaitStore(t) ==
    /\ Runs(t, "wstore")
    /\ locked' = FALSE
    /\ Goto(t, "wpop")
    /\ UNCHANGED <<setup, waiters, cv, cvlock, state, woken, todo, count, read, ready>>

\* Mutant: the guard is dropped instead of forgotten, a second unlock.
WaitPopDrops(t) ==
    /\ Runs(t, "wpop")
    /\ locked' = FALSE
    /\ waiters' = Rest(waiters)
    /\ WakeFirst(waiters)
    /\ Goto(t, "block")
    /\ UNCHANGED <<setup, cv, cvlock, todo, count, read, ready>>

\* Mutant: wait releases the mutex without waking its next waiter.
WaitPopSilent(t) ==
    /\ Runs(t, "wpop")
    /\ Goto(t, "block")
    /\ UNCHANGED <<setup, locked, waiters, cv, cvlock, state, woken, todo, count, read, ready>>

WaitPop(t) ==
    /\ Runs(t, "wpop")
    /\ waiters' = Rest(waiters)
    /\ WakeFirst(waiters)
    /\ Goto(t, "block")
    /\ UNCHANGED <<setup, locked, cv, cvlock, todo, count, read, ready>>

NotifyOne(t) ==
    /\ Runs(t, "notify")
    /\ cvlock = None
    /\ cv' = Rest(cv)
    /\ WakeFirst(cv)
    /\ Goto(t, "done")
    /\ UNCHANGED <<setup, locked, waiters, cvlock, todo, count, read, ready>>

\* irq_restore runs while the guard of the waiters is alive: the guard is
\* dropped by the next step, with interrupts on
NotifyAll(t) ==
    /\ Runs(t, "broadcast")
    /\ cvlock = None
    /\ cvlock' = t
    /\ cv' = <<>>
    /\ LET W == {cv[i] : i \in DOMAIN cv}
       IN  /\ woken' = [u \in Thread |-> woken[u] \/ u \in W]
           /\ state' = [u \in Thread |-> IF u \in W /\ state[u] = "Blocked"
                                         THEN "Ready" ELSE state[u]]
    /\ Goto(t, "drop")
    /\ UNCHANGED <<setup, locked, waiters, todo, count, read, ready>>

DropGuard(t) ==
    /\ Runs(t, "drop")
    /\ cvlock' = None
    /\ Goto(t, "done")
    /\ UNCHANGED <<setup, locked, waiters, cv, state, woken, todo, count, read, ready>>

-----------------------------------------------------------------------------
(* The programs, while they hold the mutex *)

\* *g += 1, read here and written by the next step
IncRead(t) ==
    /\ Runs(t, "held")
    /\ role[t] = "inc"
    /\ read' = [read EXCEPT ![t] = count]
    /\ Goto(t, "add")
    /\ UNCHANGED <<setup, locked, waiters, cv, cvlock, state, woken, todo, count, ready>>

IncWrite(t) ==
    /\ Runs(t, "add")
    /\ count' = read[t] + 1
    /\ Goto(t, "unlock")
    /\ UNCHANGED <<setup, locked, waiters, cv, cvlock, state, woken, todo, read, ready>>

Produce(t) ==
    /\ Runs(t, "held")
    /\ role[t] \in {"producer", "broadcaster"}
    /\ ready' = TRUE
    /\ Goto(t, "unlock")
    /\ UNCHANGED <<setup, locked, waiters, cv, cvlock, state, woken, todo, count, read>>

Consume(t) ==
    /\ Runs(t, "held")
    /\ role[t] = "consumer"
    /\ Goto(t, IF ready THEN "unlock" ELSE "wait")
    /\ UNCHANGED <<setup, locked, waiters, cv, cvlock, state, woken, todo, count, read, ready>>

Init ==
    /\ setup \in Setups
    /\ locked = FALSE
    /\ waiters = <<>>
    /\ cv = <<>>
    /\ cvlock = None
    /\ state = [t \in Thread |-> "Running"]
    /\ woken = [t \in Thread |-> FALSE]
    /\ pc = [t \in Thread |-> "swap"]
    /\ todo = [t \in Thread |-> IF role[t] = "inc" THEN Rounds ELSE 1]
    /\ count = 0
    /\ read = [t \in Thread |-> 0]
    /\ ready = FALSE

Step(t) ==
    \/ BlockCurrent(t) \/ Resume(t)
    \/ Swap(t) \/ Push(t) \/ Again(t) \/ PopBack(t)
    \/ Unlock(t) \/ Pop(t)
    \/ Wait(t) \/ WaitStore(t) \/ WaitPop(t)
    \/ NotifyOne(t) \/ NotifyAll(t) \/ DropGuard(t)
    \/ IncRead(t) \/ IncWrite(t) \/ Produce(t) \/ Consume(t)

Next == \E t \in Thread : Step(t)

Spec == Init /\ [][Next]_vars

\* the threads of a hart have one priority (PRIO_HIGH in the self test) and are
\* preempted in turn, so a thread that can run again and again does run
FairSpec == Spec /\ \A t \in Thread : SF_vars(Step(t))

-----------------------------------------------------------------------------
(* Properties *)

Queued(queue) == {queue[i] : i \in DOMAIN queue}

Pcs == IrqOff \cup {"swap", "block", "held", "add", "unlock", "wait",
                   "notify", "broadcast", "drop", "done"}

\* Every variable holds a value of the kind the code gives it.
TypeOK ==
    /\ setup \in Setups
    /\ locked \in BOOLEAN
    /\ waiters \in Seq(Thread)
    /\ cv \in Seq(Thread)
    /\ cvlock \in Thread \cup {None}
    /\ state \in [Thread -> {"Running", "Blocked", "Ready"}]
    /\ woken \in [Thread -> BOOLEAN]
    /\ pc \in [Thread -> Pcs]
    /\ todo \in [Thread -> 0..Rounds]
    /\ count \in Nat
    /\ read \in [Thread -> Nat]
    /\ ready \in BOOLEAN

\* The program counters between taking the mutex and clearing `locked`.
Holding == {"back", "held", "add", "unlock", "wait", "wstore"}

\* At most one thread holds a MutexGuard (sync.rs, Mutex::lock and unlock), on
\* any number of harts, through the second swap and Condvar::wait included;
\* and the flag is set exactly while one does.
MutualExclusion ==
    /\ \A t, u \in Thread : pc[t] \in Holding /\ pc[u] \in Holding => t = u
    /\ locked <=> \E t \in Thread : pc[t] \in Holding

\* The counter is the number of completed `*g += 1`.
CounterExact ==
    LET Done(t) == IF role[t] # "inc" THEN 0
                   ELSE Rounds - todo[t] + (IF pc[t] \in {"unlock", "pop"} THEN 1 ELSE 0)
    IN  count = MapThenSumSet(Done, Thread)

OneHart == \A t, u \in Thread : home[t] = home[u]

\* On one hart a thread asleep in lock() or wait() is in the queue its waker will pop
\* (sync.rs: the registration comes before the second attempt, "防错过唤醒").
SleepersAreQueued ==
    OneHart => \A t \in Thread : state[t] = "Blocked" =>
                   t \in Queued(waiters) \cup Queued(cv)

\* On one hart the second attempt of Mutex::lock never succeeds: interrupts are
\* off since the first one failed (comment L12 in Mutex::lock).
SecondSwapFails ==
    OneHart => \A t \in Thread : pc[t] # "back"

\* No increment under the mutex is lost (the self test's "mutex counter mismatch"),
\* and on one hart every thread finishes: no wake-up of the mutex and no notification
\* is lost ("condvar handshake failed" and "contended release deadlock").
Terminates == []CounterExact /\ (OneHart => <>(\A t \in Thread : pc[t] = "done"))

\* A thread that holds a spin lock is not switched out while another thread of
\* its hart spins on that lock with interrupts off.
NoConvoy ==
    \A t, u \in Thread : cvlock = t /\ home[u] = home[t] /\ state[u] = "Running"
                            => pc[u] \notin {"wait", "notify", "broadcast"} \/ u = t
=============================================================================
