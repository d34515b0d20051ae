----------------------------- MODULE SyncProofs -----------------------------
(* Proofs about Sync, for any number of threads, any placement and any      *)
(* number of rounds.                                                        *)
EXTENDS Sync, TLAPS

Types ==
    /\ locked \in BOOLEAN
    /\ waiters \in Seq(Thread)
    /\ cv \in Seq(Thread)
    /\ state \in [Thread -> {"Running", "Blocked", "Ready"}]
    /\ woken \in [Thread -> BOOLEAN]
    /\ pc \in [Thread -> Pcs]
    /\ read \in [Thread -> Nat]
    /\ count \in Nat


\* What popping the front of a queue of waiters leaves, and who it names.
LEMMA RestType ==
    ASSUME NEW q \in Seq(Thread)
    PROVE  /\ Rest(q) \in Seq(Thread)
           /\ q # <<>> => Head(q) \in Thread
           /\ \A u \in Queued(q) : u \in Queued(Rest(q)) \/ (q # <<>> /\ u = Head(q))
<1>1. CASE q = <<>>
  BY <1>1, Zenon DEF Rest, Queued
<1>2. CASE q # <<>>
  <2>1. /\ Head(q) = q[1] /\ Head(q) \in Thread /\ Tail(q) \in Seq(Thread)
        /\ Len(Tail(q)) = Len(q) - 1
        /\ \A i \in 1..Len(q) - 1 : Tail(q)[i] = q[i + 1]
    BY <1>2
  <2>2. ASSUME NEW i \in DOMAIN q, i # 1
        PROVE  q[i] \in Queued(Tail(q))
    <3>1. i - 1 \in DOMAIN Tail(q) /\ Tail(q)[i - 1] = q[i]
      BY <2>1, <2>2
    <3> QED
      BY <3>1, Zenon DEF Queued
  <2> QED
    BY <1>2, <2>1, <2>2, Zenon DEF Rest, Queued
<1> QED
  BY <1>1, <1>2, Zenon

\* wake keeps the scheduler's flags typed, and marks or readies the one it names.
LEMMA WakeType ==
    ASSUME Types, NEW q \in Seq(Thread), WakeFirst(q)
    PROVE  /\ state' \in [Thread -> {"Running", "Blocked", "Ready"}]
           /\ woken' \in [Thread -> BOOLEAN]
           /\ \A u \in Thread : \/ state'[u] = state[u] /\ woken'[u] = woken[u]
                                \/ /\ q # <<>> /\ u = Head(q)
                                   /\ woken'[u]
                                   /\ state'[u] = IF state[u] = "Blocked" THEN "Ready"
                                                  ELSE state[u]
<1>1. q # <<>> => Head(q) \in Thread
  BY RestType, Zenon
<1> QED
  BY <1>1, Zenon DEF WakeFirst, Wake, Types

\* Every step keeps the variables in their types.
LEMMA TypesStep ==
    Types /\ [Next]_vars => Types'
<1> SUFFICES ASSUME Types, [Next]_vars
             PROVE  Types'
  BY Zenon
<1>1. CASE UNCHANGED vars
  BY <1>1, Zenon DEF Types, vars
<1>2. ASSUME NEW t \in Thread, Step(t)
      PROVE  Types'
  <2>1. CASE BlockCurrent(t)
    BY <2>1, Zenon DEF Types, BlockCurrent, Goto, Runs, Pcs, IrqOff
  <2>2. CASE Resume(t)
    BY <2>2, Zenon DEF Types, Resume, Goto, Pcs, IrqOff
  <2>3. CASE Swap(t)
    BY <2>3, Zenon DEF Types, Swap, Goto, Runs, Pcs, IrqOff
  <2>4. CASE Push(t)
    BY <2>4 DEF Types, Push, Goto, Runs, Pcs, IrqOff
  <2>5. CASE Again(t)
    BY <2>5, Zenon DEF Types, Again, Goto, Runs, Pcs, IrqOff
  <2>6. CASE PopBack(t)
    BY <2>6 DEF Types, PopBack, Goto, Runs, Pcs, IrqOff
  <2>7. CASE Unlock(t)
    BY <2>7, Zenon DEF Types, Unlock, Goto, Runs, Pcs, IrqOff
  <2>8. CASE Pop(t)
    <3>1. waiters \in Seq(Thread)
      BY Zenon DEF Types
    <3>2. state' \in [Thread -> {"Running", "Blocked", "Ready"}] /\ woken' \in [Thread -> BOOLEAN]
      BY <2>8, <3>1, WakeType, Zenon DEF Pop
    <3>3. waiters' \in Seq(Thread)
      BY <2>8, <3>1, RestType, Zenon DEF Pop
    <3> QED
      BY <2>8, <3>2, <3>3, Zenon DEF Types, Pop, Goto, Runs, Pcs, IrqOff, AfterUnlock
  <2>9. CASE Wait(t)
    BY <2>9 DEF Types, Wait, Goto, Runs, Pcs, IrqOff
  <2>10. CASE WaitStore(t)
    BY <2>10, Zenon DEF Types, WaitStore, Goto, Runs, Pcs, IrqOff
  <2>11. CASE WaitPop(t)
    <3>1. waiters \in Seq(Thread)
      BY Zenon DEF Types
    <3>2. state' \in [Thread -> {"Running", "Blocked", "Ready"}] /\ woken' \in [Thread -> BOOLEAN]
      BY <2>11, <3>1, WakeType, Zenon DEF WaitPop
    <3>3. waiters' \in Seq(Thread)
      BY <2>11, <3>1, RestType, Zenon DEF WaitPop
    <3> QED
      BY <2>11, <3>2, <3>3, Zenon DEF Types, WaitPop, Goto, Runs, Pcs, IrqOff
  <2>12. CASE NotifyOne(t)
    <3>1. cv \in Seq(Thread)
      BY Zenon DEF Types
    <3>2. state' \in [Thread -> {"Running", "Blocked", "Ready"}] /\ woken' \in [Thread -> BOOLEAN]
      BY <2>12, <3>1, WakeType, Zenon DEF NotifyOne
    <3>3. cv' \in Seq(Thread)
      BY <2>12, <3>1, RestType, Zenon DEF NotifyOne
    <3> QED
      BY <2>12, <3>2, <3>3, Zenon DEF Types, NotifyOne, Goto, Runs, Pcs, IrqOff
  <2>13. CASE NotifyAll(t)
    BY <2>13 DEF Types, NotifyAll, Goto, Runs, Pcs, IrqOff
  <2>14. CASE DropGuard(t)
    BY <2>14, Zenon DEF Types, DropGuard, Goto, Runs, Pcs, IrqOff
  <2>15. CASE IncRead(t)
    BY <2>15, Zenon DEF Types, IncRead, Goto, Runs, Pcs, IrqOff
  <2>16. CASE IncWrite(t)
    BY <2>16 DEF Types, IncWrite, Goto, Runs, Pcs, IrqOff
  <2>17. CASE Produce(t)
    BY <2>17, Zenon DEF Types, Produce, Goto, Runs, Pcs, IrqOff
  <2>18. CASE Consume(t)
    BY <2>18, Zenon DEF Types, Consume, Goto, Runs, Pcs, IrqOff
  <2> QED
    BY <1>2, <2>1, <2>2, <2>3, <2>4, <2>5, <2>6, <2>7, <2>8, <2>9, <2>10, <2>11, <2>12,
       <2>13, <2>14, <2>15, <2>16, <2>17, <2>18, Zenon
       DEF Step
<1> QED
  BY <1>1, <1>2, Zenon DEF Next

\* A step keeps the guard unique.
LEMMA ExclusionStep ==
    Types /\ MutualExclusion /\ [Next]_vars => MutualExclusion'
<1> SUFFICES ASSUME Types, MutualExclusion, [Next]_vars
             PROVE  MutualExclusion'
  BY Zenon
<1>1. CASE UNCHANGED vars
  BY <1>1, Zenon DEF Types, MutualExclusion, Holding, vars
<1>2. ASSUME NEW t \in Thread, Step(t)
      PROVE  MutualExclusion'
  <2>1. CASE BlockCurrent(t)
    BY <2>1 DEF Types, MutualExclusion, Holding, BlockCurrent, Goto, Runs
  <2>2. CASE Resume(t)
    BY <2>2, Zenon DEF Types, MutualExclusion, Holding, Resume, Goto
  <2>3. CASE Swap(t)
    BY <2>3, Zenon DEF Types, MutualExclusion, Holding, Swap, Goto, Runs
  <2>4. CASE Push(t)
    BY <2>4, Zenon DEF Types, MutualExclusion, Holding, Push, Goto, Runs
  <2>5. CASE Again(t)
    BY <2>5, Zenon DEF Types, MutualExclusion, Holding, Again, Goto, Runs
  <2>6. CASE PopBack(t)
    BY <2>6, Zenon DEF Types, MutualExclusion, Holding, PopBack, Goto, Runs
  <2>7. CASE Unlock(t)
    BY <2>7, Zenon DEF Types, MutualExclusion, Holding, Unlock, Goto, Runs
  <2>8. CASE Pop(t)
    BY <2>8
       DEF Types, MutualExclusion, Holding, Pop, Goto, Runs, WakeFirst, Wake, Rest,
           AfterUnlock
  <2>9. CASE Wait(t)
    BY <2>9, Zenon DEF Types, MutualExclusion, Holding, Wait, Goto, Runs
  <2>10. CASE WaitStore(t)
    BY <2>10, Zenon DEF Types, MutualExclusion, Holding, WaitStore, Goto, Runs
  <2>11. CASE WaitPop(t)
    BY <2>11, Zenon
       DEF Types, MutualExclusion, Holding, WaitPop, Goto, Runs, WakeFirst, Wake, Rest
  <2>12. CASE NotifyOne(t)
    BY <2>12, Zenon
       DEF Types, MutualExclusion, Holding, NotifyOne, Goto, Runs, WakeFirst, Wake, Rest
  <2>13. CASE NotifyAll(t)
    BY <2>13, Zenon DEF Types, MutualExclusion, Holding, NotifyAll, Goto, Runs
  <2>14. CASE DropGuard(t)
    BY <2>14, Zenon DEF Types, MutualExclusion, Holding, DropGuard, Goto, Runs
  <2>15. CASE IncRead(t)
    BY <2>15, Zenon DEF Types, MutualExclusion, Holding, IncRead, Goto, Runs
  <2>16. CASE IncWrite(t)
    BY <2>16, Zenon DEF Types, MutualExclusion, Holding, IncWrite, Goto, Runs
  <2>17. CASE Produce(t)
    BY <2>17, Zenon DEF Types, MutualExclusion, Holding, Produce, Goto, Runs
  <2>18. CASE Consume(t)
    BY <2>18, Zenon DEF Types, MutualExclusion, Holding, Consume, Goto, Runs
  <2> QED
    BY <1>2, <2>1, <2>2, <2>3, <2>4, <2>5, <2>6, <2>7, <2>8, <2>9, <2>10, <2>11, <2>12,
       <2>13, <2>14, <2>15, <2>16, <2>17, <2>18, Zenon
       DEF Step
<1> QED
  BY <1>1, <1>2, Zenon DEF Next

\* A thread that is not done has an iteration left, and the rest of the state is
\* what it may be.
Counted ==
    /\ setup \in Setups /\ cvlock \in Thread \cup {None} /\ ready \in BOOLEAN
    /\ todo \in [Thread -> 0..Rounds]
    /\ \A t \in Thread :
          pc[t] \notin {"notify", "broadcast", "drop", "done"} => todo[t] > 0

\* unlock takes the last iteration only where the program goes on to its end.
LEMMA CountedStep ==
    Types /\ Counted /\ [Next]_vars => Counted'
<1> SUFFICES ASSUME Types, Counted, [Next]_vars
             PROVE  Counted'
  BY Zenon
<1> USE ConstantsAssumption DEF Counted, Types, Goto, Runs
<1>1. CASE UNCHANGED vars
  BY <1>1, Zenon DEF vars
<1>2. ASSUME NEW t \in Thread, Step(t)
      PROVE  Counted'
  <2>1. CASE BlockCurrent(t)
    BY <2>1, Zenon DEF BlockCurrent
  <2>2. CASE Resume(t)
    BY <2>2, Zenon DEF Resume
  <2>3. CASE Swap(t)
    BY <2>3, Zenon DEF Swap
  <2>4. CASE Push(t)
    BY <2>4, Zenon DEF Push
  <2>5. CASE Again(t)
    BY <2>5, Zenon DEF Again
  <2>6. CASE PopBack(t)
    BY <2>6, Zenon DEF PopBack
  <2>7. CASE Unlock(t)
    BY <2>7, Zenon DEF Unlock
  <2>8. CASE Pop(t)
    <3>1. /\ todo' = [todo EXCEPT ![t] = todo[t] - 1] /\ todo[t] > 0
          /\ pc' = [pc EXCEPT ![t] = AfterUnlock(t)]
          /\ UNCHANGED <<setup, cvlock, ready>>
      BY <2>8, Zenon DEF Pop
    <3>2. AfterUnlock(t) \in {"notify", "broadcast", "done"}
          \/ (AfterUnlock(t) = "swap" /\ todo[t] > 1)
      BY Zenon DEF AfterUnlock
    <3> QED
      BY <3>1, <3>2
  <2>9. CASE Wait(t)
    BY <2>9, Zenon DEF Wait
  <2>10. CASE WaitStore(t)
    BY <2>10, Zenon DEF WaitStore
  <2>11. CASE WaitPop(t)
    BY <2>11, Zenon DEF WaitPop
  <2>12. CASE NotifyOne(t)
    BY <2>12, Zenon DEF NotifyOne
  <2>13. CASE NotifyAll(t)
    BY <2>13, Zenon DEF NotifyAll
  <2>14. CASE DropGuard(t)
    BY <2>14, Zenon DEF DropGuard
  <2>15. CASE IncRead(t)
    BY <2>15, Zenon DEF IncRead
  <2>16. CASE IncWrite(t)
    BY <2>16, Zenon DEF IncWrite
  <2>17. CASE Produce(t)
    BY <2>17, Zenon DEF Produce
  <2>18. CASE Consume(t)
    BY <2>18, Zenon DEF Consume
  <2> QED
    BY <1>2, <2>1, <2>2, <2>3, <2>4, <2>5, <2>6, <2>7, <2>8, <2>9, <2>10, <2>11, <2>12,
       <2>13, <2>14, <2>15, <2>16, <2>17, <2>18, Zenon
       DEF Step
<1> QED
  BY <1>1, <1>2, Zenon DEF Next

\* What a thread has read of the counter is still its value when it writes.
ReadsAreFresh == \A t \in Thread : pc[t] = "add" => read[t] = count

\* No step writes the counter between a holder's read and its write.
LEMMA FreshStep ==
    Types /\ MutualExclusion /\ ReadsAreFresh /\ [Next]_vars => ReadsAreFresh'
<1> SUFFICES ASSUME Types, MutualExclusion, ReadsAreFresh, [Next]_vars
             PROVE  ReadsAreFresh'
  BY Zenon
<1>1. CASE UNCHANGED vars
  BY <1>1, Zenon DEF Types, MutualExclusion, Holding, ReadsAreFresh, vars
<1>2. ASSUME NEW t \in Thread, Step(t)
      PROVE  ReadsAreFresh'
  <2>1. CASE BlockCurrent(t)
    BY <2>1, Zenon DEF Types, MutualExclusion, Holding, ReadsAreFresh, BlockCurrent, Goto, Runs
  <2>2. CASE Resume(t)
    BY <2>2, Zenon DEF Types, MutualExclusion, Holding, ReadsAreFresh, Resume, Goto
  <2>3. CASE Swap(t)
    BY <2>3, Zenon DEF Types, MutualExclusion, Holding, ReadsAreFresh, Swap, Goto, Runs
  <2>4. CASE Push(t)
    BY <2>4, Zenon DEF Types, MutualExclusion, Holding, ReadsAreFresh, Push, Goto, Runs
  <2>5. CASE Again(t)
    BY <2>5, Zenon DEF Types, MutualExclusion, Holding, ReadsAreFresh, Again, Goto, Runs
  <2>6. CASE PopBack(t)
    BY <2>6, Zenon DEF Types, MutualExclusion, Holding, ReadsAreFresh, PopBack, Goto, Runs
  <2>7. CASE Unlock(t)
    BY <2>7, Zenon DEF Types, MutualExclusion, Holding, ReadsAreFresh, Unlock, Goto, Runs
  <2>8. CASE Pop(t)
    BY <2>8, Zenon
       DEF Types, MutualExclusion, Holding, ReadsAreFresh, Pop, Goto, Runs, WakeFirst,
           Wake, Rest, AfterUnlock
  <2>9. CASE Wait(t)
    BY <2>9, Zenon DEF Types, MutualExclusion, Holding, ReadsAreFresh, Wait, Goto, Runs
  <2>10. CASE WaitStore(t)
    BY <2>10, Zenon DEF Types, MutualExclusion, Holding, ReadsAreFresh, WaitStore, Goto, Runs
  <2>11. CASE WaitPop(t)
    BY <2>11, Zenon
       DEF Types, MutualExclusion, Holding, ReadsAreFresh, WaitPop, Goto, Runs,
           WakeFirst, Wake, Rest
  <2>12. CASE NotifyOne(t)
    BY <2>12, Zenon
       DEF Types, MutualExclusion, Holding, ReadsAreFresh, NotifyOne, Goto, Runs,
           WakeFirst, Wake, Rest
  <2>13. CASE NotifyAll(t)
    BY <2>13, Zenon DEF Types, MutualExclusion, Holding, ReadsAreFresh, NotifyAll, Goto, Runs
  <2>14. CASE DropGuard(t)
    BY <2>14, Zenon DEF Types, MutualExclusion, Holding, ReadsAreFresh, DropGuard, Goto, Runs
  <2>15. CASE IncRead(t)
    BY <2>15, Zenon DEF Types, MutualExclusion, Holding, ReadsAreFresh, IncRead, Goto, Runs
  <2>16. CASE IncWrite(t)
    BY <2>16, Zenon DEF Types, MutualExclusion, Holding, ReadsAreFresh, IncWrite, Goto, Runs
  <2>17. CASE Produce(t)
    BY <2>17, Zenon DEF Types, MutualExclusion, Holding, ReadsAreFresh, Produce, Goto, Runs
  <2>18. CASE Consume(t)
    BY <2>18, Zenon DEF Types, MutualExclusion, Holding, ReadsAreFresh, Consume, Goto, Runs
  <2> QED
    BY <1>2, <2>1, <2>2, <2>3, <2>4, <2>5, <2>6, <2>7, <2>8, <2>9, <2>10, <2>11, <2>12,
       <2>13, <2>14, <2>15, <2>16, <2>17, <2>18, Zenon
       DEF Step
<1> QED
  BY <1>1, <1>2, Zenon DEF Next

\* On one hart the mutex stays taken from the failed first attempt to the second.
StillLocked ==
    OneHart => \A t \in Thread : /\ pc[t] \in {"push", "again"} => locked
                                 /\ pc[t] # "back"

\* On one hart no step clears the flag while a thread is between its two attempts.
LEMMA LockedStep ==
    Types /\ StillLocked /\ [Next]_vars => StillLocked'
<1> SUFFICES ASSUME Types, StillLocked, [Next]_vars
             PROVE  StillLocked'
  BY Zenon
<1>1. CASE UNCHANGED vars
  BY <1>1, Zenon DEF Types, StillLocked, OneHart, home, vars
<1>2. ASSUME NEW t \in Thread, Step(t)
      PROVE  StillLocked'
  <2>1. CASE BlockCurrent(t)
    BY <2>1 DEF Types, StillLocked, OneHart, home, BlockCurrent, Goto, Runs, IrqOff
  <2>2. CASE Resume(t)
    BY <2>2, Zenon DEF Types, StillLocked, OneHart, home, Resume, Goto, IrqOff
  <2>3. CASE Swap(t)
    BY <2>3, Zenon DEF Types, StillLocked, OneHart, home, Swap, Goto, Runs, IrqOff
  <2>4. CASE Push(t)
    BY <2>4, Zenon DEF Types, StillLocked, OneHart, home, Push, Goto, Runs, IrqOff
  <2>5. CASE Again(t)
    BY <2>5, Zenon DEF Types, StillLocked, OneHart, home, Again, Goto, Runs, IrqOff
  <2>6. CASE PopBack(t)
    BY <2>6, Zenon DEF Types, StillLocked, OneHart, home, PopBack, Goto, Runs, IrqOff
  <2>7. CASE Unlock(t)
    BY <2>7, Zenon DEF Types, StillLocked, OneHart, home, Unlock, Goto, Runs, IrqOff
  <2>8. CASE Pop(t)
    BY <2>8, Zenon
       DEF Types, StillLocked, OneHart, home, Pop, Goto, Runs, WakeFirst, Wake, Rest,
           AfterUnlock, IrqOff
  <2>9. CASE Wait(t)
    BY <2>9, Zenon DEF Types, StillLocked, OneHart, home, Wait, Goto, Runs, IrqOff
  <2>10. CASE WaitStore(t)
    BY <2>10, Zenon DEF Types, StillLocked, OneHart, home, WaitStore, Goto, Runs, IrqOff
  <2>11. CASE WaitPop(t)
    BY <2>11, Zenon
       DEF Types, StillLocked, OneHart, home, WaitPop, Goto, Runs, WakeFirst, Wake,
           Rest, IrqOff
  <2>12. CASE NotifyOne(t)
    BY <2>12, Zenon
       DEF Types, StillLocked, OneHart, home, NotifyOne, Goto, Runs, WakeFirst, Wake,
           Rest, IrqOff
  <2>13. CASE NotifyAll(t)
    BY <2>13, Zenon DEF Types, StillLocked, OneHart, home, NotifyAll, Goto, Runs, IrqOff
  <2>14. CASE DropGuard(t)
    BY <2>14, Zenon DEF Types, StillLocked, OneHart, home, DropGuard, Goto, Runs, IrqOff
  <2>15. CASE IncRead(t)
    BY <2>15, Zenon DEF Types, StillLocked, OneHart, home, IncRead, Goto, Runs, IrqOff
  <2>16. CASE IncWrite(t)
    BY <2>16, Zenon DEF Types, StillLocked, OneHart, home, IncWrite, Goto, Runs, IrqOff
  <2>17. CASE Produce(t)
    BY <2>17, Zenon DEF Types, StillLocked, OneHart, home, Produce, Goto, Runs, IrqOff
  <2>18. CASE Consume(t)
    BY <2>18, Zenon DEF Types, StillLocked, OneHart, home, Consume, Goto, Runs, IrqOff
  <2> QED
    BY <1>2, <2>1, <2>2, <2>3, <2>4, <2>5, <2>6, <2>7, <2>8, <2>9, <2>10, <2>11, <2>12,
       <2>13, <2>14, <2>15, <2>16, <2>17, <2>18, Zenon
       DEF Step
<1> QED
  BY <1>1, <1>2, Zenon DEF Next

\* On one hart a thread that is asleep, or will sleep without a wake-up, is queued.
Registered ==
    OneHart => \A t \in Thread :
        /\ pc[t] = "again" => t \in Queued(waiters)
        /\ pc[t] \in {"wstore", "wpop"} => t \in Queued(cv)
        /\ state[t] # "Running" => pc[t] = "block"
        /\ pc[t] = "block" /\ (state[t] = "Blocked" \/ (state[t] = "Running" /\ ~woken[t]))
              => t \in Queued(waiters) \cup Queued(cv)

\* Registering adds the thread to the queue and drops nobody.
LEMMA AppendQueued ==
    ASSUME NEW q \in Seq(Thread), NEW t \in Thread
    PROVE  Queued(Append(q, t)) = Queued(q) \cup {t}
<1>1. /\ DOMAIN Append(q, t) = 1..Len(q) + 1
      /\ Append(q, t)[Len(q) + 1] = t
      /\ \A i \in 1..Len(q) : Append(q, t)[i] = q[i]
      /\ DOMAIN q = 1..Len(q)
  OBVIOUS
<1>2. Len(q) + 1 \in DOMAIN Append(q, t) /\ \A i \in DOMAIN q : i \in DOMAIN Append(q, t)
  BY <1>1
<1>3. \A i \in DOMAIN Append(q, t) : i = Len(q) + 1 \/ i \in DOMAIN q
  BY <1>1
<1> QED
  BY <1>1, <1>2, <1>3, Zenon DEF Queued

\* On one hart no step leaves a sleeper unqueued.
LEMMA RegisteredStep ==
    Types /\ StillLocked /\ Registered /\ [Next]_vars => Registered'
<1> SUFFICES ASSUME Types, StillLocked, Registered, [Next]_vars
             PROVE  Registered'
  BY Zenon
<1>1. CASE UNCHANGED vars
  BY <1>1, Zenon DEF Types, StillLocked, Registered, OneHart, home, vars
<1>2. ASSUME NEW t \in Thread, Step(t)
      PROVE  Registered'
  <2>1. CASE BlockCurrent(t)
    BY <2>1 DEF Types, StillLocked, Registered, OneHart, home, BlockCurrent, Goto, Runs, IrqOff
  <2>2. CASE Resume(t)
    BY <2>2, Zenon DEF Types, StillLocked, Registered, OneHart, home, Resume, Goto, IrqOff
  <2>3. CASE Swap(t)
    BY <2>3, Zenon DEF Types, StillLocked, Registered, OneHart, home, Swap, Goto, Runs, IrqOff
  <2>4. CASE Push(t)
    <3>1. Queued(waiters') = Queued(waiters) \cup {t}
      BY <2>4, AppendQueued, Zenon DEF Push, Types
    <3> QED
      BY <2>4, <3>1 DEF Types, Registered, OneHart, home, Push, Goto, Runs
  <2>5. CASE Again(t)
    BY <2>5, Zenon DEF Types, StillLocked, Registered, OneHart, home, Again, Goto, Runs, IrqOff
  <2>6. CASE PopBack(t)
    BY <2>6, Zenon
       DEF Types, StillLocked, Registered, OneHart, home, PopBack, Goto, Runs, IrqOff
  <2>7. CASE Unlock(t)
    BY <2>7, Zenon DEF Types, StillLocked, Registered, OneHart, home, Unlock, Goto, Runs, IrqOff
  <2>8. CASE Pop(t)
    <3>1. waiters \in Seq(Thread) /\ WakeFirst(waiters) /\ waiters' = Rest(waiters)
      BY <2>8, Zenon DEF Pop, Types
    <3>2. \A u \in Thread :
              \/ state'[u] = state[u] /\ woken'[u] = woken[u]
              \/ /\ waiters # <<>> /\ u = Head(waiters)
                 /\ woken'[u]
                 /\ state'[u] = IF state[u] = "Blocked" THEN "Ready" ELSE state[u]
      BY <3>1, WakeType, Zenon
    <3>3. \A u \in Queued(waiters) : u \in Queued(waiters') \/ (u = Head(waiters) /\ waiters # <<>>)
      BY <3>1, RestType, Zenon
    <3>4. \A u \in Thread :
              /\ waiters # <<>> /\ u = Head(waiters) => woken'[u] /\ state'[u] # "Blocked"
              /\ state'[u] # "Running" => state[u] # "Running"
              /\ state'[u] = "Blocked" => state[u] = "Blocked"
              /\ ~woken'[u] => ~woken[u]
              /\ state'[u] = "Running" => state[u] = "Running"
      BY <2>8, <3>1, <3>2, Zenon DEF WakeFirst, Wake, Types
    <3> QED
      BY <2>8, <3>3, <3>4
         DEF Types, Registered, OneHart, home, Pop, Goto, Runs, IrqOff, AfterUnlock
  <2>9. CASE Wait(t)
    <3>1. Queued(cv') = Queued(cv) \cup {t}
      BY <2>9, AppendQueued, Zenon DEF Wait, Types
    <3> QED
      BY <2>9, <3>1, Zenon DEF Types, Registered, OneHart, home, Wait, Goto, Runs
  <2>10. CASE WaitStore(t)
    BY <2>10, Zenon
       DEF Types, StillLocked, Registered, OneHart, home, WaitStore, Goto, Runs, IrqOff
  <2>11. CASE WaitPop(t)
    <3>1. waiters \in Seq(Thread) /\ WakeFirst(waiters) /\ waiters' = Rest(waiters)
      BY <2>11, Zenon DEF WaitPop, Types
    <3>2. \A u \in Thread :
              \/ state'[u] = state[u] /\ woken'[u] = woken[u]
              \/ /\ waiters # <<>> /\ u = Head(waiters)
                 /\ woken'[u]
                 /\ state'[u] = IF state[u] = "Blocked" THEN "Ready" ELSE state[u]
      BY <3>1, WakeType, Zenon
    <3>3. \A u \in Queued(waiters) : u \in Queued(waiters') \/ (u = Head(waiters) /\ waiters # <<>>)
      BY <3>1, RestType, Zenon
    <3>4. \A u \in Thread :
              /\ waiters # <<>> /\ u = Head(waiters) => woken'[u] /\ state'[u] # "Blocked"
              /\ state'[u] # "Running" => state[u] # "Running"
              /\ state'[u] = "Blocked" => state[u] = "Blocked"
              /\ ~woken'[u] => ~woken[u]
              /\ state'[u] = "Running" => state[u] = "Running"
      BY <2>11, <3>1, <3>2, Zenon DEF WakeFirst, Wake, Types
    <3> QED
      BY <2>11, <3>3, <3>4 DEF Types, Registered, OneHart, home, WaitPop, Goto, Runs, IrqOff
  <2>12. CASE NotifyOne(t)
    <3>1. cv \in Seq(Thread) /\ WakeFirst(cv) /\ cv' = Rest(cv)
      BY <2>12, Zenon DEF NotifyOne, Types
    <3>2. \A u \in Thread :
              \/ state'[u] = state[u] /\ woken'[u] = woken[u]
              \/ /\ cv # <<>> /\ u = Head(cv)
                 /\ woken'[u]
                 /\ state'[u] = IF state[u] = "Blocked" THEN "Ready" ELSE state[u]
      BY <3>1, WakeType, Zenon
    <3>3. \A u \in Queued(cv) : u \in Queued(cv') \/ (u = Head(cv) /\ cv # <<>>)
      BY <3>1, RestType, Zenon
    <3>4. \A u \in Thread :
              /\ cv # <<>> /\ u = Head(cv) => woken'[u] /\ state'[u] # "Blocked"
              /\ state'[u] # "Running" => state[u] # "Running"
              /\ state'[u] = "Blocked" => state[u] = "Blocked"
              /\ ~woken'[u] => ~woken[u]
              /\ state'[u] = "Running" => state[u] = "Running"
      BY <2>12, <3>1, <3>2, Zenon DEF WakeFirst, Wake, Types
    <3> QED
      BY <2>12, <3>3, <3>4 DEF Types, Registered, OneHart, home, NotifyOne, Goto, Runs, IrqOff
  <2>13. CASE NotifyAll(t)
    <3>1. \A u \in Thread : u \in Queued(cv) => woken'[u] /\ state'[u] # "Blocked"
      BY <2>13, Zenon DEF NotifyAll, Queued, Types
    <3>2. \A u \in Thread : u \notin Queued(cv) => woken'[u] = woken[u] /\ state'[u] = state[u]
      BY <2>13, Zenon DEF NotifyAll, Queued, Types
    <3>3. \A u \in Thread : state'[u] # "Running" => state[u] # "Running"
      BY <2>13, Zenon DEF NotifyAll, Queued, Types
    <3>4. pc' = [pc EXCEPT ![t] = "drop"] /\ waiters' = waiters /\ home' = home
      BY <2>13, Zenon DEF NotifyAll, Goto, home
    <3>5. \A u \in Thread \ {t} : home[u] = home[t] => pc[u] \notin IrqOff
      BY <2>13, Zenon DEF NotifyAll, Runs
    <3>6. pc[t] = "broadcast"
      BY <2>13, Zenon DEF NotifyAll, Runs
    <3> QED
      BY <3>1, <3>2, <3>3, <3>4, <3>5, <3>6 DEF Types, Registered, OneHart, IrqOff
  <2>14. CASE DropGuard(t)
    BY <2>14, Zenon
       DEF Types, StillLocked, Registered, OneHart, home, DropGuard, Goto, Runs, IrqOff
  <2>15. CASE IncRead(t)
    BY <2>15, Zenon
       DEF Types, StillLocked, Registered, OneHart, home, IncRead, Goto, Runs, IrqOff
  <2>16. CASE IncWrite(t)
    BY <2>16, Zenon
       DEF Types, StillLocked, Registered, OneHart, home, IncWrite, Goto, Runs, IrqOff
  <2>17. CASE Produce(t)
    BY <2>17, Zenon
       DEF Types, StillLocked, Registered, OneHart, home, Produce, Goto, Runs, IrqOff
  <2>18. CASE Consume(t)
    BY <2>18, Zenon
       DEF Types, StillLocked, Registered, OneHart, home, Consume, Goto, Runs, IrqOff
  <2> QED
    BY <1>2, <2>1, <2>2, <2>3, <2>4, <2>5, <2>6, <2>7, <2>8, <2>9, <2>10, <2>11, <2>12,
       <2>13, <2>14, <2>15, <2>16, <2>17, <2>18, Zenon
       DEF Step
<1> QED
  BY <1>1, <1>2, Zenon DEF Next

-----------------------------------------------------------------------------
\* The inductive invariant behind the theorems.
Inv == Types /\ Counted /\ MutualExclusion /\ ReadsAreFresh /\ StillLocked /\ Registered

\* The invariant holds before any thread runs.
LEMMA InitInv == Init => Inv
<1> SUFFICES ASSUME Init PROVE Inv
  BY Zenon
<1>1. /\ state \in [Thread -> {"Running", "Blocked", "Ready"}]
      /\ pc \in [Thread -> Pcs]
      /\ woken \in [Thread -> BOOLEAN]
      /\ read \in [Thread -> Nat]
  BY Zenon DEF Init, Pcs
<1>2. Types
  <2>1. locked \in BOOLEAN
    BY Zenon DEF Init
  <2>2. waiters \in Seq(Thread) /\ cv \in Seq(Thread) /\ count \in Nat
    BY SMT DEF Init
  <2> QED
    BY <1>1, <2>1, <2>2, Zenon DEF Types
<1>3. MutualExclusion /\ ReadsAreFresh /\ StillLocked
  BY Zenon DEF Init, MutualExclusion, Holding, ReadsAreFresh, StillLocked
<1>4. Registered
  BY Zenon DEF Init, Registered
<1>5. Counted
  <2>1. ready \in BOOLEAN
    BY Zenon DEF Init
  <2> QED
    BY <2>1, ConstantsAssumption DEF Init, Counted
<1> QED
  BY <1>2, <1>3, <1>4, <1>5, Zenon DEF Inv

\* Every step keeps the invariant.
LEMMA NextInv == Inv /\ [Next]_vars => Inv'
BY TypesStep, CountedStep, ExclusionStep, FreshStep, LockedStep, RegisteredStep, Zenon DEF Inv

\* The invariant always holds, of any threads on any harts (sync.rs lock, unlock,
\* wait and notify).
THEOREM InvHolds == Spec => []Inv
BY InitInv, NextInv, PTL DEF Spec

\* Every variable of the mutex, the condition variable and their users keeps its
\* type; in particular no program makes one iteration too many.
THEOREM TypeCorrect == Spec => []TypeOK
<1>1. Inv => TypeOK
  BY Zenon DEF Inv, Types, Counted, TypeOK
<1> QED
  BY <1>1, InvHolds, PTL

\* Mutex::lock hands out at most one guard at a time, on any number of harts.
THEOREM ExclusionHolds == Spec => []MutualExclusion
<1>1. Inv => MutualExclusion
  BY Zenon DEF Inv
<1> QED
  BY <1>1, InvHolds, PTL

\* On one hart the defensive branch of Mutex::lock is never taken.
THEOREM SecondSwapFailsHolds == Spec => []SecondSwapFails
<1>1. Inv => SecondSwapFails
  BY Zenon DEF Inv, StillLocked, SecondSwapFails
<1> QED
  BY <1>1, InvHolds, PTL

\* On one hart a thread asleep in lock() or wait() is in a queue that a later
\* unlock or notify pops: no registration is lost.
THEOREM SleepersHold == Spec => []SleepersAreQueued
<1>1. Inv => SleepersAreQueued
  BY Zenon DEF Inv, Types, Registered, SleepersAreQueued
<1> QED
  BY <1>1, InvHolds, PTL

\* No write of the counter comes between a holder's read and its write.
THEOREM ReadsStayFresh == Spec => []ReadsAreFresh
<1>1. Inv => ReadsAreFresh
  BY Zenon DEF Inv
<1> QED
  BY <1>1, InvHolds, PTL
=============================================================================
