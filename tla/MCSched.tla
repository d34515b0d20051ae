------------------------------ MODULE MCSched ------------------------------
(***************************************************************************)
(* Instances of Sched for TLC: the threads that the boot code has spawned  *)
(* when the model begins.                                                  *)
(***************************************************************************)
EXTENDS Sched

KernelOn(h, prio) ==
    [of |-> [kind |-> "kernel", proc |-> None], prio |-> prio, hart |-> h]
UserOn(h, prio, p) ==
    [of |-> [kind |-> "user", proc |-> p], prio |-> prio, hart |-> h]

\* One hart, during the boot tests; n more threads are spawned.
OneHart(threads, n) ==
    [harts |-> 1, spawned |-> threads, tests |-> TRUE, spawns |-> n, mortal |-> {},
     peers |-> {}]

\* Two harts, after the boot tests or during them.
TwoHarts(threads, tests, peers) ==
    [harts |-> 2, spawned |-> threads, tests |-> tests, spawns |-> 0, mortal |-> Proc,
     peers |-> peers]

\* A kernel and a user thread of one level.
Both == <<KernelOn(0, 0), UserOn(0, 0, 1)>>

\* One hart; or two, with two kernel threads on the second during the boot
\* tests, with a process that has a thread on each, and a kernel thread, after
\* them, or with an urgent process that waits for one of the level below.
Machines == {
    OneHart(Both, 1), OneHart(<<>>, 2),
    TwoHarts(<<KernelOn(1, 1), KernelOn(1, 1)>>, TRUE, {}),
    TwoHarts(<<UserOn(0, 1, 1), UserOn(1, 1, 1), KernelOn(1, 1)>>, FALSE, {}),
    TwoHarts(<<UserOn(0, 0, 2), UserOn(0, 1, 1), KernelOn(1, 1)>>, FALSE, Proc)}

\* One hart, no spawn.
Uniprocessor == {OneHart(Both, 0)}
=============================================================================
