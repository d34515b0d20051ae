------------------------------- MODULE Remote -------------------------------
(***************************************************************************)
(* What one hart asks of another (sched.rs, the S-software interrupt of    *)
(* riscv64.rs, the idle loop of a secondary hart):                         *)
(*   - TLB_FLUSH, posted by pages::revoke and shm_revoke after they have   *)
(*     unmapped and freed a page, with a bounded wait for the answer;      *)
(*   - FORCE_KILL, posted by kill_process;                                 *)
(*   - the plain IPI that wakes an idle hart when a thread becomes ready.  *)
(*                                                                         *)
(* One process runs a thread on every hart, in one address space with one  *)
(* mapped page.  A hart's TLB may load the page's translation whenever its *)
(* thread runs, and loses it only by sfence or by a change of satp.  A     *)
(* hart inside the kernel has interrupts off and takes no IPI.             *)
(***************************************************************************)
EXTENDS Integers, FiniteSets

CONSTANTS Hart,      \* the online harts, numbers
          Frame,     \* physical pages
          Deaf,      \* the harts to which sbi::send_ipi may fail
          Victim     \* the harts whose thread may be killed

ASSUME ConstantsAssumption ==
    /\ Hart \subseteq Nat /\ Deaf \subseteq Hart /\ Victim \subseteq Hart
    /\ 0 \notin Frame

VARIABLES
    pte,      \* the frame mapped in the process' page table, or NoFrame
    owned,    \* the frames that the process has from the page allocator
    tlb,      \* tlb[h]: the frames that h's TLB still translates to
    req,      \* REMOTE_REQ[h]
    ssip,     \* whether the software interrupt of h is pending
    mode,     \* where h is, see Modes
    back,     \* where h returns to when its interrupt handler is done
    taken,    \* the request word that h's handler has taken
    frame,    \* the frame that h revokes
    bit,      \* the request that h posts
    todo,     \* the harts that h has still to post to, or to see answer
    to,       \* the hart that h has posted to and has not rung
    sent,     \* whether an IPI of h has gone out
    thr,      \* the state of h's thread
    exposed,  \* frames whose flush was given up: an IPI failed or timed out
    unheard   \* the harts with a request whose IPI failed

job  == <<frame, bit, todo, to, sent>>
vars == <<pte, owned, tlb, req, ssip, mode, back, taken, job, thr, exposed, unheard>>

NoFrame == 0
NoHart  == -1

\* user: the thread runs.  check, idle, wfi: the idle loop at its pick, after a
\* pick that found nothing, and asleep.  ssip, handle: the interrupt handler.
\* unmapped, freed, post, ring, wait: inside revoke and the shootdown.
Modes == {"user", "check", "idle", "wfi", "ssip", "handle",
          "unmapped", "freed", "post", "ring", "wait"}

Job(h, f, b, S) ==
    /\ frame' = [frame EXCEPT ![h] = f]
    /\ bit' = [bit EXCEPT ![h] = b]
    /\ todo' = [todo EXCEPT ![h] = S]
    /\ sent' = [sent EXCEPT ![h] = FALSE]
    /\ UNCHANGED to

NoJob(h) == Job(h, NoFrame, "none", {})

Others(h) == Hart \ {h}

\* the harts are visited in the order of their numbers
IsFirst(g, S) == g \in S /\ \A k \in S : g <= k

Enter(h, m) == mode' = [mode EXCEPT ![h] = m]

\* current[h] == idle[h], whatever h is doing
IsIdle(h) == thr[h] # "running"

-----------------------------------------------------------------------------
(* The process *)

\* the thread of h uses the page: the TLB walks the page table
Touch(h) ==
    /\ mode[h] = "user" /\ pte # NoFrame
    /\ tlb' = [tlb EXCEPT ![h] = @ \cup {pte}]
    /\ UNCHANGED <<pte, owned, req, ssip, mode, back, taken, job, thr, exposed, unheard>>

\* mem_map of a newly allocated page
MapPage(h, f) ==
    /\ mode[h] = "user" /\ pte = NoFrame /\ f \notin owned
    /\ pte' = f
    /\ owned' = owned \cup {f}
    /\ exposed' = exposed \ {f}
    /\ UNCHANGED <<tlb, req, ssip, mode, back, taken, job, thr, unheard>>

\* the thread blocks, or is preempted while another address space is next: the
\* hart goes to its idle loop, and switch_root flushes
Deschedule(h, s) ==
    /\ mode[h] = "user"
    /\ thr' = [thr EXCEPT ![h] = s]
    /\ tlb' = [tlb EXCEPT ![h] = {}]
    /\ Enter(h, "check")
    /\ UNCHANGED <<pte, owned, req, ssip, back, taken, job, exposed, unheard>>

-----------------------------------------------------------------------------
(* revoke: take the record and unmap, free, flush here, flush elsewhere *)

Unmap(h) ==
    /\ mode[h] = "user" /\ pte # NoFrame
    /\ Job(h, pte, "none", {})
    /\ tlb' = [tlb EXCEPT ![h] = @ \ {pte}]
    /\ pte' = NoFrame
    /\ Enter(h, "unmapped")
    /\ UNCHANGED <<owned, req, ssip, back, taken, thr, exposed, unheard>>

FreePage(h) ==
    /\ mode[h] = "unmapped"
    /\ owned' = owned \ {frame[h]}
    /\ Enter(h, "freed")
    /\ UNCHANGED <<pte, tlb, req, ssip, back, taken, job, thr, exposed, unheard>>

LocalFlush(h) ==
    /\ mode[h] = "freed"
    /\ tlb' = [tlb EXCEPT ![h] = {}]
    /\ Job(h, frame[h], "TLB_FLUSH", Others(h))
    /\ Enter(h, "post")
    /\ UNCHANGED <<pte, owned, req, ssip, back, taken, thr, exposed, unheard>>

\* kill_process finds its victim running on g
SendKill(h, g) ==
    /\ mode[h] = "user" /\ g # h /\ g \in Victim /\ thr[g] = "running"
    /\ Job(h, NoFrame, "FORCE_KILL", {g})
    /\ Enter(h, "post")
    /\ UNCHANGED <<pte, owned, tlb, req, ssip, back, taken, thr, exposed, unheard>>

Post(h) ==
    /\ mode[h] = "post"
    /\ \E g \in Hart : /\ IsFirst(g, todo[h])
                       /\ req' = [req EXCEPT ![g] = @ \cup {bit[h]}]
                       /\ todo' = [todo EXCEPT ![h] = @ \ {g}]
                       /\ to' = [to EXCEPT ![h] = g]
    /\ Enter(h, "ring")
    /\ UNCHANGED <<frame, bit, sent, pte, owned, tlb, ssip, back, taken, thr, exposed, unheard>>

Ring(h) ==
    /\ mode[h] = "ring"
    /\ ssip' = [ssip EXCEPT ![to[h]] = TRUE]
    /\ to' = [to EXCEPT ![h] = NoHart]
    /\ sent' = [sent EXCEPT ![h] = TRUE]
    /\ Enter(h, "post")
    /\ UNCHANGED <<frame, bit, todo, pte, owned, tlb, req, back, taken, thr, exposed, unheard>>

\* the bit stays set, the hart is not told
RingFails(h) ==
    /\ mode[h] = "ring" /\ to[h] \in Deaf
    /\ to' = [to EXCEPT ![h] = NoHart]
    /\ unheard' = unheard \cup {to[h]}
    /\ exposed' = exposed \cup ({frame[h]} \ {NoFrame})
    /\ Enter(h, "post")
    /\ UNCHANGED <<frame, bit, todo, sent, pte, owned, tlb, req, ssip, back, taken, thr>>


\* Mutant: the shootdown does not wait for the answers.
PostDoneNoWait(h) ==
    /\ mode[h] = "post" /\ todo[h] = {}
    /\ NoJob(h)
    /\ Enter(h, "user")
    /\ UNCHANGED <<pte, owned, tlb, req, ssip, back, taken, thr, exposed, unheard>>

\* all posted: wait for the answers, when anybody was told and a flush is asked
PostDone(h) ==
    /\ mode[h] = "post" /\ todo[h] = {}
    /\ IF sent[h] /\ bit[h] = "TLB_FLUSH"
       THEN /\ todo' = [todo EXCEPT ![h] = Others(h)]
            /\ Enter(h, "wait")
            /\ UNCHANGED <<frame, bit, to, sent>>
       ELSE /\ NoJob(h)
            /\ Enter(h, "user")
    /\ UNCHANGED <<pte, owned, tlb, req, ssip, back, taken, thr, exposed, unheard>>

\* the polling loop looks at one hart at a time and starts over at a set bit
Poll(h) ==
    /\ mode[h] = "wait"
    /\ \E g \in Hart :
          /\ IsFirst(g, todo[h])
          /\ todo' = [todo EXCEPT ![h] = IF "TLB_FLUSH" \in req[g] THEN Others(h)
                                        ELSE @ \ {g}]
    /\ UNCHANGED <<frame, bit, to, sent, pte, owned, tlb, req, ssip, mode, back, taken,
                   thr, exposed, unheard>>

AllClear(h) ==
    /\ mode[h] = "wait" /\ todo[h] = {}
    /\ NoJob(h)
    /\ Enter(h, "user")
    /\ UNCHANGED <<pte, owned, tlb, req, ssip, back, taken, thr, exposed, unheard>>


\* Mutant: the wait is bounded by the tick count, which interrupts off stop.
TimeoutByTick(h) ==
    /\ mode[h] = "wait" /\ \E g \in Others(h) : "TLB_FLUSH" \in req[g]
    /\ mode[h] \in {"user", "idle", "wfi"}
    /\ exposed' = exposed \cup {frame[h]}
    /\ NoJob(h)
    /\ Enter(h, "user")
    /\ UNCHANGED <<pte, owned, tlb, req, ssip, back, taken, thr, unheard>>

\* 200 ms have passed: the wait is given up with a warning
Timeout(h) ==
    /\ mode[h] = "wait" /\ \E g \in Others(h) : "TLB_FLUSH" \in req[g]
    /\ exposed' = exposed \cup {frame[h]}
    /\ NoJob(h)
    /\ Enter(h, "user")
    /\ UNCHANGED <<pte, owned, tlb, req, ssip, back, taken, thr, unheard>>

-----------------------------------------------------------------------------
(* The software interrupt *)

\* where interrupts are on; the pick of the idle loop is a section of SCHED
Interrupted(h) == mode[h] \in {"user", "idle", "wfi"}

\* the trap clears sip.SSIP; wfi, when it was interrupted, is over
Ssip(h) ==
    /\ ssip[h] /\ Interrupted(h)
    /\ ssip' = [ssip EXCEPT ![h] = FALSE]
    /\ back' = [back EXCEPT ![h] = IF mode[h] = "wfi" THEN "check" ELSE mode[h]]
    /\ Enter(h, "ssip")
    /\ UNCHANGED <<pte, owned, tlb, req, taken, job, thr, exposed, unheard>>

\* take_remote_request: swap(0)
TakeRequest(h) ==
    /\ mode[h] = "ssip"
    /\ taken' = [taken EXCEPT ![h] = req[h]]
    /\ req' = [req EXCEPT ![h] = {}]
    /\ unheard' = unheard \ {h}
    /\ Enter(h, "handle")
    /\ UNCHANGED <<pte, owned, tlb, ssip, back, job, thr, exposed>>


\* Mutant: SSIP is cleared when the request has been served.
HandleThenClear(h) ==
    /\ mode[h] = "handle"
    /\ LET killed == "FORCE_KILL" \in taken[h] /\ thr[h] = "running"
       IN  /\ tlb' = [tlb EXCEPT ![h] = IF "TLB_FLUSH" \in taken[h] \/ killed THEN {} ELSE @]
           /\ thr' = [thr EXCEPT ![h] = IF killed THEN "dead" ELSE @]
           /\ Enter(h, IF killed THEN "check" ELSE back[h])
    /\ ssip' = [ssip EXCEPT ![h] = FALSE]
    /\ taken' = [taken EXCEPT ![h] = {}]
    /\ back' = [back EXCEPT ![h] = "user"]
    /\ UNCHANGED <<pte, owned, req, job, exposed, unheard>>

\* sfence first, then force_kill_current, which also changes satp
Handle(h) ==
    /\ mode[h] = "handle"
    /\ LET killed == "FORCE_KILL" \in taken[h] /\ thr[h] = "running"
       IN  /\ tlb' = [tlb EXCEPT ![h] = IF "TLB_FLUSH" \in taken[h] \/ killed THEN {} ELSE @]
           /\ thr' = [thr EXCEPT ![h] = IF killed THEN "dead" ELSE @]
           /\ Enter(h, IF killed THEN "check" ELSE back[h])
    /\ taken' = [taken EXCEPT ![h] = {}]
    /\ back' = [back EXCEPT ![h] = "user"]
    /\ UNCHANGED <<pte, owned, req, ssip, job, exposed, unheard>>

-----------------------------------------------------------------------------
(* The idle loop *)

\* wake, called by the thread of h: enqueue and IPI in one section of SCHED
Wake(h, g) ==
    /\ mode[h] = "user" /\ g # h /\ thr[g] = "blocked"
    /\ thr' = [thr EXCEPT ![g] = "ready"]
    /\ \/ ssip' = [ssip EXCEPT ![g] = TRUE]
       \/ g \in Deaf /\ UNCHANGED ssip
    /\ UNCHANGED <<pte, owned, tlb, req, mode, back, taken, job, exposed, unheard>>

\* secondary_idle under SCHED: switch to a ready thread, or find none
Pick(h) ==
    /\ mode[h] = "check"
    /\ IF thr[h] = "ready"
       THEN /\ thr' = [thr EXCEPT ![h] = "running"]
            /\ tlb' = [tlb EXCEPT ![h] = {}]
            /\ Enter(h, "user")
       ELSE /\ Enter(h, "idle")
            /\ UNCHANGED <<thr, tlb>>
    /\ UNCHANGED <<pte, owned, req, ssip, back, taken, job, exposed, unheard>>

\* with an interrupt pending wfi is over at once
Wfi(h) ==
    /\ mode[h] = "idle"
    /\ Enter(h, "wfi")
    /\ UNCHANGED <<pte, owned, tlb, req, ssip, back, taken, job, thr, exposed, unheard>>


\* Mutant: a tick that ends wfi leads back to wfi, not to the ready queue.
TickNoPick(h) ==
    /\ mode[h] = "wfi"
    /\ Enter(h, "idle")
    /\ UNCHANGED <<pte, owned, tlb, req, ssip, back, taken, job, thr, exposed, unheard>>

\* the timer ends wfi
Tick(h) ==
    /\ mode[h] = "wfi"
    /\ Enter(h, "check")
    /\ UNCHANGED <<pte, owned, tlb, req, ssip, back, taken, job, thr, exposed, unheard>>

Init ==
    /\ pte = NoFrame
    /\ owned = {}
    /\ tlb = [h \in Hart |-> {}]
    /\ req = [h \in Hart |-> {}]
    /\ ssip = [h \in Hart |-> FALSE]
    /\ thr = [h \in Hart |-> "running"]
    /\ mode = [h \in Hart |-> "user"]
    /\ back = [h \in Hart |-> "user"]
    /\ taken = [h \in Hart |-> {}]
    /\ frame = [h \in Hart |-> NoFrame]
    /\ bit = [h \in Hart |-> "none"]
    /\ todo = [h \in Hart |-> {}]
    /\ to = [h \in Hart |-> NoHart]
    /\ sent = [h \in Hart |-> FALSE]
    /\ exposed = {}
    /\ unheard = {}

Shootdown(h) ==
    \/ FreePage(h) \/ LocalFlush(h) \/ Post(h) \/ Ring(h) \/ RingFails(h) \/ PostDone(h)
    \/ Poll(h) \/ AllClear(h) \/ Timeout(h)

Handler(h) == Ssip(h) \/ TakeRequest(h) \/ Handle(h)

IdleLoop(h) == Pick(h) \/ Wfi(h) \/ Tick(h)

Program(h) ==
    \/ Touch(h) \/ Unmap(h)
    \/ \E f \in Frame : MapPage(h, f)
    \/ \E s \in {"blocked", "ready"} : Deschedule(h, s)
    \/ \E g \in Hart : SendKill(h, g) \/ Wake(h, g)

Next == \E h \in Hart : Program(h) \/ Shootdown(h) \/ Handler(h) \/ IdleLoop(h)

\* Kernel code runs on, a pending interrupt is taken once interrupts are on,
\* the clock that ends the wait does not depend on interrupts, every hart arms
\* its own timer, and a hart that is interrupted again and again still executes
\* the next instruction.  Nothing makes a program do anything.
Spec ==
    /\ Init /\ [][Next]_vars
    /\ \A h \in Hart : /\ WF_vars(FreePage(h) \/ LocalFlush(h) \/ Post(h) \/ Ring(h)
                                    \/ PostDone(h) \/ AllClear(h))
                       /\ WF_vars(Timeout(h)) /\ WF_vars(Poll(h))
                       /\ WF_vars(Handler(h)) /\ WF_vars(Pick(h))
                       /\ SF_vars(Wfi(h)) /\ WF_vars(Tick(h))

-----------------------------------------------------------------------------
(* Properties *)

\* Every variable holds a value of the kind the code gives it, and a hart is in
\* its idle loop exactly when its thread does not run.
TypeOK ==
    /\ pte \in Frame \cup {NoFrame}
    /\ owned \subseteq Frame
    /\ tlb \in [Hart -> SUBSET Frame]
    /\ req \in [Hart -> SUBSET {"TLB_FLUSH", "FORCE_KILL"}]
    /\ taken \in [Hart -> SUBSET {"TLB_FLUSH", "FORCE_KILL"}]
    /\ ssip \in [Hart -> BOOLEAN]
    /\ mode \in [Hart -> Modes]
    /\ thr \in [Hart -> {"running", "ready", "blocked", "dead"}]
    /\ \A h \in Hart : /\ mode[h] \in {"check", "idle", "wfi"} => IsIdle(h)
                       /\ mode[h] = "user" => ~IsIdle(h)

\* No request is stranded: a set bit of REMOTE_REQ has its interrupt pending,
\* or its handler about to take it, or its sender about to ring ("新请求若在 swap
\* 之后到达,由后续 IPI 再触发一次 SSIP 处理", sched.rs 1364-1366), unless the IPI
\* failed.
NoRequestStranded ==
    \A g \in Hart : req[g] # {} =>
        \/ ssip[g] \/ mode[g] = "ssip" \/ g \in unheard
        \/ \E h \in Hart : mode[h] = "ring" /\ to[h] = g

Revoking(f) == \E h \in Hart : frame[h] = f

\* Once revoke has returned, unless it gave up on a hart, no thread that runs
\* user code still reaches the page: the handler acknowledges before its sfence,
\* but returns to user code only after it.
RevokedIsUnreachable ==
    \A h \in Hart : mode[h] = "user" =>
        \A f \in tlb[h] : f \in owned \/ Revoking(f) \/ f \in exposed

\* tlb_shootdown_remote returns, also when two harts wait for each other with
\* interrupts off (the bounded wait of sched.rs 1439-1460).
ShootdownEnds ==
    \A h \in Hart : mode[h] \in {"unmapped", "freed", "post", "ring", "wait"}
                       ~> mode[h] = "user"

\* A thread made ready for an idle hart runs, by the IPI or at the next tick,
\* also when the IPI fails or arrives between the idle loop's pick and wfi.
WokenRuns == \A h \in Hart : thr[h] = "ready" ~> thr[h] # "ready"

\* No thread that runs user code reaches a page that has been freed.
FreedIsUnreachable ==
    \A h \in Hart : mode[h] = "user" => \A f \in tlb[h] : f \in owned

\* A hart sleeps in wfi only while it has nothing to run or an interrupt pending.
SleepsOnlyWithoutWork ==
    \A h \in Hart : mode[h] = "wfi" => thr[h] # "ready" \/ ssip[h]
=============================================================================
