---------------------------- MODULE RemoteProofs ----------------------------
(***************************************************************************)
(* Proofs about Remote, for any set of harts and frames, with any IPI that *)
(* may fail.                                                               *)
(***************************************************************************)
EXTENDS Remote, TLAPS

Bits == {"TLB_FLUSH", "FORCE_KILL", "none"}

Types ==
    /\ pte \in Frame \cup {NoFrame}
    /\ owned \subseteq Frame
    /\ tlb \in [Hart -> SUBSET Frame]
    /\ req \in [Hart -> SUBSET Bits]
    /\ ssip \in [Hart -> BOOLEAN]
    /\ mode \in [Hart -> Modes]
    /\ back \in [Hart -> {"user", "check", "idle"}]
    /\ taken \in [Hart -> SUBSET Bits]
    /\ frame \in [Hart -> Frame \cup {NoFrame}]
    /\ bit \in [Hart -> Bits]
    /\ todo \in [Hart -> SUBSET Hart]
    /\ to \in [Hart -> Hart \cup {NoHart}]
    /\ sent \in [Hart -> BOOLEAN]
    /\ thr \in [Hart -> {"running", "ready", "blocked", "dead"}]

Works(h) == mode[h] \in {"unmapped", "freed", "post", "ring", "wait"}

\* A hart has a job exactly while it is inside revoke or kill_process; it works
\* on a frame only to have it flushed, is not its own target, and has no entry
\* for it in its own TLB.
JobsFit ==
    \A h \in Hart :
        /\ ~Works(h) => frame[h] = NoFrame
        /\ mode[h] \in {"unmapped", "freed", "wait"} => frame[h] # NoFrame
        /\ mode[h] \in {"post", "ring"} /\ frame[h] # NoFrame
              => bit[h] = "TLB_FLUSH"
        /\ mode[h] \in {"post", "ring"} /\ bit[h] = "TLB_FLUSH"
              => frame[h] # NoFrame
        /\ mode[h] # "ring" => to[h] = NoHart
        /\ mode[h] = "ring" => to[h] \in Hart
        /\ frame[h] \notin tlb[h]

\* The page table maps only what the process owns, and a page that revoke has
\* unmapped is the process' until it is freed, by that one revoke.
MapsOwned ==
    /\ pte # NoFrame => pte \in owned
    /\ \A h \in Hart : mode[h] = "unmapped" =>
          /\ frame[h] \in owned /\ frame[h] # pte
          /\ \A k \in Hart : mode[k] = "unmapped" /\ frame[k] = frame[h] => k = h

\* h has rung for every hart it has posted to so far, or for at least one.
Good(h) == sent[h] \/ todo[h] \cup ({to[h]} \ {NoHart}) = Others(h)

\* Whether h, which revokes f, has still to have it flushed from g's TLB.
WillFlush(h, f, g) ==
    /\ frame[h] = f /\ h # g
    /\ \/ mode[h] \in {"unmapped", "freed"}
       \/ /\ mode[h] \in {"post", "ring"} /\ Good(h)
          /\ g \in todo[h] \/ "TLB_FLUSH" \in req[g]
       \/ mode[h] = "wait" /\ g \in todo[h] /\ "TLB_FLUSH" \in req[g]

\* The inductive form of RevokedIsUnreachable: a freed page that a TLB still
\* holds, and that was not given up, is about to be flushed by the handler of
\* that hart, or a revoke that has not returned is still to ask for it.
FlushOwed ==
    \A g \in Hart : \A f \in tlb[g] :
        \/ f \in owned \/ f \in exposed
        \/ mode[g] = "handle" /\ "TLB_FLUSH" \in taken[g]
        \/ \E h \in Hart : WillFlush(h, f, g)


\* A hart is in its idle loop exactly when its thread does not run, its handler
\* returns to where the thread is, and only requests are posted and taken.
Fits ==
    \A h \in Hart :
        /\ mode[h] \in {"check", "idle", "wfi"} => thr[h] # "running"
        /\ mode[h] = "user" \/ Works(h) => thr[h] = "running"
        /\ mode[h] \in {"ssip", "handle"} => (back[h] = "user" <=> thr[h] = "running")
        /\ mode[h] \in {"post", "ring"} => bit[h] # "none"
        /\ "none" \notin req[h] /\ "none" \notin taken[h]

\* Every step of a program, a shootdown, a handler or an idle loop keeps the two
\* in agreement.
LEMMA FitsStep ==
    Types /\ Fits /\ [Next]_vars => Fits'
<1> SUFFICES ASSUME Types, Fits, [Next]_vars
             PROVE  Fits'
  BY Zenon
<1> USE DEF Fits, Types, Works, Enter, Modes
<1>1. CASE UNCHANGED vars
  BY <1>1, Zenon DEF job, vars
<1>2. ASSUME NEW h \in Hart, Program(h) \/ Shootdown(h) \/ Handler(h) \/ IdleLoop(h)
      PROVE  Fits'
  <2>1. CASE Touch(h)
    BY <2>1, Zenon DEF Touch, job
  <2>2. CASE Unmap(h)
    BY <2>2, Zenon DEF Unmap, Job, job
  <2>3. ASSUME NEW f \in Frame, MapPage(h, f)
        PROVE  Fits'
    BY <2>3, Zenon DEF MapPage, job
  <2>4. ASSUME NEW s \in {"blocked", "ready"}, Deschedule(h, s)
        PROVE  Fits'
    BY <2>4, Zenon DEF Deschedule, job
  <2>5. ASSUME NEW g \in Hart, SendKill(h, g)
        PROVE  Fits'
    BY <2>5, Zenon DEF SendKill, Job, job
  <2>6. ASSUME NEW g \in Hart, Wake(h, g)
        PROVE  Fits'
    BY <2>6, Zenon DEF Wake, job
  <2>7. CASE FreePage(h)
    BY <2>7, Zenon DEF FreePage, job
  <2>8. CASE LocalFlush(h)
    BY <2>8, Zenon DEF LocalFlush, Job, job
  <2>9. CASE Post(h)
    BY <2>9 DEF Post, job
  <2>10. CASE Ring(h)
    BY <2>10, Zenon DEF Ring, job
  <2>11. CASE RingFails(h)
    BY <2>11, Zenon DEF RingFails, job
  <2>12. CASE PostDone(h)
    BY <2>12 DEF PostDone, NoJob, Job, job
  <2>13. CASE Poll(h)
    BY <2>13, Zenon DEF Poll, job
  <2>14. CASE AllClear(h)
    BY <2>14, Zenon DEF AllClear, NoJob, Job, job
  <2>15. CASE Timeout(h)
    BY <2>15, Zenon DEF Timeout, NoJob, Job, job
  <2>16. CASE Ssip(h)
    BY <2>16, Zenon DEF Ssip, Interrupted, job
  <2>17. CASE TakeRequest(h)
    BY <2>17 DEF TakeRequest, job
  <2>18. CASE Handle(h)
    BY <2>18 DEF Handle, job
  <2>19. CASE Pick(h)
    BY <2>19 DEF Pick, job
  <2>20. CASE Wfi(h)
    BY <2>20, Zenon DEF Wfi, job
  <2>21. CASE Tick(h)
    BY <2>21, Zenon DEF Tick, job
  <2> QED
    BY <1>2, <2>1, <2>2, <2>3, <2>4, <2>5, <2>6, <2>7, <2>8, <2>9, <2>10, <2>11, <2>12,
       <2>13, <2>14, <2>15, <2>16, <2>17, <2>18, <2>19, <2>20, <2>21, Zenon
       DEF Program, Shootdown, Handler, IdleLoop
<1> QED
  BY <1>1, <1>2, Zenon DEF Next

\* Every step keeps the variables in their types.
LEMMA TypesStep ==
    Types /\ [Next]_vars => Types'
<1> SUFFICES ASSUME Types, [Next]_vars
             PROVE  Types'
  BY Zenon
<1>1. CASE UNCHANGED vars
  BY <1>1, Zenon DEF Types, job, vars
<1>2. ASSUME NEW h \in Hart, Program(h) \/ Shootdown(h) \/ Handler(h) \/ IdleLoop(h)
      PROVE  Types'
  <2>1. CASE Touch(h)
    BY <2>1, Zenon DEF Types, job, Touch, Enter, Modes, Bits, NoFrame, NoHart
  <2>2. CASE Unmap(h)
    BY <2>2, Zenon DEF Types, job, Unmap, Enter, Modes, Bits, NoFrame, NoHart, NoJob, Job
  <2>3. ASSUME NEW f \in Frame, MapPage(h, f)
        PROVE  Types'
    BY <2>3, Zenon DEF Types, job, MapPage, Enter, Modes, Bits, NoFrame, NoHart
  <2>4. ASSUME NEW s \in {"blocked", "ready"}, Deschedule(h, s)
        PROVE  Types'
    BY <2>4, Zenon DEF Types, job, Deschedule, Enter, Modes, Bits, NoFrame, NoHart
  <2>5. ASSUME NEW g \in Hart, SendKill(h, g)
        PROVE  Types'
    BY <2>5, Zenon DEF Types, job, SendKill, Enter, Modes, Bits, NoFrame, NoHart, NoJob, Job
  <2>6. ASSUME NEW g \in Hart, Wake(h, g)
        PROVE  Types'
    BY <2>6, Zenon DEF Types, job, Wake, Enter, Modes, Bits, NoFrame, NoHart
  <2>7. CASE FreePage(h)
    BY <2>7, Zenon DEF Types, job, FreePage, Enter, Modes, Bits, NoFrame, NoHart
  <2>8. CASE LocalFlush(h)
    BY <2>8, Zenon
       DEF Types, job, LocalFlush, Enter, Modes, Bits, NoFrame, NoHart, Others, NoJob,
           Job
  <2>9. CASE Post(h)
    BY <2>9 DEF Types, job, Post, Enter, Modes, Bits, NoFrame, NoHart, IsFirst
  <2>10. CASE Ring(h)
    BY <2>10, Zenon DEF Types, job, Ring, Enter, Modes, Bits, NoFrame, NoHart
  <2>11. CASE RingFails(h)
    BY <2>11, Zenon DEF Types, job, RingFails, Enter, Modes, Bits, NoFrame, NoHart
  <2>12. CASE PostDone(h)
    <3>1. CASE sent[h] /\ bit[h] = "TLB_FLUSH"
      <4>1. /\ todo' = [todo EXCEPT ![h] = Hart \ {h}]
            /\ mode' = [mode EXCEPT ![h] = "wait"]
            /\ UNCHANGED <<frame, bit, to, sent, pte, owned, tlb, req, ssip, back, taken, thr>>
        BY <2>12, <3>1, Zenon DEF PostDone, Enter, Others
      <4> QED
        BY <4>1, Zenon DEF Types, Modes
    <3>2. CASE ~(sent[h] /\ bit[h] = "TLB_FLUSH")
      <4>1. /\ NoJob(h)
            /\ mode' = [mode EXCEPT ![h] = "user"]
            /\ UNCHANGED <<pte, owned, tlb, req, ssip, back, taken, thr>>
        BY <2>12, <3>2, Zenon DEF PostDone, Enter
      <4> QED
        BY <4>1, Zenon DEF Types, Modes, Bits, NoFrame, NoJob, Job
    <3> QED
      BY <3>1, <3>2, Zenon
  <2>13. CASE Poll(h)
    BY <2>13 DEF Types, job, Poll, Enter, Modes, Bits, NoFrame, NoHart, Others, IsFirst
  <2>14. CASE AllClear(h)
    BY <2>14, Zenon DEF Types, job, AllClear, Enter, Modes, Bits, NoFrame, NoHart, NoJob, Job
  <2>15. CASE Timeout(h)
    BY <2>15, Zenon
       DEF Types, job, Timeout, Enter, Modes, Bits, NoFrame, NoHart, Others, NoJob, Job
  <2>16. CASE Ssip(h)
    BY <2>16, Zenon DEF Types, job, Ssip, Enter, Modes, Bits, NoFrame, NoHart, Interrupted
  <2>17. CASE TakeRequest(h)
    BY <2>17, Zenon DEF Types, job, TakeRequest, Enter, Modes, Bits, NoFrame, NoHart
  <2>18. CASE Handle(h)
    BY <2>18, Zenon DEF Types, job, Handle, Enter, Modes, Bits, NoFrame, NoHart
  <2>19. CASE Pick(h)
    BY <2>19 DEF Types, job, Pick, Enter, Modes, Bits, NoFrame, NoHart
  <2>20. CASE Wfi(h)
    BY <2>20, Zenon DEF Types, job, Wfi, Enter, Modes, Bits, NoFrame, NoHart
  <2>21. CASE Tick(h)
    BY <2>21, Zenon DEF Types, job, Tick, Enter, Modes, Bits, NoFrame, NoHart
  <2> QED
    BY <1>2, <2>1, <2>2, <2>3, <2>4, <2>5, <2>6, <2>7, <2>8, <2>9, <2>10, <2>11, <2>12,
       <2>13, <2>14, <2>15, <2>16, <2>17, <2>18, <2>19, <2>20, <2>21, Zenon
       DEF Program, Shootdown, Handler, IdleLoop
<1> QED
  BY <1>1, <1>2, Zenon DEF Next

\* Every step keeps the mapped page owned, and the unmapped one until it is freed.
LEMMA MapsStep ==
    Types /\ MapsOwned /\ JobsFit /\ [Next]_vars => MapsOwned'
<1> SUFFICES ASSUME Types, MapsOwned, JobsFit, [Next]_vars
             PROVE  MapsOwned'
  BY Zenon
<1>1. CASE UNCHANGED vars
  BY <1>1, Zenon DEF MapsOwned, Types, job, vars
<1>2. ASSUME NEW h \in Hart, Program(h) \/ Shootdown(h) \/ Handler(h) \/ IdleLoop(h)
      PROVE  MapsOwned'
  <2>1. CASE Touch(h)
    BY <2>1, ConstantsAssumption, Zenon
       DEF MapsOwned, Types, job, Touch, Enter, NoFrame, JobsFit
  <2>2. CASE Unmap(h)
    BY <2>2, ConstantsAssumption, Zenon
       DEF MapsOwned, Types, job, Unmap, Enter, NoFrame, JobsFit, NoJob, Job
  <2>3. ASSUME NEW f \in Frame, MapPage(h, f)
        PROVE  MapsOwned'
    BY <2>3, ConstantsAssumption, Zenon
       DEF MapsOwned, Types, job, MapPage, Enter, NoFrame, JobsFit
  <2>4. ASSUME NEW s \in {"blocked", "ready"}, Deschedule(h, s)
        PROVE  MapsOwned'
    BY <2>4, ConstantsAssumption, Zenon
       DEF MapsOwned, Types, job, Deschedule, Enter, NoFrame, JobsFit
  <2>5. ASSUME NEW g \in Hart, SendKill(h, g)
        PROVE  MapsOwned'
    BY <2>5, ConstantsAssumption
       DEF MapsOwned, Types, job, SendKill, Enter, NoFrame, JobsFit, NoJob, Job
  <2>6. ASSUME NEW g \in Hart, Wake(h, g)
        PROVE  MapsOwned'
    BY <2>6, ConstantsAssumption, Zenon DEF MapsOwned, Types, job, Wake, Enter, NoFrame, JobsFit
  <2>7. CASE FreePage(h)
    BY <2>7, ConstantsAssumption, Zenon
       DEF MapsOwned, Types, job, FreePage, Enter, NoFrame, JobsFit
  <2>8. CASE LocalFlush(h)
    BY <2>8, ConstantsAssumption
       DEF MapsOwned, Types, job, LocalFlush, Enter, NoFrame, JobsFit, Others, NoJob,
           Job
  <2>9. CASE Post(h)
    BY <2>9, ConstantsAssumption
       DEF MapsOwned, Types, job, Post, Enter, NoFrame, JobsFit, IsFirst
  <2>10. CASE Ring(h)
    BY <2>10, ConstantsAssumption, Zenon
       DEF MapsOwned, Types, job, Ring, Enter, NoFrame, JobsFit
  <2>11. CASE RingFails(h)
    BY <2>11, ConstantsAssumption, Zenon
       DEF MapsOwned, Types, job, RingFails, Enter, NoFrame, JobsFit
  <2>12. CASE PostDone(h)
    BY <2>12, ConstantsAssumption
       DEF MapsOwned, Types, job, PostDone, Enter, NoFrame, JobsFit, Others, NoJob, Job
  <2>13. CASE Poll(h)
    BY <2>13, ConstantsAssumption
       DEF MapsOwned, Types, job, Poll, Enter, NoFrame, JobsFit, Others, IsFirst
  <2>14. CASE AllClear(h)
    BY <2>14, ConstantsAssumption
       DEF MapsOwned, Types, job, AllClear, Enter, NoFrame, JobsFit, NoJob, Job
  <2>15. CASE Timeout(h)
    BY <2>15, ConstantsAssumption
       DEF MapsOwned, Types, job, Timeout, Enter, NoFrame, JobsFit, Others, NoJob, Job
  <2>16. CASE Ssip(h)
    BY <2>16, ConstantsAssumption
       DEF MapsOwned, Types, job, Ssip, Enter, NoFrame, JobsFit, Interrupted
  <2>17. CASE TakeRequest(h)
    BY <2>17, ConstantsAssumption, Zenon
       DEF MapsOwned, Types, job, TakeRequest, Enter, NoFrame, JobsFit
  <2>18. CASE Handle(h)
    BY <2>18, ConstantsAssumption, Zenon
       DEF MapsOwned, Types, job, Handle, Enter, NoFrame, JobsFit
  <2>19. CASE Pick(h)
    BY <2>19, ConstantsAssumption DEF MapsOwned, Types, job, Pick, Enter, NoFrame, JobsFit
  <2>20. CASE Wfi(h)
    BY <2>20, ConstantsAssumption, Zenon DEF MapsOwned, Types, job, Wfi, Enter, NoFrame, JobsFit
  <2>21. CASE Tick(h)
    BY <2>21, ConstantsAssumption, Zenon
       DEF MapsOwned, Types, job, Tick, Enter, NoFrame, JobsFit
  <2> QED
    BY <1>2, <2>1, <2>2, <2>3, <2>4, <2>5, <2>6, <2>7, <2>8, <2>9, <2>10, <2>11, <2>12,
       <2>13, <2>14, <2>15, <2>16, <2>17, <2>18, <2>19, <2>20, <2>21, Zenon
       DEF Program, Shootdown, Handler, IdleLoop
<1> QED
  BY <1>1, <1>2, Zenon DEF Next

\* No step strands a request.
LEMMA StrandedStep ==
    Types /\ JobsFit /\ NoRequestStranded /\ [Next]_vars => NoRequestStranded'
<1> SUFFICES ASSUME Types, JobsFit, NoRequestStranded, [Next]_vars
             PROVE  NoRequestStranded'
  BY Zenon
<1>1. CASE UNCHANGED vars
  BY <1>1, Zenon DEF Types, NoRequestStranded, job, vars
<1>2. ASSUME NEW h \in Hart, Program(h) \/ Shootdown(h) \/ Handler(h) \/ IdleLoop(h)
      PROVE  NoRequestStranded'
  <2>1. CASE Touch(h)
    BY <2>1, ConstantsAssumption, Zenon
       DEF Types, NoRequestStranded, job, Touch, Enter, Modes, JobsFit, NoHart
  <2>2. CASE Unmap(h)
    BY <2>2, ConstantsAssumption
       DEF Types, NoRequestStranded, job, Unmap, Enter, Modes, JobsFit, NoHart, NoJob,
           Job
  <2>3. ASSUME NEW f \in Frame, MapPage(h, f)
        PROVE  NoRequestStranded'
    BY <2>3, ConstantsAssumption, Zenon
       DEF Types, NoRequestStranded, job, MapPage, Enter, Modes, JobsFit, NoHart
  <2>4. ASSUME NEW s \in {"blocked", "ready"}, Deschedule(h, s)
        PROVE  NoRequestStranded'
    BY <2>4, ConstantsAssumption
       DEF Types, NoRequestStranded, job, Deschedule, Enter, Modes, JobsFit, NoHart
  <2>5. ASSUME NEW g \in Hart, SendKill(h, g)
        PROVE  NoRequestStranded'
    BY <2>5, ConstantsAssumption
       DEF Types, NoRequestStranded, job, SendKill, Enter, Modes, JobsFit, NoHart,
           NoJob, Job
  <2>6. ASSUME NEW g \in Hart, Wake(h, g)
        PROVE  NoRequestStranded'
    BY <2>6, ConstantsAssumption
       DEF Types, NoRequestStranded, job, Wake, Enter, Modes, JobsFit, NoHart
  <2>7. CASE FreePage(h)
    BY <2>7, ConstantsAssumption
       DEF Types, NoRequestStranded, job, FreePage, Enter, Modes, JobsFit, NoHart
  <2>8. CASE LocalFlush(h)
    BY <2>8, ConstantsAssumption
       DEF Types, NoRequestStranded, job, LocalFlush, Enter, Modes, JobsFit, NoHart,
           Others, NoJob, Job
  <2>9. CASE Post(h)
    <3>1. PICK g \in Hart : /\ req' = [req EXCEPT ![g] = @ \cup {bit[h]}]
                            /\ to' = [to EXCEPT ![h] = g]
      BY <2>9, Zenon DEF Post
    <3>2. mode' = [mode EXCEPT ![h] = "ring"] /\ ssip' = ssip /\ unheard' = unheard
      BY <2>9, Zenon DEF Post, Enter
    <3> SUFFICES ASSUME NEW k \in Hart, req'[k] # {}
                 PROVE  \/ ssip[k] \/ mode'[k] = "ssip" \/ k \in unheard
                        \/ \E i \in Hart : mode'[i] = "ring" /\ to'[i] = k
      BY <3>2, Zenon DEF NoRequestStranded
    <3>3. CASE k = g
      BY <3>1, <3>2, <3>3, Zenon DEF Types
    <3>4. CASE k # g
      BY <2>9, <3>1, <3>2, <3>4 DEF Types, NoRequestStranded, Post
    <3> QED
      BY <3>3, <3>4, Zenon
  <2>10. CASE Ring(h)
    BY <2>10, ConstantsAssumption
       DEF Types, NoRequestStranded, job, Ring, Enter, Modes, JobsFit, NoHart
  <2>11. CASE RingFails(h)
    BY <2>11, ConstantsAssumption
       DEF Types, NoRequestStranded, job, RingFails, Enter, Modes, JobsFit, NoHart
  <2>12. CASE PostDone(h)
    BY <2>12, ConstantsAssumption
       DEF Types, NoRequestStranded, job, PostDone, Enter, Modes, JobsFit, NoHart,
           Others, NoJob, Job
  <2>13. CASE Poll(h)
    BY <2>13, ConstantsAssumption, Zenon
       DEF Types, NoRequestStranded, job, Poll, Enter, Modes, JobsFit, NoHart, Others,
           IsFirst
  <2>14. CASE AllClear(h)
    BY <2>14, ConstantsAssumption
       DEF Types, NoRequestStranded, job, AllClear, Enter, Modes, JobsFit, NoHart,
           NoJob, Job
  <2>15. CASE Timeout(h)
    BY <2>15, Zenon DEF Types, NoRequestStranded, Timeout, Enter, NoJob, Job
  <2>16. CASE Ssip(h)
    BY <2>16, ConstantsAssumption
       DEF Types, NoRequestStranded, job, Ssip, Enter, Modes, JobsFit, NoHart,
           Interrupted
  <2>17. CASE TakeRequest(h)
    BY <2>17, ConstantsAssumption
       DEF Types, NoRequestStranded, job, TakeRequest, Enter, Modes, JobsFit, NoHart
  <2>18. CASE Handle(h)
    BY <2>18, ConstantsAssumption
       DEF Types, NoRequestStranded, job, Handle, Enter, Modes, JobsFit, NoHart
  <2>19. CASE Pick(h)
    BY <2>19, ConstantsAssumption
       DEF Types, NoRequestStranded, job, Pick, Enter, Modes, JobsFit, NoHart
  <2>20. CASE Wfi(h)
    BY <2>20, ConstantsAssumption
       DEF Types, NoRequestStranded, job, Wfi, Enter, Modes, JobsFit, NoHart
  <2>21. CASE Tick(h)
    BY <2>21, ConstantsAssumption
       DEF Types, NoRequestStranded, job, Tick, Enter, Modes, JobsFit, NoHart
  <2> QED
    BY <1>2, <2>1, <2>2, <2>3, <2>4, <2>5, <2>6, <2>7, <2>8, <2>9, <2>10, <2>11, <2>12,
       <2>13, <2>14, <2>15, <2>16, <2>17, <2>18, <2>19, <2>20, <2>21, Zenon
       DEF Program, Shootdown, Handler, IdleLoop
<1> QED
  BY <1>1, <1>2, Zenon DEF Next

\* Every step keeps the jobs fitting.
LEMMA JobsStep ==
    Types /\ JobsFit /\ MapsOwned /\ [Next]_vars => JobsFit'
<1> SUFFICES ASSUME Types, JobsFit, MapsOwned, [Next]_vars
             PROVE  JobsFit'
  BY Zenon
<1>1. CASE UNCHANGED vars
  BY <1>1, Zenon DEF Types, JobsFit, MapsOwned, job, Works, vars
<1>2. ASSUME NEW h \in Hart, Program(h) \/ Shootdown(h) \/ Handler(h) \/ IdleLoop(h)
      PROVE  JobsFit'
  <2>1. CASE Touch(h)
    BY <2>1, ConstantsAssumption, Zenon
       DEF Types, JobsFit, MapsOwned, job, Works, Touch, Enter, Modes, NoFrame, NoHart
  <2>2. CASE Unmap(h)
    BY <2>2, ConstantsAssumption, Zenon
       DEF Types, JobsFit, MapsOwned, job, Works, Unmap, Enter, Modes, NoFrame, NoHart,
           NoJob, Job
  <2>3. ASSUME NEW f \in Frame, MapPage(h, f)
        PROVE  JobsFit'
    BY <2>3, ConstantsAssumption, Zenon
       DEF Types, JobsFit, MapsOwned, job, Works, MapPage, Enter, Modes, NoFrame, NoHart
  <2>4. ASSUME NEW s \in {"blocked", "ready"}, Deschedule(h, s)
        PROVE  JobsFit'
    BY <2>4, ConstantsAssumption, Zenon
       DEF Types, JobsFit, MapsOwned, job, Works, Deschedule, Enter, Modes, NoFrame,
           NoHart
  <2>5. ASSUME NEW g \in Hart, SendKill(h, g)
        PROVE  JobsFit'
    BY <2>5, ConstantsAssumption, Zenon
       DEF Types, JobsFit, MapsOwned, job, Works, SendKill, Enter, Modes, NoFrame,
           NoHart, NoJob, Job
  <2>6. ASSUME NEW g \in Hart, Wake(h, g)
        PROVE  JobsFit'
    BY <2>6, ConstantsAssumption, Zenon
       DEF Types, JobsFit, MapsOwned, job, Works, Wake, Enter, Modes, NoFrame, NoHart
  <2>7. CASE FreePage(h)
    BY <2>7, ConstantsAssumption, Zenon
       DEF Types, JobsFit, MapsOwned, job, Works, FreePage, Enter, Modes, NoFrame,
           NoHart
  <2>8. CASE LocalFlush(h)
    BY <2>8, ConstantsAssumption, Zenon
       DEF Types, JobsFit, MapsOwned, job, Works, LocalFlush, Enter, Modes, NoFrame,
           NoHart, Others, NoJob, Job
  <2>9. CASE Post(h)
    BY <2>9, ConstantsAssumption
       DEF Types, JobsFit, MapsOwned, job, Works, Post, Enter, Modes, NoFrame, NoHart,
           IsFirst
  <2>10. CASE Ring(h)
    BY <2>10, ConstantsAssumption, Zenon
       DEF Types, JobsFit, MapsOwned, job, Works, Ring, Enter, Modes, NoFrame, NoHart
  <2>11. CASE RingFails(h)
    BY <2>11, ConstantsAssumption, Zenon
       DEF Types, JobsFit, MapsOwned, job, Works, RingFails, Enter, Modes, NoFrame,
           NoHart
  <2>12. CASE PostDone(h)
    BY <2>12, ConstantsAssumption
       DEF Types, JobsFit, MapsOwned, job, Works, PostDone, Enter, Modes, NoFrame,
           NoHart, Others, NoJob, Job
  <2>13. CASE Poll(h)
    BY <2>13, ConstantsAssumption, Zenon
       DEF Types, JobsFit, MapsOwned, job, Works, Poll, Enter, Modes, NoFrame, NoHart,
           Others, IsFirst
  <2>14. CASE AllClear(h)
    BY <2>14, ConstantsAssumption, Zenon
       DEF Types, JobsFit, MapsOwned, job, Works, AllClear, Enter, Modes, NoFrame,
           NoHart, NoJob, Job
  <2>15. CASE Timeout(h)
    BY <2>15, ConstantsAssumption, Zenon
       DEF Types, JobsFit, MapsOwned, job, Works, Timeout, Enter, Modes, NoFrame,
           NoHart, Others, NoJob, Job
  <2>16. CASE Ssip(h)
    BY <2>16, ConstantsAssumption, Zenon
       DEF Types, JobsFit, MapsOwned, job, Works, Ssip, Enter, Modes, NoFrame, NoHart,
           Interrupted
  <2>17. CASE TakeRequest(h)
    BY <2>17, ConstantsAssumption, Zenon
       DEF Types, JobsFit, MapsOwned, job, Works, TakeRequest, Enter, Modes, NoFrame,
           NoHart
  <2>18. CASE Handle(h)
    BY <2>18, ConstantsAssumption, Zenon
       DEF Types, JobsFit, MapsOwned, job, Works, Handle, Enter, Modes, NoFrame, NoHart
  <2>19. CASE Pick(h)
    BY <2>19, ConstantsAssumption
       DEF Types, JobsFit, MapsOwned, job, Works, Pick, Enter, Modes, NoFrame, NoHart
  <2>20. CASE Wfi(h)
    BY <2>20, ConstantsAssumption, Zenon
       DEF Types, JobsFit, MapsOwned, job, Works, Wfi, Enter, Modes, NoFrame, NoHart
  <2>21. CASE Tick(h)
    BY <2>21, ConstantsAssumption, Zenon
       DEF Types, JobsFit, MapsOwned, job, Works, Tick, Enter, Modes, NoFrame, NoHart
  <2> QED
    BY <1>2, <2>1, <2>2, <2>3, <2>4, <2>5, <2>6, <2>7, <2>8, <2>9, <2>10, <2>11, <2>12,
       <2>13, <2>14, <2>15, <2>16, <2>17, <2>18, <2>19, <2>20, <2>21, Zenon
       DEF Program, Shootdown, Handler, IdleLoop
<1> QED
  BY <1>1, <1>2, Zenon DEF Next

\* Every step keeps the flush of a freed page owed.
LEMMA FlushStep ==
    Types /\ JobsFit /\ MapsOwned /\ FlushOwed /\ [Next]_vars => FlushOwed'
<1> SUFFICES ASSUME Types, JobsFit, MapsOwned, FlushOwed, [Next]_vars
             PROVE  FlushOwed'
  BY Zenon
<1>1. CASE UNCHANGED vars
  BY <1>1 DEF Types, FlushOwed, job, WillFlush, Good, vars
<1>2. ASSUME NEW h \in Hart, Program(h) \/ Shootdown(h) \/ Handler(h) \/ IdleLoop(h)
      PROVE  FlushOwed'
  <2>1. CASE Touch(h)
    BY <2>1, ConstantsAssumption
       DEF Types, FlushOwed, job, WillFlush, Good, Touch, Enter, Others, NoFrame,
           NoHart, MapsOwned
  <2>2. CASE Unmap(h)
    BY <2>2, ConstantsAssumption
       DEF Types, FlushOwed, job, WillFlush, Good, Unmap, Enter, Others, NoFrame,
           NoHart, NoJob, Job
  <2>3. ASSUME NEW f \in Frame, MapPage(h, f)
        PROVE  FlushOwed'
    BY <2>3, ConstantsAssumption
       DEF Types, FlushOwed, job, WillFlush, Good, MapPage, Enter, Others, NoFrame,
           NoHart, MapsOwned, JobsFit
  <2>4. ASSUME NEW s \in {"blocked", "ready"}, Deschedule(h, s)
        PROVE  FlushOwed'
    BY <2>4, ConstantsAssumption
       DEF Types, FlushOwed, job, WillFlush, Good, Deschedule, Enter, Others, NoFrame,
           NoHart
  <2>5. ASSUME NEW g \in Hart, SendKill(h, g)
        PROVE  FlushOwed'
    BY <2>5, ConstantsAssumption
       DEF Types, FlushOwed, job, WillFlush, Good, SendKill, Enter, Others, NoFrame,
           NoHart, NoJob, Job, JobsFit, Works
  <2>6. ASSUME NEW g \in Hart, Wake(h, g)
        PROVE  FlushOwed'
    BY <2>6, ConstantsAssumption
       DEF Types, FlushOwed, job, WillFlush, Good, Wake, Enter, Others, NoFrame, NoHart
  <2>7. CASE FreePage(h)
    BY <2>7, ConstantsAssumption
       DEF Types, FlushOwed, job, WillFlush, Good, FreePage, Enter, Others, NoFrame,
           NoHart, JobsFit, MapsOwned
  <2>8. CASE LocalFlush(h)
    BY <2>8, ConstantsAssumption
       DEF Types, FlushOwed, job, WillFlush, Good, LocalFlush, Enter, Others, NoFrame,
           NoHart, NoJob, Job, JobsFit
  <2>9. CASE Post(h)
    <3>1. /\ UNCHANGED <<tlb, owned, exposed, taken, frame, sent, bit>>
          /\ mode' = [mode EXCEPT ![h] = "ring"]
          /\ mode[h] = "post"
          /\ \A k \in Hart : mode'[k] = "handle" <=> mode[k] = "handle"
      BY <2>9, Zenon DEF Post, Enter, Types
    <3> SUFFICES ASSUME NEW k \in Hart, NEW f \in tlb[k], f \notin owned, f \notin exposed,
                        ~(mode[k] = "handle" /\ "TLB_FLUSH" \in taken[k])
                 PROVE  \E i \in Hart : WillFlush(i, f, k)'
      BY <2>9, <3>1, Zenon DEF FlushOwed
    <3>2. PICK i \in Hart : WillFlush(i, f, k)
      BY Zenon DEF FlushOwed
    <3>3. PICK g \in todo[h] : /\ req' = [req EXCEPT ![g] = @ \cup {bit[h]}]
                               /\ todo' = [todo EXCEPT ![h] = @ \ {g}]
                               /\ to' = [to EXCEPT ![h] = g]
      BY <2>9, Zenon DEF Post, IsFirst
    <3>4. g \in Hart /\ g # NoHart /\ f # NoFrame /\ todo[h] \subseteq Hart
      BY <3>3, ConstantsAssumption DEF Types, NoHart, NoFrame
    <3>5. CASE i # h
      BY <3>1, <3>2, <3>3, <3>4, <3>5 DEF WillFlush, Good, Types
    <3>6. CASE i = h
      <4>1. Good(h)' /\ bit[h] = "TLB_FLUSH"
        BY <3>1, <3>2, <3>3, <3>4, <3>6 DEF WillFlush, Good, Types, JobsFit, Others
      <4> QED
        BY <4>1, <3>1, <3>2, <3>3, <3>4, <3>6, Zenon DEF WillFlush, Types
    <3> QED
      BY <3>5, <3>6, Zenon
  <2>10. CASE Ring(h)
    BY <2>10, ConstantsAssumption
       DEF Types, FlushOwed, job, WillFlush, Good, Ring, Enter, Others, NoFrame, NoHart,
           JobsFit
  <2>11. CASE RingFails(h)
    BY <2>11, ConstantsAssumption
       DEF Types, FlushOwed, job, WillFlush, Good, RingFails, Enter, Others, NoFrame,
           NoHart
  <2>12. CASE PostDone(h)
    BY <2>12, ConstantsAssumption
       DEF Types, FlushOwed, job, WillFlush, Good, PostDone, Enter, Others, NoFrame,
           NoHart, NoJob, Job, JobsFit
  <2>13. CASE Poll(h)
    <3>1. /\ UNCHANGED <<tlb, owned, exposed, taken, frame, sent, to, bit, req, mode>>
          /\ mode[h] = "wait"
      BY <2>13, Zenon DEF Poll
    <3> SUFFICES ASSUME NEW k \in Hart, NEW f \in tlb[k], f \notin owned, f \notin exposed,
                        ~(mode[k] = "handle" /\ "TLB_FLUSH" \in taken[k])
                 PROVE  \E i \in Hart : WillFlush(i, f, k)'
      BY <2>13, <3>1, Zenon DEF FlushOwed
    <3>2. PICK i \in Hart : WillFlush(i, f, k)
      BY Zenon DEF FlushOwed
    <3>3. PICK g \in todo[h] :
             todo' = [todo EXCEPT ![h] = IF "TLB_FLUSH" \in req[g] THEN Hart \ {h}
                                         ELSE @ \ {g}]
      BY <2>13, Zenon DEF Poll, IsFirst, Others
    <3>4. CASE i # h
      <4>1. todo'[i] = todo[i]
        BY <3>3, <3>4, Zenon DEF Types
      <4> QED
        BY <3>1, <3>2, <4>1, Zenon DEF WillFlush, Good
    <3>5. CASE i = h
      <4>1. k \in todo[h] /\ "TLB_FLUSH" \in req[k] /\ frame[h] = f /\ h # k
        BY <3>1, <3>2, <3>5, Zenon DEF WillFlush
      <4>2. k \in todo'[h]
        BY <3>3, <4>1, Zenon DEF Types
      <4> QED
        BY <3>1, <4>1, <4>2, Zenon DEF WillFlush
    <3> QED
      BY <3>4, <3>5, Zenon
  <2>14. CASE AllClear(h)
    BY <2>14, ConstantsAssumption
       DEF Types, FlushOwed, job, WillFlush, Good, AllClear, Enter, Others, NoFrame,
           NoHart, NoJob, Job, JobsFit
  <2>15. CASE Timeout(h)
    <3>1. /\ exposed' = exposed \cup {frame[h]} /\ mode[h] = "wait"
          /\ UNCHANGED <<tlb, owned, taken, req, to>>
          /\ \A i \in Hart \ {h} : /\ mode'[i] = mode[i] /\ frame'[i] = frame[i]
                                /\ todo'[i] = todo[i] /\ sent'[i] = sent[i]
          /\ mode'[h] = "user"
      BY <2>15, Zenon DEF Timeout, Enter, NoJob, Job, Types
    <3> SUFFICES ASSUME NEW k \in Hart, NEW f \in tlb[k], f \notin owned, f \notin exposed',
                        ~(mode[k] = "handle" /\ "TLB_FLUSH" \in taken[k])
                 PROVE  \E i \in Hart : WillFlush(i, f, k)'
      BY <3>1, Zenon DEF FlushOwed
    <3>2. PICK i \in Hart : WillFlush(i, f, k)
      BY <3>1, Zenon DEF FlushOwed
    <3>3. i # h
      BY <3>1, <3>2, Zenon DEF WillFlush
    <3> QED
      BY <3>1, <3>2, <3>3, Zenon DEF WillFlush, Good
  <2>16. CASE Ssip(h)
    BY <2>16, ConstantsAssumption
       DEF Types, FlushOwed, job, WillFlush, Good, Ssip, Enter, Others, NoFrame, NoHart,
           Interrupted
  <2>17. CASE TakeRequest(h)
    BY <2>17, ConstantsAssumption
       DEF Types, FlushOwed, job, WillFlush, Good, TakeRequest, Enter, Others, NoFrame,
           NoHart
  <2>18. CASE Handle(h)
    BY <2>18, ConstantsAssumption
       DEF Types, FlushOwed, job, WillFlush, Good, Handle, Enter, Others, NoFrame,
           NoHart
  <2>19. CASE Pick(h)
    BY <2>19, ConstantsAssumption
       DEF Types, FlushOwed, job, WillFlush, Good, Pick, Enter, Others, NoFrame, NoHart
  <2>20. CASE Wfi(h)
    BY <2>20, ConstantsAssumption
       DEF Types, FlushOwed, job, WillFlush, Good, Wfi, Enter, Others, NoFrame, NoHart
  <2>21. CASE Tick(h)
    BY <2>21, ConstantsAssumption
       DEF Types, FlushOwed, job, WillFlush, Good, Tick, Enter, Others, NoFrame, NoHart
  <2> QED
    BY <1>2, <2>1, <2>2, <2>3, <2>4, <2>5, <2>6, <2>7, <2>8, <2>9, <2>10, <2>11, <2>12,
       <2>13, <2>14, <2>15, <2>16, <2>17, <2>18, <2>19, <2>20, <2>21, Zenon
       DEF Program, Shootdown, Handler, IdleLoop
<1> QED
  BY <1>1, <1>2, Zenon DEF Next

\* What always holds: the types, the jobs and the two properties' invariants.
Inv == Types /\ Fits /\ JobsFit /\ MapsOwned /\ NoRequestStranded /\ FlushOwed

\* The invariant holds at the start.
LEMMA InitInv == Init => Inv
<1> SUFFICES ASSUME Init PROVE Inv
  BY Zenon
<1>1. Types
  BY Zenon DEF Init, Types, Modes, Bits, NoFrame, NoHart
<1>2. Fits /\ JobsFit /\ MapsOwned /\ NoRequestStranded /\ FlushOwed
  BY Zenon DEF Init, Fits, JobsFit, MapsOwned, NoRequestStranded, FlushOwed, Works
<1> QED
  BY <1>1, <1>2, Zenon DEF Inv

\* Every step keeps the invariant.
LEMMA NextInv == Inv /\ [Next]_vars => Inv'
  BY TypesStep, FitsStep, JobsStep, MapsStep, StrandedStep, FlushStep, Zenon DEF Inv

\* The invariant always holds, of any number of harts and frames.
THEOREM InvHolds == Spec => []Inv
  BY InitInv, NextInv, PTL DEF Spec

\* Every variable keeps its type, and a hart is in the idle loop exactly when its
\* thread does not run, also after the handler has killed that thread.
THEOREM TypeCorrect == Spec => []TypeOK
<1>1. Inv => TypeOK
  <2> SUFFICES ASSUME Inv PROVE TypeOK
    BY Zenon
  <2>1. /\ req \in [Hart -> SUBSET {"TLB_FLUSH", "FORCE_KILL"}]
        /\ taken \in [Hart -> SUBSET {"TLB_FLUSH", "FORCE_KILL"}]
    BY DEF Inv, Types, Fits, Bits
  <2> QED
    BY <2>1, Zenon DEF Inv, Types, Fits, TypeOK, IsIdle
<1> QED
  BY <1>1, InvHolds, PTL

\* A request posted in REMOTE_REQ always has somebody about to deliver it
\* (send_remote_req and the SSIP handler's clear-then-swap), unless its IPI failed.
THEOREM StrandedHolds == Spec => []NoRequestStranded
<1>1. Inv => NoRequestStranded
  BY Zenon DEF Inv
<1> QED
  BY <1>1, InvHolds, PTL

\* After revoke has returned no hart in user mode reaches the page, although the
\* page is freed before the shootdown and the handler clears its bit before the
\* sfence, unless the shootdown gave up.
THEOREM RevokedHolds == Spec => []RevokedIsUnreachable
<1>1. Inv => RevokedIsUnreachable
  BY DEF Inv, FlushOwed, WillFlush, RevokedIsUnreachable, Revoking
<1> QED
  BY <1>1, InvHolds, PTL
=============================================================================
