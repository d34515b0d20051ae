----------------------------- MODULE Rendezvous -----------------------------
(***************************************************************************)
(* What the IPC of the kernel promises its users, with no queue, no lock   *)
(* and no scheduler: a thread asks to send to a process or to receive from *)
(* one; a sender and a receiver that want each other meet in one step, in  *)
(* which the receiver is answered with the sender's message and the sender *)
(* with an acknowledgement; an answered thread returns with its answer.    *)
(* (kernel/src/ipc.rs, "pairing semantics"; kernel/src/syscall.rs.)        *)
(***************************************************************************)
CONSTANTS Proc, Thread, ProcOf, Msg, AcceptAny, Nil

VARIABLES
    phase,  \* idle, asking, answered or gone
    ask,    \* what an asking thread wants
    got     \* the answer of an answered thread

rvars == <<phase, ask, got>>

NoAsk == [op |-> "none", peer |-> Nil, msg |-> Nil]

Upd(f, t, v) == [f EXCEPT ![t] = v]

RInit ==
    /\ phase = [t \in Thread |-> "idle"]
    /\ ask = [t \in Thread |-> NoAsk]
    /\ got = [t \in Thread |-> Nil]

Ask(t, a) ==
    /\ phase[t] = "idle"
    /\ phase' = Upd(phase, t, "asking")
    /\ ask' = Upd(ask, t, a)
    /\ UNCHANGED got

\* Refused for want of a capability: answered at once.
Refused(t, errno) ==
    /\ phase[t] = "idle"
    /\ phase' = Upd(phase, t, "answered")
    /\ got' = Upd(got, t, errno)
    /\ UNCHANGED ask

Wants(s, r) ==
    /\ phase[s] = "asking" /\ phase[r] = "asking"
    /\ ask[s].op = "send" /\ ask[r].op = "recv"
    /\ ask[s].peer = ProcOf[r]

\* The receiver named the sender's process.
Specific(s, r) == Wants(s, r) /\ ask[r].peer = ProcOf[s]

Meet(s, r) ==
    /\ phase' = [phase EXCEPT ![s] = "answered", ![r] = "answered"]
    /\ ask' = [ask EXCEPT ![s] = NoAsk, ![r] = NoAsk]
    /\ got' = [got EXCEPT ![s] = "Ack", ![r] = ask[s].msg]

MeetSpecific(s, r) == Specific(s, r) /\ Meet(s, r)

MeetAny(s, r) == Wants(s, r) /\ ask[r].peer = AcceptAny /\ Meet(s, r)

Return(t) ==
    /\ phase[t] = "answered"
    /\ phase' = Upd(phase, t, "idle")
    /\ got' = Upd(got, t, Nil)
    /\ UNCHANGED ask

Leave(t) ==
    /\ phase[t] = "idle"
    /\ phase' = Upd(phase, t, "gone")
    /\ UNCHANGED <<ask, got>>

Asks == [op : {"send"}, peer : Proc, msg : Msg]
          \cup [op : {"recv"}, peer : Proc \cup {AcceptAny}, msg : {Nil}]

RNext ==
    \/ \E t \in Thread : \/ \E a \in Asks : Ask(t, a)
                         \/ \E e \in {"EACCES", "EINVAL"} : Refused(t, e)
                         \/ Return(t)
                         \/ Leave(t)
    \/ \E s, r \in Thread : MeetSpecific(s, r) \/ MeetAny(s, r)

RSafety == RInit /\ [][RNext]_rvars

\* A pair that keeps wanting each other by name meets; an answer is returned.
RFairness ==
    /\ \A t \in Thread : WF_rvars(Return(t))
    /\ \A s, r \in Thread : WF_rvars(MeetSpecific(s, r))

RSpec == RSafety /\ RFairness
=============================================================================
