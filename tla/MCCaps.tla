------------------------------- MODULE MCCaps -------------------------------
(***************************************************************************)
(* Instances of Caps: two processes that know each other, as the boot code *)
(* connects a server and its client.                                       *)
(***************************************************************************)
EXTENDS Caps

Peers == [p \in Pid |-> [s \in Slot |-> IF s = 0 THEN Proc(1 - p) ELSE NoCap]]
Plain == [home |-> [p \in Pid |-> {1}], frames |-> {1}, server |-> {0}, services |-> {},
          dev |-> {}, shares |-> FALSE, kills |-> "never"]
OnBoth == [p \in Pid |-> {p + 1}]

SomeSetups == {
    \* both processes on one hart, with two frames, or with one and killed
    [Plain EXCEPT !.frames = {1, 2}, !.shares = TRUE],
    [Plain EXCEPT !.shares = TRUE, !.kills = "apart"],
    \* with a server and its device
    [Plain EXCEPT !.services = {1}, !.dev = {2}, !.kills = "apart"],
    \* each on a hart of its own: sharing, or granting
    [Plain EXCEPT !.home = OnBoth, !.server = {}, !.shares = TRUE],
    [Plain EXCEPT !.home = OnBoth],
    \* one process with two threads
    [Plain EXCEPT !.home = [p \in Pid |-> IF p = 0 THEN {1, 2} ELSE {}]],
    \* kills at any time
    [Plain EXCEPT !.home = [p \in Pid |-> IF p = 0 THEN {1} ELSE {}],
                  !.services = {1}, !.kills = "any time"]}
=============================================================================
