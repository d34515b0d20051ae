------------------------------- MODULE MCIpc -------------------------------
(***************************************************************************)
(* Instances of Ipc for TLC: two processes of one thread each and, in the  *)
(* runs that kill, a kernel thread of the boot code.                       *)
(***************************************************************************)
EXTENDS Ipc

CONSTANTS A, B, a1, b1, k

MCProcOf == [t \in Thread |-> CASE t = a1 -> A
                                [] t = b1 -> B
                                [] OTHER  -> NoProc]
=============================================================================
