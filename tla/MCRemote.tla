------------------------------ MODULE MCRemote ------------------------------
(* Instances of Remote. *)
EXTENDS Remote
=============================================================================
