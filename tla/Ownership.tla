----------------------------- MODULE Ownership -----------------------------
(***************************************************************************)
(* What the capability system promises about physical pages: a page        *)
(* belongs to nobody, to one process, or to the two that share it.  It is  *)
(* acquired when it belongs to nobody, moves from one owner to another in  *)
(* one step, and is released by all owners at once.                        *)
(***************************************************************************)
CONSTANTS Frame
VARIABLE owners

Init == owners = [f \in Frame |-> {}]

Acquire(f) == owners[f] = {} /\ \E p, q \in owners'[f] : owners'[f] = {p, q}
Move(f)    == \E p \in owners[f], q \in owners'[f] :
                 owners[f] = {p} /\ owners'[f] = {q}
Release(f) == owners[f] # {} /\ owners'[f] = {}

Next == \E f \in Frame :
    /\ \A g \in Frame \ {f} : owners'[g] = owners[g]
    /\ Acquire(f) \/ Move(f) \/ Release(f)

Spec == Init /\ [][Next]_owners
=============================================================================
