------------------------------- MODULE MCSync -------------------------------
(* Instances of Sync: three threads on one hart or on two.                 *)
EXTENDS Sync

CONSTANTS a, b, c

Assign(home_, role_) ==
    [home |-> [t \in {a, b, c} |-> home_[CASE t = a -> 1 [] t = b -> 2 [] t = c -> 3]],
     role |-> [t \in {a, b, c} |-> role_[CASE t = a -> 1 [] t = b -> 2 [] t = c -> 3]]]

\* the self test's groups on one hart, and three threads on two harts
Groups == {
    Assign(<<1, 1, 1>>, <<"inc", "inc", "inc">>),
    Assign(<<1, 1, 1>>, <<"inc", "consumer", "producer">>),
    Assign(<<1, 2, 2>>, <<"consumer", "inc", "broadcaster">>),
    Assign(<<1, 2, 2>>, <<"inc", "inc", "inc">>),
    Assign(<<1, 2, 2>>, <<"inc", "consumer", "producer">>)}
=============================================================================
