------------------------------ MODULE MCBuddy -------------------------------
(* Instances of Buddy. *)
EXTENDS Buddy

\* No region, an empty one, and one or two anywhere in RAM or over its edges,
\* aligned or not; three, and a fourth that joins the first and the last, that
\* joins all, or that finds the table full.
SomeReports ==
    {<<>>, <<<<9, 0>>>>}
        \cup {<<<<a, n>>>> : a \in {6, 9, 12, 15, 22}, n \in {1, 3, 60}}
        \cup {<<<<a, 2>>, <<a + 3, 5>>>> : a \in {7, 10, 13}}
        \cup {<<<<10, 1>>, <<17, 1>>, <<13, 1>>, <<a, n>>>> :
                 a \in {9, 15}, n \in {1, 5, 60}}

\* The device tree in the middle of RAM.
TreeInside == {<<<<12, 2>>>>}

=============================================================================
