CONSTANTS
    A = A  B = B
    a1 = a1  b1 = b1  k = k
    Proc = {A, B}
    Thread = {a1, b1}
    ProcOf <- MCProcOf
    Slot = {s1}
    Msg = {m1, m2}
    Mortal = {}
    NoProc = NoProc  AcceptAny = AcceptAny
    Empty = Empty  Other = Other  Nil = Nil
SPECIFICATION Spec
INVARIANTS BlockedDonates
PROPERTIES ImplementsRendezvous
