CONSTANTS
    A = A  B = B
    a1 = a1  b1 = b1  k = k
    Proc = {A, B}
    Thread = {a1, b1, k}
    ProcOf <- MCProcOf
    Slot = {s1}
    Msg = {m1}
    Mortal = {A}
    NoProc = NoProc  AcceptAny = AcceptAny
    Empty = Empty  Other = Other  Nil = Nil
SPECIFICATION Spec
INVARIANTS OneAnswerOwed NoMatchLeftQueued DonationOnlyWhileWaiting
PROPERTIES OwedIsDelivered
