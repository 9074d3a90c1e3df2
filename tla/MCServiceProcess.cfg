CONSTANTS
    c1 = c1
    c2 = c2
    w1 = w1
    w2 = w2
    w3 = w3
    Clients = {c1, c2}
    Faulty = {c1}
    Calls = {w1, w2, w3}
    Silent = {w1}
    MaxConcurrentCalls = 2
SPECIFICATION ProcessSpec
INVARIANTS OneAtATime DeafHasCause
PROPERTIES DeafForGood CallersServed
CHECK_DEADLOCK FALSE
