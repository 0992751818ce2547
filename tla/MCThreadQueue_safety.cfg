CONSTANTS
    Producers = {p1, p2}
    Consumers = {c1, c2}
    Closers = {main}
    Capacity = 2
    MaxFrames = 3
    Faults = {"clone", "lock", "wait", "spurious"}
SPECIFICATION Spec
SYMMETRY Symmetry
INVARIANTS
    QueueInv
    NoLeak
    NoLostWakeup
PROPERTY ImplementsChannel
