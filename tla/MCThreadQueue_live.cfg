CONSTANTS
    Producers = {p1, p2}
    Consumers = {c1}
    Closers = {main}
    Capacity = 2
    MaxFrames = 4
    Faults = {}
SPECIFICATION FairSpec
PROPERTIES
    CloseReleasesAll
    AcceptedIsPopped
