SPECIFICATION Spec
CONSTANTS
    MaxQueueSize = 2
    FrameIndexSpan = 8
    Uris = {u1}
    Sources = {s1, s2}
    Observers = {o1}
    RowOrders = {top_down, bottom_up}
    MaxFrames = 3
SYMMETRY SourceSymmetry
INVARIANTS TypeOK QueuesSound FramesAligned WholeFrame DrainIsTheLoop AppViewAccurate NoLeakedStream
PROPERTIES FrameOnlyOnRequest OnlyRemovalStrands ImplementsRegistry
