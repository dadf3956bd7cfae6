\* Slots of three bytes; frames of exactly two, of more and of fewer.
SPECIFICATION FrameSpec
CONSTANTS
    Capacity = 2
    FrameSize = 2
    Tag = {1, 2}
    Frames <- SomeFrames
    MaxPuts = 5
INVARIANTS
    FramesIntact
