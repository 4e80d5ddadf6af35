SPECIFICATION Spec
CONSTANTS
    MaxTotal = 13
    ChannelCounts <- Channels3
    SampleSizes <- SampleSizes2
    Lens <- Lens2
INVARIANTS FramesInOrder EndsComplete BytesConserved
