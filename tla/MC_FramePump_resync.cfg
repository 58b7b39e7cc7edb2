CONSTANTS
    NumBlocks = 3
    Vals = {0, 1}
    Threshold = 1
    Frames <- MC_Frames
    ForceLimit = 6
    RetryWait = 2
    MaxRx = 1
    NoImage = NoImage
SPECIFICATION Spec
INVARIANT KeyframeResyncs
