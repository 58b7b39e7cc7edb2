CONSTANTS
    b1 = b1
    b2 = b2
    b3 = b3
    Buffers <- MC_Buffers
    Null = Null
SPECIFICATION Spec
INVARIANT RendersAcceptedRequest
PROPERTY ImplementsScreenshotSlot
