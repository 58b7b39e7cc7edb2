CONSTANTS
    b1 = b1
    b2 = b2
    b3 = b3
    a1 = a1
    a2 = a2
    a3 = a3
    Buffers <- MC_SessionBuffers
    Addrs <- MC_SessionAddrs
    Null = Null
    MaxConnects = 1
SPECIFICATION FairSpec
INVARIANT RendersIntoScreenImage

