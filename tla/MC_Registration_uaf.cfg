CONSTANTS
    b1 = b1
    b2 = b2
    b3 = b3
    a1 = a1
    a2 = a2
    a3 = a3
    Buffers <- MC_Buffers
    Addrs <- MC_Addrs
    Null = Null
    MaxConnects = 2
SPECIFICATION Spec
INVARIANT RendersIntoScreenImage
