--------------------------- MODULE MC_Registration ---------------------------
(* Re-registration: two pixel buffers (one per ConnectCTroll3D call) and   *)
(* two viewer addresses.  A single session may get any of three buffers    *)
(* from the allocator and be started with any of three addresses.          *)
EXTENDS Registration

CONSTANTS b1, b2, b3, a1, a2, a3

MC_Buffers == {b1, b2}
MC_Addrs == {a1, a2}

MC_SessionBuffers == {b1, b2, b3}
MC_SessionAddrs == {a1, a2, a3}
=============================================================================
