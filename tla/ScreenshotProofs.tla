------------------------- MODULE ScreenshotProofs -------------------------
(***************************************************************************)
(* Proofs about the screenshot handshake of Screenshot.tla for every set   *)
(* of buffers.                                                             *)
(***************************************************************************)
EXTENDS Screenshot, TLAPS

\* Inductive strengthening of RendersAcceptedRequest.  While the flag is
\* set, g_screenshot_bits holds the accepted argument: RequestScreenshot
\* stores it (line 82) before it sets the flag (line 85), and the test of
\* line 78 keeps a second request out until the renderer clears the flag.
\* While the GUI thread is between those stores, the flag is clear and the
\* renderer is idle.  The argument of a call in progress, and the pointer
\* a set flag publishes, name real buffers (line 430 allocated them).
HandshakeInv ==
    /\ TypeOK
    /\ gpc # "idle" => arg \in Buffers
    /\ requested => bits \in Buffers
    /\ rpc = "wrote" => requested /\ target = accepted
    /\ requested => bits = accepted
    /\ gpc \in {"publish", "flag"} => ~requested /\ rpc = "idle" /\ accepted = arg
    /\ gpc = "flag" => bits = arg

LEMMA HandshakeInvInit == Init => HandshakeInv
BY DEF Init, HandshakeInv, TypeOK

LEMMA HandshakeInvStep == HandshakeInv /\ [Next]_vars => HandshakeInv'
<1> SUFFICES ASSUME HandshakeInv, [Next]_vars PROVE HandshakeInv'
  OBVIOUS
<1>1. CASE Capture
  BY <1>1 DEF Capture, HandshakeInv, TypeOK
<1>2. CASE RequestCheck
  BY <1>2 DEF RequestCheck, HandshakeInv, TypeOK
<1>3. CASE RequestPublish
  BY <1>3 DEF RequestPublish, HandshakeInv, TypeOK
<1>4. CASE RequestFlag
  BY <1>4 DEF RequestFlag, HandshakeInv, TypeOK
<1>5. CASE RenderScreenshot
  BY <1>5 DEF RenderScreenshot, HandshakeInv, TypeOK
<1>6. CASE CompleteScreenshot
  BY <1>6 DEF CompleteScreenshot, HandshakeInv, TypeOK
<1>7. CASE UNCHANGED vars
  BY <1>7 DEF vars, HandshakeInv, TypeOK
<1>. QED
  BY <1>1, <1>2, <1>3, <1>4, <1>5, <1>6, <1>7 DEF Next

\* Type correctness of the handshake's variables, for every set of buffers.
THEOREM ScreenshotTypeCorrect == Spec => []TypeOK
<1>1. HandshakeInv => TypeOK
  BY DEF HandshakeInv
<1>. QED
  BY <1>1, HandshakeInvInit, HandshakeInvStep, PTL DEF Spec

\* RequestScreenshot's handshake (lines 78-85): in every behaviour, the
\* buffer the renderer writes a requested frame into is the argument of
\* the latest request RequestScreenshot accepted, and g_screenshot_bits
\* still points to it until the completion.
THEOREM RendersAcceptedRequestHolds == Spec => []RendersAcceptedRequest
<1>1. HandshakeInv => RendersAcceptedRequest
  BY DEF HandshakeInv, RendersAcceptedRequest
<1>. QED
  BY <1>1, HandshakeInvInit, HandshakeInvStep, PTL DEF Spec


-----------------------------------------------------------------------------
(* Refinement of the one-slot request.                                     *)

\* Every step of the GUI thread or the renderer is a step of the request
\* slot or leaves it as it is: the flag store of line 85 takes the request
\* the stores of lines 82-84 prepared, while those stores and the test of
\* line 78 happen with the flag clear and touch nothing the slot shows.
LEMMA SlotStep == HandshakeInv /\ [Next]_vars => [Slot!Next]_Slot!vars
<1> SUFFICES ASSUME HandshakeInv, [Next]_vars PROVE [Slot!Next]_Slot!vars
  OBVIOUS
<1>1. CASE Capture
  BY <1>1 DEF Capture, Slot!vars
<1>2. CASE RequestCheck
  BY <1>2 DEF RequestCheck, Slot!vars
<1>3. CASE RequestPublish
  <2>1. ~requested
    BY <1>3 DEF RequestPublish, HandshakeInv
  <2>. QED
    BY <1>3, <2>1 DEF RequestPublish, Slot!vars
<1>4. CASE RequestFlag
  <2>1. ~requested /\ bits \in Buffers
    BY <1>4 DEF RequestFlag, HandshakeInv
  <2>2. Slot!Request(bits)
    BY <1>4, <2>1 DEF RequestFlag, Slot!Request
  <2>. QED
    BY <2>1, <2>2 DEF Slot!Next
<1>5. CASE RenderScreenshot
  <2>1. bits \in Buffers
    BY <1>5 DEF RenderScreenshot, HandshakeInv
  <2>2. Slot!Render
    BY <1>5, <2>1, BuffersAssumption DEF RenderScreenshot, Slot!Render
  <2>. QED
    BY <2>2 DEF Slot!Next
<1>6. CASE CompleteScreenshot
  <2>1. Slot!Complete
    BY <1>6 DEF CompleteScreenshot, Slot!Complete
  <2>. QED
    BY <2>1 DEF Slot!Next
<1>7. CASE UNCHANGED vars
  BY <1>7 DEF vars, Slot!vars
<1>. QED
  BY <1>1, <1>2, <1>3, <1>4, <1>5, <1>6, <1>7 DEF Next

\* RequestScreenshot's separate test, stores and flag (lines 78-85), run
\* against the renderer, implement the one-slot screenshot request for
\* every set of buffers: requests are taken one at a time, the frame goes
\* into the pending request's buffer, and that buffer stays put until the
\* completion.
THEOREM ImplementsScreenshotSlotHolds == Spec => ImplementsScreenshotSlot
<1>1. Init => Slot!Init
  BY DEF Init, Slot!Init
<1>. QED
  BY <1>1, SlotStep, HandshakeInvInit, HandshakeInvStep, PTL
  DEF Spec, ImplementsScreenshotSlot, Slot!Spec


=============================================================================
