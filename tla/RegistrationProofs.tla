------------------------ MODULE RegistrationProofs ------------------------
(***************************************************************************)
(* Proofs about the registration of the CTroll3D stream (Registration.tla) *)
(* for any number of ConnectCTroll3D calls.                                *)
(***************************************************************************)
EXTENDS Registration, TLAPS

\* Inductive invariant.  g_ctroll3d_bits lags behind screen_image only while
\* a RequestCTroll3D call has not yet run its store of line 91, and the
\* pointer that store will publish is the buffer line 677 just took.
RepublishInv ==
    /\ gpc # "bits" => bits = image
    /\ gpc = "bits" => argBuf = image

LEMMA RepublishInvInit == Init => RepublishInv
BY DEF Init, RepublishInv

LEMMA RepublishInvStep == RepublishInv /\ [Next]_vars => RepublishInv'
<1> SUFFICES ASSUME RepublishInv, [Next]_vars PROVE RepublishInv'
  OBVIOUS
<1>1. ASSUME NEW a \in Addrs, ConnectCTroll3D(a) PROVE RepublishInv'
  BY <1>1 DEF ConnectCTroll3D, RepublishInv
<1>2. CASE StoreBits
  BY <1>2 DEF StoreBits, RepublishInv
<1>3. CASE StoreCallback
  BY <1>3 DEF StoreCallback, RepublishInv
<1>4. CASE StoreAddress
  BY <1>4 DEF StoreAddress, RepublishInv
<1>5. CASE FillBuffer
  BY <1>5 DEF FillBuffer, RepublishInv, gui, shared
<1>6. CASE InvokeCallback
  BY <1>6 DEF InvokeCallback, RepublishInv, gui, shared
<1>7. CASE ProcessFrame
  BY <1>7 DEF ProcessFrame, RepublishInv, gui, shared
<1>8. CASE PeerClose
  BY <1>8 DEF PeerClose, RepublishInv, gui, shared
<1>9. CASE UNCHANGED vars
  BY <1>9 DEF vars, RepublishInv, gui, shared
<1>. QED
  BY <1>1, <1>2, <1>3, <1>4, <1>5, <1>6, <1>7, <1>8, <1>9 DEF Next, GuiStep, RenderStep

\* A fill that begins outside the window between line 677 and line 91 reads
\* the pointer of screen_image's buffer.
LEMMA RepublishedFillStep ==
    RepublishInv /\ [Next]_vars
      => [rpc = "idle" /\ rpc' = "filled" /\ gpc # "bits" => rbits' = image]_vars
<1> SUFFICES ASSUME RepublishInv, [Next]_vars,
                    rpc = "idle", rpc' = "filled", gpc # "bits"
             PROVE  rbits' = image
  BY DEF vars, renderer
<1>1. FillBuffer
  BY DEF Next, GuiStep, RenderStep, ConnectCTroll3D, StoreBits, StoreCallback,
         StoreAddress, InvokeCallback, ProcessFrame, PeerClose, vars, renderer
<1>. QED
  BY <1>1 DEF FillBuffer, RepublishInv

\* For every set of buffers and addresses and any bound on the calls of
\* ConnectCTroll3D, once RequestCTroll3D has republished g_ctroll3d_bits
\* (video_core.cpp line 91), the renderer begins every fill in the buffer
\* screen_image owns (bootmanager.cpp line 677).
THEOREM RepublishedFillsScreenImage == Spec => FillsScreenImageOnceRepublished
<1>1. Spec => []RepublishInv
  BY RepublishInvInit, RepublishInvStep, PTL DEF Spec
<1>. QED
  BY <1>1, RepublishedFillStep, PTL DEF Spec, FillsScreenImageOnceRepublished

=============================================================================
