---------------------------- MODULE Screenshot ----------------------------
(***************************************************************************)
(* The one-shot screenshot request: GRenderWindow::CaptureScreenshot on    *)
(* the GUI thread (bootmanager.cpp lines 426-442) and                      *)
(* VideoCore::RequestScreenshot (video_core.cpp lines 76-86), against the  *)
(* renderer that serves the request after its next frame.                  *)
(*                                                                         *)
(* Pixel buffers are identified by the ids in Buffers.  screenshot_image   *)
(* owns one buffer at a time; assigning it a new QImage (line 430) frees   *)
(* the old one, and the allocator may hand a freed buffer out again.       *)
(* g_screenshot_bits is a raw pointer: it keeps no buffer alive.  The      *)
(* GUI thread's call of RequestScreenshot is one step per shared access:   *)
(* the test of line 78, the stores of lines 82-84, the store of line 85.   *)
(* The renderer's side (renderer_opengl, not part of this repository) is   *)
(* modelled from the interface: once it sees the request flag it renders   *)
(* the frame into g_screenshot_bits, then calls the completion callback    *)
(* and clears the flag.                                                    *)
(***************************************************************************)
EXTENDS Naturals

CONSTANTS
    Buffers,    \* pixel buffers the allocator may return
    Null        \* the null QImage's bits before the first capture

ASSUME BuffersAssumption == Buffers # {} /\ Null \notin Buffers

VARIABLES
    image,      \* GRenderWindow::screenshot_image (its buffer)
    freed,      \* buffers released and not handed out again
    gpc,        \* GUI thread: where CaptureScreenshot stands
    arg,        \* the data argument of the RequestScreenshot in progress
    requested,  \* g_renderer_screenshot_requested
    bits,       \* g_screenshot_bits
    rpc,        \* renderer: "idle", or "wrote" once the frame is in bits
    target,     \* history: the buffer the renderer wrote into
    accepted,   \* history: the data argument of the latest accepted request
    saved       \* history: the buffer the latest completion callback saved

vars == <<image, freed, gpc, arg, requested, bits, rpc, target, accepted, saved>>

Init ==
    /\ image = Null
    /\ freed = {}
    /\ gpc = "idle"
    /\ arg = Null
    /\ requested = FALSE
    /\ bits = Null
    /\ rpc = "idle"
    /\ target = Null
    /\ accepted = Null
    /\ saved = Null

-----------------------------------------------------------------------------
(* GUI thread.                                                             *)

\* Lines 427-430: screenshot_image = QImage(...) takes a new buffer and
\* releases the old one; its bits() is the argument of the request.
Capture ==
    /\ gpc = "idle"
    /\ \E n \in Buffers \ {image} :
         /\ image' = n
         /\ freed' = (freed \cup ({image} \ {Null})) \ {n}
         /\ arg' = n
    /\ gpc' = "check"
    /\ UNCHANGED <<requested, bits, rpc, target, accepted, saved>>

\* Mutant: the in-progress test of line 78 left out.
RequestCheckNone ==
    /\ gpc = "check"
    /\ gpc' = "publish"
    /\ accepted' = arg
    /\ UNCHANGED <<image, freed, arg, requested, bits, rpc, target, saved>>

\* Lines 78-81: a request while one is in progress is logged and ignored.
RequestCheck ==
    /\ gpc = "check"
    /\ gpc' = IF requested THEN "idle" ELSE "publish"
    /\ accepted' = IF requested THEN accepted ELSE arg
    /\ UNCHANGED <<image, freed, arg, requested, bits, rpc, target, saved>>

\* Lines 82-84: g_screenshot_bits, the callback and the layout are stored.
RequestPublish ==
    /\ gpc = "publish"
    /\ gpc' = "flag"
    /\ bits' = arg
    /\ UNCHANGED <<image, freed, arg, requested, rpc, target, accepted, saved>>

\* Line 85: g_renderer_screenshot_requested = true.
RequestFlag ==
    /\ gpc = "flag"
    /\ gpc' = "idle"
    /\ requested' = TRUE
    /\ UNCHANGED <<image, freed, arg, bits, rpc, target, accepted, saved>>

-----------------------------------------------------------------------------
(* Renderer, after presenting a frame.                                     *)

RenderScreenshot ==
    /\ rpc = "idle"
    /\ requested
    /\ rpc' = "wrote"
    /\ target' = bits
    /\ UNCHANGED <<image, freed, gpc, arg, requested, bits, accepted, saved>>

\* The completion callback of lines 433-440 saves screenshot_image as it
\* is when the callback runs; the flag is cleared afterwards.
CompleteScreenshot ==
    /\ rpc = "wrote"
    /\ rpc' = "idle"
    /\ saved' = image
    /\ requested' = FALSE
    /\ UNCHANGED <<image, freed, gpc, arg, bits, target, accepted>>

Next ==
    \/ Capture \/ RequestCheck \/ RequestPublish \/ RequestFlag
    \/ RenderScreenshot \/ CompleteScreenshot

Spec == Init /\ [][Next]_vars

-----------------------------------------------------------------------------
(* Properties.                                                             *)

TypeOK ==
    /\ image \in Buffers \cup {Null}
    /\ freed \subseteq Buffers
    /\ gpc \in {"idle", "check", "publish", "flag"}
    /\ arg \in Buffers \cup {Null}
    /\ requested \in BOOLEAN
    /\ bits \in Buffers \cup {Null}
    /\ rpc \in {"idle", "wrote"}
    /\ target \in Buffers \cup {Null}
    /\ accepted \in Buffers \cup {Null}
    /\ saved \in Buffers \cup {Null}

\* Handshake of RequestScreenshot (lines 78-85): while the renderer serves a
\* request, the buffer it rendered into is the data argument of the
\* latest request that RequestScreenshot accepted, and g_screenshot_bits
\* still points to it; no later request replaces it before completion.
RendersAcceptedRequest == rpc = "wrote" => target = accepted /\ bits = accepted

\* The handshake seen as a request slot: the slot holds g_screenshot_bits
\* while g_renderer_screenshot_requested is set and is empty otherwise.
Slot == INSTANCE ScreenshotSlot WITH pending <- IF requested THEN bits ELSE Null

\* RequestScreenshot's test (line 78), stores (lines 82-84) and flag (line
\* 85), though separate unsynchronised steps, implement the one-slot
\* request: a request is taken only while none is pending, the renderer
\* writes into the pending request's buffer, and the pending buffer never
\* changes before the completion empties the slot.
ImplementsScreenshotSlot == Slot!Spec

\* The renderer never writes the frame into a buffer that has been
\* released: CaptureScreenshot's assignment of line 430 must not free the
\* buffer of a request still in progress.
RendersLiveBuffer == [][rpc = "idle" /\ rpc' = "wrote" => bits \notin freed]_vars

=============================================================================
