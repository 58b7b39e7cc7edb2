---------------------------- MODULE Registration ----------------------------
(***************************************************************************)
(* Registration of the CTroll3D stream: GRenderWindow::ConnectCTroll3D on  *)
(* the GUI thread (bootmanager.cpp lines 675-703) and                      *)
(* VideoCore::RequestCTroll3D (video_core.cpp lines 88-98), against the    *)
(* renderer that, after every present, fills g_ctroll3d_bits and calls     *)
(* g_ctroll3d_complete_callback, which runs processFrameData with the      *)
(* address the lambda captured.                                            *)
(*                                                                         *)
(* screen_image owns one pixel buffer at a time; assigning it a new QImage *)
(* (line 677) releases the old one.  g_ctroll3d_bits is a raw pointer and  *)
(* the stores of RequestCTroll3D are plain, unsynchronised writes, each a  *)
(* step of its own.  The layout store (line 93) is left out: every call    *)
(* passes the same 240x320 layout.  The renderer's side (renderer_opengl,  *)
(* not part of this repository) is modelled from the callback interface:   *)
(* it reads the pointer and fills the buffer, then reads and runs the      *)
(* callback.  Of processFrameData only the connection upkeep of lines      *)
(* 590-597 is kept, with its back-off collapsed into one attempt per call  *)
(* (FramePump models the back-off): the static socket connects to the      *)
(* address of the call that finds it unconnected, and stays with it.       *)
(***************************************************************************)
EXTENDS Naturals

CONSTANTS
    Buffers,      \* pixel buffers the allocator may return
    Addrs,        \* viewer addresses ConnectCTroll3D may be given
    Null,         \* null pointer, empty std::function, unconnected socket
    MaxConnects   \* bound on the calls of ConnectCTroll3D

ASSUME RegistrationAssumption ==
    /\ Buffers # {} /\ Addrs # {}
    /\ Null \notin Buffers \cup Addrs
    /\ MaxConnects \in Nat

VARIABLES
    image,      \* GRenderWindow::screen_image (its buffer)
    freed,      \* buffers released and not handed out again
    gpc,        \* GUI thread: the store of RequestCTroll3D about to run
    argBuf,     \* data argument of the RequestCTroll3D call in progress
    argAddr,    \* address captured by the callback of that call
    bits,       \* g_ctroll3d_bits
    cb,         \* g_ctroll3d_complete_callback: its captured address, or Null
    addrStr,    \* g_ctroll3d_addr
    rpc,        \* renderer: "idle", "filled" (buffer written), "calling"
    rbits,      \* the buffer pointer the renderer read
    rcb,        \* the callback the renderer is running (its address)
    peer,       \* the address processFrameData's socket is connected to
    connects    \* calls of ConnectCTroll3D so far

gui == <<image, freed, gpc, argBuf, argAddr, connects>>
shared == <<bits, cb, addrStr>>
renderer == <<rpc, rbits, rcb>>
vars == <<gui, shared, renderer, peer>>

\* The globals of video_core.cpp lines 39-42 start zeroed.
Init ==
    /\ image = Null
    /\ freed = {}
    /\ gpc = "idle"
    /\ argBuf = Null
    /\ argAddr = Null
    /\ bits = Null
    /\ cb = Null
    /\ addrStr = Null
    /\ rpc = "idle"
    /\ rbits = Null
    /\ rcb = Null
    /\ peer = Null
    /\ connects = 0

-----------------------------------------------------------------------------
(* GUI thread.                                                             *)

\* Mutant: RequestCTroll3D handed screen_image.bits() before line 677
\* replaces the image.
ConnectBitsBeforeAlloc(a) ==
    /\ gpc = "idle"
    /\ connects < MaxConnects
    /\ \E n \in Buffers \ {image} :
         /\ image' = n
         /\ freed' = (freed \cup ({image} \ {Null})) \ {n}
         /\ argBuf' = image
    /\ argAddr' = a
    /\ gpc' = "bits"
    /\ connects' = connects + 1
    /\ UNCHANGED <<shared, renderer, peer>>

\* Lines 676-683: screen_image = QImage(...) takes a new buffer and releases
\* the old one; its bits() and a lambda capturing address are passed on.
ConnectCTroll3D(a) ==
    /\ gpc = "idle"
    /\ connects < MaxConnects
    /\ \E n \in Buffers \ {image} :
         /\ image' = n
         /\ freed' = (freed \cup ({image} \ {Null})) \ {n}
         /\ argBuf' = n
    /\ argAddr' = a
    /\ gpc' = "bits"
    /\ connects' = connects + 1
    /\ UNCHANGED <<shared, renderer, peer>>

\* Line 91: g_ctroll3d_bits = data.
StoreBits ==
    /\ gpc = "bits"
    /\ bits' = argBuf
    /\ gpc' = "callback"
    /\ UNCHANGED <<image, freed, argBuf, argAddr, connects, cb, addrStr, renderer, peer>>

\* Line 92: g_ctroll3d_complete_callback = std::move(callback).
StoreCallback ==
    /\ gpc = "callback"
    /\ cb' = argAddr
    /\ gpc' = "address"
    /\ UNCHANGED <<image, freed, argBuf, argAddr, connects, bits, addrStr, renderer, peer>>

\* Lines 93-97: the layout, then g_ctroll3d_addr freed and strdup'ed.
StoreAddress ==
    /\ gpc = "address"
    /\ addrStr' = argAddr
    /\ gpc' = "idle"
    /\ UNCHANGED <<image, freed, argBuf, argAddr, connects, bits, cb, renderer, peer>>

GuiStep ==
    \/ \E a \in Addrs : ConnectCTroll3D(a)
    \/ StoreBits \/ StoreCallback \/ StoreAddress

-----------------------------------------------------------------------------
(* Renderer, after every present, while a callback is registered.         *)

\* The frame is copied into the buffer g_ctroll3d_bits points to.
FillBuffer ==
    /\ rpc = "idle"
    /\ cb # Null
    /\ rpc' = "filled"
    /\ rbits' = bits
    /\ UNCHANGED <<gui, shared, rcb, peer>>

\* The callback is read and called with the pixel pointer.
InvokeCallback ==
    /\ rpc = "filled"
    /\ rpc' = "calling"
    /\ rcb' = cb
    /\ UNCHANGED <<gui, shared, rbits, peer>>

\* processFrameData(layout, frameData, address), lines 590-597: only an
\* unconnected socket is connected, to the address the running callback
\* captured; the attempt may fail.
ProcessFrame ==
    /\ rpc = "calling"
    /\ rpc' = "idle"
    /\ peer' \in IF peer = Null THEN {rcb, Null} ELSE {peer}
    /\ UNCHANGED <<gui, shared, rbits, rcb>>

RenderStep == FillBuffer \/ InvokeCallback \/ ProcessFrame

\* The viewer closes the connection; the next upkeep finds it unconnected.
PeerClose ==
    /\ peer # Null
    /\ peer' = Null
    /\ UNCHANGED <<gui, shared, renderer>>

Next == GuiStep \/ RenderStep \/ PeerClose

Spec == Init /\ [][Next]_vars

\* The renderer presents frames for as long as the emulation runs, the GUI
\* thread finishes a call it has begun, and the viewer's host is reachable:
\* a connection that keeps being possible is eventually made.
ConnectSucceeds == ProcessFrame /\ peer = Null /\ peer' # Null

FairSpec ==
    /\ Spec
    /\ WF_vars(RenderStep)
    /\ WF_vars(StoreBits \/ StoreCallback \/ StoreAddress)
    /\ SF_vars(ConnectSucceeds)

-----------------------------------------------------------------------------
(* Properties.                                                             *)

TypeOK ==
    /\ image \in Buffers \cup {Null}
    /\ freed \subseteq Buffers
    /\ gpc \in {"idle", "bits", "callback", "address"}
    /\ argBuf \in Buffers \cup {Null}
    /\ {argAddr, cb, addrStr, rcb, peer} \subseteq Addrs \cup {Null}
    /\ bits \in Buffers \cup {Null}
    /\ rpc \in {"idle", "filled", "calling"}
    /\ rbits \in Buffers \cup {Null}
    /\ connects \in 0 .. MaxConnects

\* The frame the renderer writes and hands to processFrameData is in the
\* buffer screen_image owns at that moment (bootmanager.cpp line 677,
\* video_core.cpp line 91): never the null pointer of an unfinished
\* registration, never a buffer a later ConnectCTroll3D released.
RendersIntoScreenImage == rpc # "idle" => rbits = image

\* Once RequestCTroll3D has republished g_ctroll3d_bits (video_core.cpp
\* line 91), every frame the renderer begins to fill goes into the buffer
\* screen_image owns, however often the stream is re-registered: the stale
\* pointer left by line 677 can only be taken by a fill that begins between
\* line 677 and line 91.
FillsScreenImageOnceRepublished ==
    [][rpc = "idle" /\ rpc' = "filled" /\ gpc # "bits" => rbits' = image]_vars

\* RequestCTroll3D's store of line 92 never assigns the std::function while
\* the renderer is running the callback it holds: the two accesses are not
\* synchronised.
CallbackNotReplacedWhileRunning ==
    [][gpc = "callback" /\ gpc' = "address" => rpc # "calling"]_vars

\* Once ConnectCTroll3D(a) has returned, frames eventually go to a (the
\* static socket of lines 587-597 ends up connected to it), unless the
\* stream is registered again with another address.
NewAddressReached ==
    \A a \in Addrs : (gpc = "idle" /\ addrStr = a) ~> (peer = a \/ addrStr # a)

=============================================================================
