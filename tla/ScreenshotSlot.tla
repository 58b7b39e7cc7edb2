--------------------------- MODULE ScreenshotSlot ---------------------------
(***************************************************************************)
(* What VideoCore::RequestScreenshot and the renderer promise together     *)
(* (video_core.h: "Request a screenshot of the next frame"), with the GUI  *)
(* thread's steps and the buffers' ownership left out: a single request    *)
(* slot.  A request is taken only while the slot is empty; the renderer    *)
(* writes the next frame into the buffer of the pending request and the   *)
(* completion empties the slot.  A request made while the slot is full is  *)
(* not taken, so it is no step here.                                       *)
(***************************************************************************)
CONSTANTS
    Buffers,    \* pixel buffers a request may name
    Null        \* no request pending, no frame written yet

VARIABLES
    pending,    \* the buffer of the pending request, or Null
    rpc,        \* renderer: "idle", or "wrote" once the frame is written
    target      \* the buffer the latest frame was written into

vars == <<pending, rpc, target>>

Init ==
    /\ pending = Null
    /\ rpc = "idle"
    /\ target = Null

\* A request for buffer b is taken while none is pending.
Request(b) ==
    /\ pending = Null
    /\ pending' = b
    /\ UNCHANGED <<rpc, target>>

\* The renderer writes the frame into the pending request's buffer.
Render ==
    /\ pending # Null
    /\ rpc = "idle"
    /\ rpc' = "wrote"
    /\ target' = pending
    /\ UNCHANGED pending

\* The completion callback has run: the slot is free again.
Complete ==
    /\ rpc = "wrote"
    /\ rpc' = "idle"
    /\ pending' = Null
    /\ UNCHANGED target

Next == (\E b \in Buffers : Request(b)) \/ Render \/ Complete

Spec == Init /\ [][Next]_vars

=============================================================================
