# TLA+ verification of the CTroll3D frame streamer

This directory models the frame streamer of this repository
(`src/src/citra_qt/bootmanager.cpp`, `src/src/video_core/video_core.{h,cpp}`). It also
models two neighbouring pieces of concurrent code in the same files: the emulation thread's
run loop and the one-shot screenshot request. The modules are model-checked with TLC on small
instances. The most important invariants are proved with TLAPS for every value of the
constants.

## The system

The renderer calls the callback registered by `ConnectCTroll3D` after every presented frame.
That callback is `GRenderWindow::processFrameData`. All of its state lives in function statics
and globals:

- `lastImage`: the host's reference frame.
- `diffMap` and `diffBuf`: the dirty-block bitmap and the packed dirty blocks.
- `forceFrameCount`, `checker` and `lastFrameMode`.
- The static `QTcpSocket` and its retry countdown `waitConnection`.

Each call does the following:

1. Connection upkeep (lines 587-597).
2. It chooses a mode (606-621). A FULL frame is forced when `forceFrameCount > 100`; otherwise
   CHECKER_COMPL follows CHECKER, and otherwise the mode comes from `imageDiff`.
3. It writes the message with several `socketSend` calls and updates the counters (623-670).
4. It reads at most one acknowledgement byte (`readConfirmation`).

A call without a frame only does the upkeep and the read. The viewer is not part of the
repository, so its behaviour is taken from the wire protocol in spec section 6.

`EmuThread::run` (lines 45-114) is the emulation loop. The GUI thread pauses, resumes,
single-steps and stops it through the flags `running`, `exec_step` and `stop_run`, and the
loop reports debugger mode changes with the signals `DebugModeLeft` and `DebugModeEntered`.

`ConnectCTroll3D` (675-703) registers the stream on the GUI thread. It gives `screen_image` a
new pixel buffer, which releases the old one. It then calls `VideoCore::RequestCTroll3D`
(video_core.cpp 88-98), which stores the buffer pointer, the callback (a lambda that captures
the address) and the address into plain globals. Nothing synchronises those stores with the
renderer, which reads the pointer and runs the callback after every frame on the emulation
thread.

`CaptureScreenshot` (426-442) and `VideoCore::RequestScreenshot` (video_core.cpp 76-86) hand a
buffer and a completion callback to the renderer thread, guarded by the atomic
`g_renderer_screenshot_requested`.

## Modules

| Module | Models | State |
|---|---|---|
| `FramePump` | Block Differencer, Frame-Mode Selector, Stream Transport, Frame Pump; the viewer (spec-modelled) | `screen`, `lastImage`, `diffMap`, `diffBuf`, `forceFrameCount`, `checker`, `lastFrameMode`, `sockState`, `waitConnection`, `sockRx`, `peerImage`, plus history variables `sentCode`, `delivered`, `sinceFull`, `stableFor` |
| `MC_FramePump` | a three-block instance with four frames | |
| `FramePumpProofs` | TLAPS proofs for `FramePump` | |
| `EmuThread` | `EmuThread::run` with the GUI setters as its environment | `pc` (the source line about to run), the three flags, `was_active`, plus history variables `sig` and `lastSignal` |
| `EmuThreadProofs` | TLAPS proof of the debugger-signal property | |
| `Screenshot`, `MC_Screenshot` | screenshot request against the renderer | `image`, `freed`, `gpc`, `arg`, `requested`, `bits`, `rpc`, plus history variables |
| `ScreenshotSlot` | the one-slot screenshot request the header promises | `pending`, `rpc`, `target` |
| `ScreenshotProofs` | TLAPS proofs for `Screenshot` | |
| `KeyframePolicy` | the frame-mode selector's contract, with no images or socket | `last`, `clock`, `started`, `phase` |
| `Registration`, `MC_Registration` | `ConnectCTroll3D` and `RequestCTroll3D` against the renderer and the socket upkeep | `image`, `freed`, `gpc`, `argBuf`, `argAddr`, `bits`, `cb`, `addrStr`, `rpc`, `rbits`, `rcb`, `peer`, `connects` |
| `RegistrationProofs` | TLAPS proof for a single registration | |

### FramePump: the abstraction

A frame is a function from `Blocks == 1..NumBlocks` to the two checkerboard halves `{0,1}` of
each block, and each half holds a value in `Vals`.

- **squareDiff** becomes the sum of the two halves' absolute differences, compared with
  `Threshold` using the code's strict `>`. The early exit of line 494 changes only when the
  summation stops, not the result.
- **imageDiff** gives the set of dirty blocks (`diffMap`). `diffBuf` is the sequence of their
  contents in bitmap order: block `b` sits at position `Rank(map, b)`, which is the value of
  `numSqDiff` when the loop reaches `b`. `lastImage` becomes the dirty blocks copied over the
  old reference (`copySquare`).
- **Checker frames** carry the half of every block selected by the `checker` phase. Line 663
  sends them with wire code `3 + checker`.
- **JPEG** compression is treated as below the model's resolution. A message carries what the
  viewer decodes, and spec section 8 asks for DIFF round trips to be checked at the level of
  the bitmap and the selected pixels.
- **The socket** is a `QAbstractSocket` state in {Unconnected, Connecting, Connected}.
  - `connectToHost` followed by `waitForConnected(1000)` may end in any of the three states.
  - A send may find the connection gone; the rest of the frame is then lost and the socket is
    Unconnected.
  - `waitForReadyRead(0)` may complete a pending connection or detect a close.
  - `connectToHost` clears the read buffer.
  - The viewer writes acknowledgement bytes, up to `MaxRx` unread.

`ProcessFrameData(f)` is the whole call with a frame, as one action. The spec says the pump is
never entered concurrently, so the interleaving that matters is with the viewer and the
network, not inside the call. `PollConfirmation` is the call without a frame. `PeerAck` is the
viewer's acknowledgement.

The history variables exist only for the properties:

- `sentCode` is the code written on the wire.
- `delivered` records whether the whole message reached the viewer.
- `sinceFull` counts the calls since the last FULL frame.
- `stableFor` counts the consecutive delivered calls with an unchanged frame. It saturates at
  `ForceLimit + 2`.

### EmuThread

Every read of a shared flag is its own step. The GUI thread may therefore change `running`,
`exec_step` or `stop_run` between line 73 and line 89, or between line 89 and line 90.
`System::RunLoop` and `SingleStep` are one step each. `RunLoop` ends in Success,
ShutdownRequested (the loop breaks) or another error (`SetRunning(false)`).

The setters are in `bootmanager.h`, which is not part of this repository. They are modelled
as atomic writes followed by `notify_all`, so the wait of line 104 is blocked exactly while
its predicate is false. That assumption about code we cannot see is what `StopTerminates`
depends on.

### Screenshot

Buffers are model values. Line 430 gives `screenshot_image` a new buffer and frees the old
one, and the allocator may reuse a freed buffer. `g_screenshot_bits` is a raw pointer that
keeps nothing alive. The three shared accesses of `RequestScreenshot` are separate steps:

1. the test of line 78;
2. the stores of lines 82-84;
3. the flag store of line 85.

The renderer is modelled from the interface, as it is not in the repository. Once it sees the
flag, it renders into `g_screenshot_bits`, runs the callback (which saves `screenshot_image`
as it is at that moment) and clears the flag.

`ScreenshotSlot` is what `video_core.h` promises ("Request a screenshot of the next frame"),
with the GUI's steps and buffer ownership left out. It is a single request slot:

- `Request(b)` is taken only while the slot is empty;
- `Render` writes into the pending buffer;
- `Complete` empties the slot.

`Screenshot` defines `Slot == INSTANCE ScreenshotSlot WITH pending <- IF requested THEN bits
ELSE Null`. `rpc` and `target` map to themselves. The linearisation point of a request is the
flag store of line 85. An ignored request, and the steps before the flag, are stutters.

### KeyframePolicy and the refinement

`KeyframePolicy` says what the selector promises and nothing about how it decides:

- the first frame is FULL;
- a frame that is not FULL advances a refresh clock by at least one;
- once the clock is past `Limit`, the next frame is FULL, which resets the clock;
- CHECKER_COMPL follows CHECKER unless a keyframe is due;
- each checker frame samples the half opposite to the previous one.

How a frame is classified, and by how much the clock moves, is left open. `FramePump` defines
`Policy == INSTANCE KeyframePolicy` with this mapping:

| abstract | detailed |
|---|---|
| `Limit` | `ForceLimit` |
| `last` | `lastFrameMode` |
| `clock` | `forceFrameCount` |
| `started` | `lastImage # NoImage` |
| `phase` | `checker` |

The property `ImplementsKeyframePolicy == Policy!Spec` is checked by TLC and proved by TLAPS.
The policy says nothing about wire codes, so the checker-phase finding below is consistent
with it. The code keeps the wire code equal to `3 + checker`. What it breaks is the link
between a frame's position in a checker pair and its code: the phase is not reset by a
keyframe, so a pair can go out as 4 then 3.

### Registration

Buffers and addresses are model values, and `Null` stands for a null pointer, an empty
`std::function` and an unconnected socket.

- `ConnectCTroll3D(a)` is line 677 with its argument evaluation. It picks a buffer other than
  the current one, frees the old one, and starts the call.
- Each store of `RequestCTroll3D` is its own step, in the code's order:
  - `StoreBits` (line 91);
  - `StoreCallback` (line 92);
  - `StoreAddress` (lines 93-97).

  The layout store is left out, because every call passes the same layout.
- The renderer is not in the repository. It is modelled from spec section 6 and from how
  `SwapBuffers` serves the screenshot. It runs on the emulation thread, concurrently with the
  GUI thread, in three steps:
  - `FillBuffer` reads `g_ctroll3d_bits` and fills that buffer;
  - `InvokeCallback` reads the callback;
  - `ProcessFrame` runs it.
- Of `processFrameData`, `ProcessFrame` keeps only the connection upkeep (lines 587-597). An
  unconnected static socket is connected, perhaps unsuccessfully, to the address the running
  callback captured. A connected one is left alone. `FramePump` models the retry back-off.
- `PeerClose` is the viewer closing the connection.

## Runs

| Run | cfg | Expect | Properties |
|---|---|---|---|
| stream_safety | `MC_FramePump.cfg` | pass | TypeOK, KeyframeBound, DiffRoundTrip, StableShown, ImplementsKeyframePolicy |
| reconnect_liveness | `MC_FramePump_live.cfg` | pass | Reconnects |
| keyframe_resync | `MC_FramePump_resync.cfg` | violation | KeyframeResyncs |
| checker_wire_phase | `MC_FramePump_wire.cfg` | violation | WireCheckerPhase |
| emu_thread | `EmuThread.cfg` | pass | NoExecutionInDebugMode, DebugSignalsAlternate, StopTerminates |
| screenshot_handshake | `MC_Screenshot.cfg` | pass | RendersAcceptedRequest, ImplementsScreenshotSlot |
| screenshot_uaf | `MC_Screenshot_uaf.cfg` | violation | RendersLiveBuffer |
| registration_session | `MC_Registration.cfg` | pass | RendersIntoScreenImage |
| registration_republish | `MC_Registration_republish.cfg` | pass | FillsScreenImageOnceRepublished |
| registration_uaf | `MC_Registration_uaf.cfg` | violation | RendersIntoScreenImage |
| callback_race | `MC_Registration_race.cfg` | violation | CallbackNotReplacedWhileRunning |
| readdress | `MC_Registration_readdress.cfg` | violation | NewAddressReached |

What the properties say:

- **KeyframeBound**: at most `ForceLimit + 1` calls pass between FULL frames.
- **DiffRoundTrip**: after a delivered DIFF, the viewer's unpacking of the bitmap and the
  packed blocks gives each dirty block exactly the content the host now holds in `lastImage`.
  This checks that the packing order matches the bitmap order and that the reference update
  matches the blocks sent.
- **StableShown**: bounded staleness. After `ForceLimit + 2` consecutive delivered calls with
  the same frame, the viewer shows that frame. `ForceLimit + 1` is violated, so the bound is
  tight.
- **Reconnects**: a lost connection always comes back.
- **DebugSignalsAlternate**: the debugger signals strictly alternate, starting with
  `DebugModeLeft`.
- **StopTerminates**: a stop request always ends the loop.
- **RendersAcceptedRequest**: while the renderer serves a request, the buffer it wrote is the
  one of the latest accepted request.
- **NoExecutionInDebugMode**: `System::RunLoop` (line 77) and `System::SingleStep` (line 98)
  run only while DebugModeLeft is the latest signal the debugger UI received. The debugger
  never inspects a running core.
- **ImplementsScreenshotSlot**: the screenshot handshake implements `ScreenshotSlot` under the
  mapping above.
- **RendersLiveBuffer**: the renderer never writes into a freed buffer. The code violates it
  (`screenshot_uaf`).
- **ImplementsKeyframePolicy**: the streamer refines `KeyframePolicy` under the mapping above.
- **RendersIntoScreenImage**: the buffer the renderer fills and hands to the callback is the
  one `screen_image` owns at that moment. It is never null and never a released buffer. It
  holds with one registration and fails with two (`registration_uaf`).
- **FillsScreenImageOnceRepublished**: for any number of registrations, a fill that begins
  after line 91 has republished `g_ctroll3d_bits` goes into the buffer `screen_image` owns.
  The stale pointer of line 677 can only be taken by a fill that begins inside the window
  between line 677 and line 91.
- **CallbackNotReplacedWhileRunning**: the store of line 92 never happens while the renderer
  runs the callback it replaces. The code violates it when `ConnectCTroll3D` is called twice
  (`callback_race`).
- **NewAddressReached**: once `ConnectCTroll3D(a)` has returned, the socket eventually connects
  to `a`, unless the stream is registered again with another address.

### Bounds

**FramePump** runs with `NumBlocks = 3` and `Vals = {0,1}`. With `Threshold = 1`, a block
whose two halves both change is dirty, while one changed half is not. One dirty block is
therefore a DIFF, and two or more (more than `3 \div 3`) make a CHECKER frame. The four frames
cover every mode and below-threshold drift:

- black;
- one block changed;
- half a block changed;
- everything changed.

The other bounds:

- `ForceLimit = 6` stands in for 100. With the increments 1, 5 and 3, the forced FULL
  happens after one DIFF and one CHECKER, which can interrupt a checker pair.
- `RetryWait = 2` stands in for 300, and `MaxRx = 1`.

The safety run reaches 216,084 distinct states, with a diameter of 24.

**EmuThread** has no data. Its run covers every interleaving (216 states).

**Screenshot** uses three buffers, enough for a freed buffer to be reused while a third is live
(637 states).

**Registration**, `registration_session`:

- It allows one call of `ConnectCTroll3D`, the way the GUI uses
  it at session start.
- It has three buffers and three addresses (163 states), so any viewer may be the one
  registered.

`registration_republish` and the violation runs allow two calls, the smallest number that
re-registers. `registration_republish` has three buffers, so the second call may take a fresh
buffer or reuse the one the first call freed (1,573 states).

`stream_safety` also checks the refinement `ImplementsKeyframePolicy` on the same constants
(216,084 states).

### Fairness

- `reconnect_liveness` assumes frame calls are weakly fair: the renderer keeps presenting
  frames. A successful connect is strongly fair: a reachable viewer accepts an attempt that
  is repeated infinitely often. Without that, a peer that never accepts is a legitimate
  behaviour.
- `readdress` assumes three kinds of fairness:
  - the renderer's steps are weakly fair, because frames keep being presented while emulation
    runs;
  - the GUI thread's stores are weakly fair, because a call that has begun returns;
  - a successful connect is strongly fair, for the same reason as above.

  `PeerClose` is not fair: a viewer may stay connected forever. This is what lets the
  `readdress` run keep the old viewer.
- `emu_thread` assumes only weak fairness of the emulation thread's own steps. The GUI thread
  is never obliged to act.

### Mutants

Each property of a passing run is broken by a plausible bug in the definition it depends on,
listed in `PROJECT.json` ("mutants"):

- `checker + 1` without the `& 1` mask breaks TypeOK.
- A NONE frame that does not advance `forceFrameCount` breaks KeyframeBound.
- A missing `copySquare` breaks DiffRoundTrip.
- A missing periodic keyframe breaks StableShown.
- A missing `waitConnection--` breaks Reconnects.
- `DebugModeLeft` without its `was_active` guard breaks DebugSignalsAlternate.
- A wait predicate without `stop_run` breaks StopTerminates.
- Dropping the in-progress test of line 78 breaks RendersAcceptedRequest and
  ImplementsScreenshotSlot.
- A single-step path that emits no DebugModeLeft (lines 93-94) breaks NoExecutionInDebugMode.
- A NONE frame that does not advance `forceFrameCount` breaks ImplementsKeyframePolicy.
- Passing the old `screen_image.bits()` (buffer taken before line 677) breaks
  RendersIntoScreenImage and FillsScreenImageOnceRepublished.

## Findings

1. **Keyframes do not resync the reference** (`keyframe_resync`).
   - A forced FULL skips `imageDiff` (line 615), so `lastImage` is not refreshed.
   - Counterexample: a DIFF is lost, the block changes back, and a forced FULL shows the viewer
     the current frame. `lastImage` still holds the old content.
   - From then on, a block that returns to the old reference content is never marked dirty,
     and the viewer keeps the stale block until the next keyframe.
   - It fails without any loss too. On a connection that never drops, a change below
     `Threshold` leaves `lastImage` behind the frame, and the forced FULL that shows the viewer
     the frame does not refresh it. This was checked by TLC on a copy of the model with
     lossless sends.
   - Spec 4.2 says the keyframe guarantees convergence. `StableShown` shows staleness is still
     bounded, by the *next* keyframe.
2. **Checker wire codes swap** (`checker_wire_phase`).
   - `checker` only toggles on checker frames. When a forced FULL interrupts a pair, the phase
     stays 1.
   - The next CHECKER frame then goes out with code 4 and its CHECKER_COMPL with code 3. The
     spec 6 table says CHECKER is 3 and CHECKER_COMPL is 4.
3. **Screenshot use-after-free** (`screenshot_uaf`).
   - `CaptureScreenshot` replaces `screenshot_image` (line 430) before `RequestScreenshot`
     checks whether a request is pending.
   - A second capture frees the buffer the renderer is about to fill, and the callback then
     saves the new blank image.

4. **Re-registration frees the rendered buffer** (`registration_uaf`).
   - A second `ConnectCTroll3D` releases the old `screen_image` buffer at line 677.
   - `g_ctroll3d_bits` still points to that buffer until line 91.
   - A frame rendered in between is written into freed memory and handed to
     `processFrameData`.
5. **Callback replaced while running** (`callback_race`).
   - Line 92 move-assigns the `std::function` while the renderer thread may be running it.
   - This is a data race. It destroys the lambda whose captured `layout` and `address` the
     running call uses.
6. **New address ignored** (`readdress`).
   - `processFrameData` uses its address only when its static socket is unconnected (line 589).
   - After re-registration with another viewer, frames keep going to the old one for as long
     as it stays connected.

## Proofs (TLAPS)

`FramePumpProofs` proves five theorems:

- **TypeCorrect**: `Spec => []TypeOK`. `TypeOK` is inductive as it stands. The hard part is
  `diffBuf \in [1..Cardinality(diffMap) -> ...]`. That needs the lemmas RankRange and
  RankInjective: block ranks are distinct and lie in `1..|map|` (`FS_Subset`, `FS_Interval`).
  From these, RankOnto shows every position is some block's rank, via `FS_Injection`: an
  injection between finite sets of equal size is a surjection.
- **KeyframeBoundHolds**: `Spec => []KeyframeBound`.
  - The inductive strengthening `CounterInv` adds `sinceFull <= forceFrameCount`.
  - The reason: every non-FULL frame adds at least 1 to `forceFrameCount`, and a non-FULL mode
    is possible only while `forceFrameCount <= ForceLimit` (lemma FrameModeFacts).
- **StableShownHolds**: `Spec => []StableShown`.
  - The strengthening `StableInv` says that while the viewer differs from the frame,
    `stableFor <= forceFrameCount` and `stableFor <= ForceLimit + 1`.
  - The key lemma ShownFrameKept: a NONE, DIFF or checker message computed from the frame the
    viewer already shows leaves it unchanged. For DIFF this uses PutSquaresAt: the viewer
    finds block `b` at position `Rank(map, b)`.
- **DiffRoundTripHolds**: `Spec => []DiffRoundTrip`. `DiffRoundTrip` is inductive with
  `TypeOK`. A delivered DIFF puts each dirty block's packed content at its rank (PutSquaresAt),
  and that content is exactly what `copySquare` wrote into `lastImage`. Any other step either
  clears `delivered` or does not touch the viewer, the bitmap or the reference.
- **ImplementsKeyframePolicyHolds**: `Spec => ImplementsKeyframePolicy`. It is proved in two
  parts:
  - the initial states map to `Policy!Init`;
  - under `TypeOK`, every step maps to a `Policy!Frame(m)` (lemma FrameIsPolicyStep, via
    ModeAllowed: the chosen mode is in `Policy!Allowed`) or to a stutter.

  The proof closes with PTL.

`EmuThreadProofs` proves **DebugSignalsAlternateHolds**: `Spec => [][sig' # none => sig' #
lastSignal]_vars`.

- The inductive invariant `DebugInv` relates `pc`, `was_active` and the last signal. Inside a
  run of the emulator or of a single step, the last signal is DebugModeLeft. Between
  iterations, it is the one `was_active` implies, except just after a stop request seen at
  line 90.
- The action property follows with one case per action.
- **NoExecutionInDebugModeHolds**: `Spec => []NoExecutionInDebugMode`. It is a corollary of
  `DebugInv`.

`ScreenshotProofs` proves **ScreenshotTypeCorrect** and **RendersAcceptedRequestHolds** for
every set of buffers. The strengthening `HandshakeInv` adds four facts:

- while the renderer has written, the flag is set and its target is the accepted buffer;
- while the flag is set, `g_screenshot_bits` is the accepted buffer;
- between the test of line 78 and the flag store of line 85, the flag is clear, the renderer
  is idle and the accepted buffer is the argument;
- at the flag store, `g_screenshot_bits` already holds the argument.

The order of lines 82 and 85 is what the proof uses. Two more conjuncts say that the argument
of a call in progress, and the pointer a set flag publishes, are real buffers.

- **ImplementsScreenshotSlotHolds**: `Spec => ImplementsScreenshotSlot`. Lemma SlotStep maps
  every step under `HandshakeInv`:
  - the test, the stores and the capture happen with the flag clear, so they are stutters;
  - the flag store is `Slot!Request(bits)`;
  - the renderer's two steps are `Slot!Render` and `Slot!Complete`.
`RegistrationProofs` proves **RepublishedFillsScreenImage**:
`Spec => FillsScreenImageOnceRepublished`, with no bound on the calls of `ConnectCTroll3D`.
The invariant `RepublishInv` says that `g_ctroll3d_bits` differs from `screen_image`'s buffer
only while a call has not yet run the store of line 91, and that the pointer this store will
publish is the buffer line 677 just took. A fill outside that window therefore reads the live
buffer. The theorem does not rest on the renderer's test for a registered callback.

The assumptions are the named `ASSUME`s of `FramePump`: `NumBlocks >= 1`, `ForceLimit \in
Nat`, `Frames \subseteq Image`, and so on. No module with a theorem uses recursion.

**Only model-checked:**

- the liveness properties `Reconnects` and `StopTerminates`, because TLAPS does not handle
  fairness or ENABLED here;
- `NewAddressReached` (liveness);
- `KeyframeResyncs` and `WireCheckerPhase`, which are violated. There is no honest
  hypothesis under which `KeyframeResyncs` holds, not even lossless delivery: a forced FULL
  never refreshes `lastImage`, so below-threshold drift or an interrupted checker pair
  already separates it from what the viewer shows.

## Not modelled

- **Byte-level encoding.** This covers the lossy JPEG and the `uint16_t dataSize` of line
  629. Line 631 sends exactly `dataSize` bytes, so a payload over 65535 bytes stays framed
  but reaches the viewer truncated, as a corrupt image. A message in `FramePump` carries the
  decoded image, not its size.
- **Registration combined with the full pump.** `Registration` keeps only the connection
  upkeep of `processFrameData`. A new viewer that inherits the statics therefore receives
  DIFFs against a reference it never had. That hazard (line 590) is not covered: the
  modelled viewer keeps its image across reconnects, so a new viewer is not modelled.
- **Blocking durations.** `waitForBytesWritten` and `waitForConnected` are not timed.
- **Qt widget, OpenGL context and input code.** The input handlers (lines 278-394) forward
  events to the emulator's touch and key state, which is not in this repository.
- **The video core's Init/Shutdown.**

## Plan for later work

1. Compose `Registration` with `FramePump` and two viewers, to check that a new viewer gets a
   keyframe before any DIFF.
2. Model the payload size per frame and the `uint16_t` length, so that a truncated keyframe
   is visible to `StableShown`.
3. Model the ack backlog as a queue of byte values, so that the back-pressure value can be
   compared with the viewer's state.
