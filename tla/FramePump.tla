----------------------------- MODULE FramePump -----------------------------
(***************************************************************************)
(* The CTroll3D frame streamer of citra_qt/bootmanager.cpp: the static     *)
(* state of GRenderWindow::processFrameData (lines 578-673), the block      *)
(* differencer it calls (imageDiff, squareDiff, copySquare, putSquare,      *)
(* lines 483-570), the socket helpers (socketSend, readConfirmation, lines  *)
(* 444-466), and the remote viewer that decodes the wire protocol.          *)
(*                                                                         *)
(* Data abstraction.  A frame is a function from block indices (row-major, *)
(* the order of imageDiff's loops and of the diffMap bits) to the two       *)
(* checkerboard halves of the block: every 8x8 block holds 32 pixels of     *)
(* each parity (i+j) mod 2, which is exactly what the checker sampling of   *)
(* lines 647-660 selects.  A half carries one value from Vals; the per-     *)
(* channel sum of squareDiff becomes the sum of the two halves' absolute    *)
(* differences, compared with Threshold (MIN_SQDIFF) by the same strict >.  *)
(* JPEG compression is below this resolution: a decoded payload carries the *)
(* values that were compressed.                                            *)
(***************************************************************************)
EXTENDS Naturals, FiniteSets

CONSTANTS
    NumBlocks,    \* (240/8)*(320/8) blocks of the capture layout
    Vals,         \* the values a half-block can take
    Threshold,    \* MIN_SQDIFF (8*8*3)
    Frames,       \* the frames the renderer may hand to the callback
    ForceLimit,   \* forceFrameCount threshold of line 607 (100)
    RetryWait,    \* calls between connection attempts, line 592 (300)
    MaxRx,        \* bound on unread acknowledgement bytes in the socket
    NoImage       \* lastImage before its malloc, line 611

Blocks == 1 .. NumBlocks
Halves == {0, 1}
Image == [Blocks -> [Halves -> Vals]]

ASSUME NumBlocksAssumption == NumBlocks \in Nat \ {0}
ASSUME ValsAssumption == Vals \subseteq Nat /\ 0 \in Vals
ASSUME ThresholdAssumption == Threshold \in Nat
ASSUME FramesAssumption == Frames \subseteq Image /\ Frames # {}
ASSUME ForceLimitAssumption == ForceLimit \in Nat
ASSUME RetryWaitAssumption == RetryWait \in Nat
ASSUME MaxRxAssumption == MaxRx \in Nat
ASSUME NoImageAssumption == NoImage \notin Image

\* Frame modes, lines 572-576; they are also the 16-bit codes on the wire.
FM_NONE == 0
FM_FULL == 1
FM_DIFF == 2
FM_CHECKER == 3
FM_CHECKER_COMPL == 4
Modes == {FM_NONE, FM_FULL, FM_DIFF, FM_CHECKER, FM_CHECKER_COMPL}

\* QAbstractSocket states the streamer can observe.
Unconnected == "Unconnected"
Connecting == "Connecting"
Connected == "Connected"
SockStates == {Unconnected, Connecting, Connected}

\* What the viewer shows before it has decoded anything.
Blank == [b \in Blocks |-> [h \in Halves |-> 0]]

VARIABLES
    screen,          \* the frame passed by the latest call (NoImage before)
    lastImage,       \* host reference frame, NoImage until the first call
    diffMap,         \* blocks whose bit is set in diffMap
    diffBuf,         \* diffBuf: the dirty blocks packed in bitmap order
    forceFrameCount, \* static int forceFrameCount
    checker,         \* static int checker: sampling phase of the next checker frame
    lastFrameMode,   \* static uint16_t lastFrameMode
    sockState,       \* state of the static QTcpSocket sock
    waitConnection,  \* static unsigned waitConnection
    sockRx,          \* acknowledgement bytes received and not yet read
    peerImage,       \* the image the viewer displays
    sentCode,        \* history: the mode code the latest frame call wrote
    delivered,       \* history: the latest frame call's message reached the viewer
    sinceFull,       \* history: frame calls since the latest FULL frame
    stableFor        \* history: delivered calls in a row with an unchanged frame

vars == <<screen, lastImage, diffMap, diffBuf, forceFrameCount, checker,
          lastFrameMode, sockState, waitConnection, sockRx, peerImage,
          sentCode, delivered, sinceFull, stableFor>>

\* stableFor saturates here: the bound of StableShown plus one.
StableCap == ForceLimit + 2

-----------------------------------------------------------------------------
(* Block differencer, lines 483-570.                                       *)

AbsDiff(a, b) == IF a >= b THEN a - b ELSE b - a

\* squareDiff: the block differs by more than MIN_SQDIFF.  The early return
\* of line 494 only stops summing once the sum exceeds the threshold.
SquareDiff(last, cur, b) ==
    AbsDiff(last[b][0], cur[b][0]) + AbsDiff(last[b][1], cur[b][1]) > Threshold

DirtyBlocks(last, cur) == {b \in Blocks : SquareDiff(last, cur, b)}

\* Position of block b among the set bits of map: numSqDiff when b is reached.
Rank(map, b) == Cardinality({d \in map : d <= b})

\* putSquare into diffBuf + 8*8*3*numSqDiff: the i-th dirty block in order.
PutSquares(map, cur) ==
    [i \in 1 .. Cardinality(map) |-> cur[CHOOSE b \in map : Rank(map, b) = i]]

\* Mutant: copySquare forgotten, the dirty blocks never reach lastImage.
ImageDiffNoCopy(last, cur) ==
    LET map == DirtyBlocks(last, cur)
    IN  [map |-> map, buf |-> PutSquares(map, cur), ref |-> last]

\* imageDiff: sets or clears every diffMap bit, copies each dirty block into
\* lastImage (copySquare) and packs it into diffBuf (putSquare).
ImageDiff(last, cur) ==
    LET map == DirtyBlocks(last, cur)
    IN  [map |-> map,
         buf |-> PutSquares(map, cur),
         ref |-> [b \in Blocks |-> IF b \in map THEN cur[b] ELSE last[b]]]

-----------------------------------------------------------------------------
(* Frame-mode selection, lines 606-621.                                    *)

\* Mutant: the periodic keyframe of line 607 left out.
PreModeNoKeyframe ==
    IF lastFrameMode = FM_CHECKER THEN FM_CHECKER_COMPL ELSE FM_NONE

\* The mode decided before the differencer runs, lines 606-608.
PreMode ==
    IF forceFrameCount > ForceLimit THEN FM_FULL
    ELSE IF lastFrameMode = FM_CHECKER THEN FM_CHECKER_COMPL
    ELSE FM_NONE

\* imageDiff runs only when neither FULL nor CHECKER_COMPL was forced, line 615.
RunsDiff == lastImage # NoImage /\ PreMode \notin {FM_FULL, FM_CHECKER_COMPL}

\* Lines 617-619: more than a third of the blocks changed means CHECKER.
DiffMode(numSq) ==
    IF numSq > NumBlocks \div 3 THEN FM_CHECKER
    ELSE IF numSq > 0 THEN FM_DIFF
    ELSE FM_NONE

FrameMode(f) ==
    IF lastImage = NoImage THEN FM_FULL
    ELSE IF RunsDiff THEN DiffMode(Cardinality(DirtyBlocks(lastImage, f)))
    ELSE PreMode

\* Mutant: a NONE frame does not advance forceFrameCount.
NextForceCountNoneFree(mode) ==
    CASE mode = FM_NONE -> forceFrameCount
      [] mode = FM_FULL -> 0
      [] mode = FM_DIFF -> forceFrameCount + 5
      [] OTHER          -> forceFrameCount + 3

\* forceFrameCount after the frame, lines 625, 633, 641, 669.
NextForceCount(mode) ==
    CASE mode = FM_NONE -> forceFrameCount + 1
      [] mode = FM_FULL -> 0
      [] mode = FM_DIFF -> forceFrameCount + 5
      [] OTHER          -> forceFrameCount + 3

\* Mutant: the phase incremented without the & 1 mask.
NextCheckerUnmasked(mode) ==
    IF mode \in {FM_CHECKER, FM_CHECKER_COMPL} THEN checker + 1 ELSE checker

\* checker toggles after each checker frame, line 668.
NextChecker(mode) ==
    IF mode \in {FM_CHECKER, FM_CHECKER_COMPL} THEN (checker + 1) % 2 ELSE checker

\* The 16-bit code written first: dataType = 3 + checker for checker frames.
WireCode(mode) ==
    IF mode \in {FM_CHECKER, FM_CHECKER_COMPL} THEN 3 + checker ELSE mode

\* The message of lines 623-667 as the viewer decodes it: the frame for
\* FULL, bitmap and packed blocks for DIFF, the half of every block sampled
\* with phase checker for CHECKER / CHECKER_COMPL.
Message(mode, f, map, buf) ==
    CASE mode = FM_FULL -> [code |-> FM_FULL, img |-> f]
      [] mode = FM_DIFF -> [code |-> FM_DIFF, map |-> map, buf |-> buf]
      [] mode \in {FM_CHECKER, FM_CHECKER_COMPL} ->
              [code |-> WireCode(mode), half |-> [b \in Blocks |-> f[b][checker]]]
      [] OTHER -> [code |-> FM_NONE]

-----------------------------------------------------------------------------
(* Socket, lines 444-466 and 587-597, with QTcpSocket's blocking calls.    *)

\* connectToHost then waitForConnected(1000): connected, refused, or still
\* connecting when the timeout expires (a second connectToHost while
\* connecting is ignored by Qt and the wait is repeated).
ConnectOutcomes == {Connected, Unconnected, Connecting}

\* Mutant: waitConnection-- of line 596 left out.
UpkeepNoCountdown ==
    IF sockState = Connected THEN {<<sockState, waitConnection, sockRx>>}
    ELSE IF waitConnection = 0 THEN {<<c, RetryWait, 0>> : c \in ConnectOutcomes}
    ELSE {<<sockState, waitConnection, sockRx>>}

\* Lines 590-597: <<socket state, waitConnection, unread bytes>> after the
\* upkeep done at the start of every call; connectToHost clears the buffer.
Upkeep ==
    IF sockState = Connected THEN {<<sockState, waitConnection, sockRx>>}
    ELSE IF waitConnection = 0 THEN {<<c, RetryWait, 0>> : c \in ConnectOutcomes}
    ELSE {<<sockState, waitConnection - 1, sockRx>>}

\* socketSend writes only when connected; waitForBytesWritten may find the
\* connection gone, and the rest of the frame is then not sent.
SendOutcomes(s) == IF s = Connected THEN BOOLEAN ELSE {FALSE}

\* waitForReadyRead(0) in readConfirmation: a pending connection may complete
\* or fail, an established one may be found closed by the peer.
PollOutcomes(s) ==
    CASE s = Connected  -> {Connected, Unconnected}
      [] s = Connecting -> {Connecting, Connected, Unconnected}
      [] OTHER          -> {Unconnected}

\* readConfirmation consumes at most one byte, whatever the socket state.
ReadConfirmation(rx) == IF rx > 0 THEN rx - 1 ELSE rx

-----------------------------------------------------------------------------
(* The viewer, from the wire protocol: it applies a message received whole. *)

ApplyMessage(img, m) ==
    CASE m.code = FM_FULL -> m.img
      [] m.code = FM_DIFF ->
            [b \in Blocks |-> IF b \in m.map THEN m.buf[Rank(m.map, b)] ELSE img[b]]
      [] m.code \in {FM_CHECKER, FM_CHECKER_COMPL} ->
            [b \in Blocks |-> [img[b] EXCEPT ![m.code - 3] = m.half[b]]]
      [] OTHER -> img

-----------------------------------------------------------------------------

Init ==
    /\ screen = NoImage
    /\ lastImage = NoImage
    /\ diffMap = {}
    /\ diffBuf = <<>>
    /\ forceFrameCount = 0
    /\ checker = 0
    /\ lastFrameMode = FM_NONE
    /\ sockState = Unconnected
    /\ waitConnection = 0
    /\ sockRx = 0
    /\ peerImage = Blank
    /\ sentCode = FM_NONE
    /\ delivered = FALSE
    /\ sinceFull = 0
    /\ stableFor = 0

\* processFrameData(layout, f, address) with a frame: upkeep, mode choice,
\* differencing, the sends, the counters, and readConfirmation.
ProcessFrameData(f) ==
    \E u \in Upkeep :
      LET mode == FrameMode(f)
          d    == ImageDiff(lastImage, f)
          map  == IF RunsDiff THEN d.map ELSE diffMap
          buf  == IF RunsDiff THEN d.buf ELSE diffBuf
      IN \E ok \in SendOutcomes(u[1]) :
         \E s \in PollOutcomes(IF ok \/ u[1] # Connected THEN u[1] ELSE Unconnected) :
           /\ screen' = f
           /\ lastImage' = CASE lastImage = NoImage -> f
                             [] RunsDiff            -> d.ref
                             [] OTHER               -> lastImage
           /\ diffMap' = map
           /\ diffBuf' = buf
           /\ lastFrameMode' = mode
           /\ forceFrameCount' = NextForceCount(mode)
           /\ checker' = NextChecker(mode)
           /\ sockState' = s
           /\ waitConnection' = u[2]
           /\ sockRx' = ReadConfirmation(u[3])
           /\ peerImage' = IF ok THEN ApplyMessage(peerImage, Message(mode, f, map, buf))
                                 ELSE peerImage
           /\ sentCode' = WireCode(mode)
           /\ delivered' = ok
           /\ sinceFull' = IF mode = FM_FULL THEN 0 ELSE sinceFull + 1
           /\ stableFor' = IF ~ok THEN 0
                            ELSE IF f # screen THEN 1
                            ELSE IF stableFor < StableCap THEN stableFor + 1
                            ELSE stableFor

\* processFrameData with frameData == NULL, lines 599-601: upkeep and a poll.
PollConfirmation ==
    \E u \in Upkeep :
    \E s \in PollOutcomes(u[1]) :
      /\ sockState' = s
      /\ waitConnection' = u[2]
      /\ sockRx' = ReadConfirmation(u[3])
      /\ UNCHANGED <<screen, lastImage, diffMap, diffBuf, forceFrameCount, checker,
                     lastFrameMode, peerImage, sentCode, delivered, sinceFull, stableFor>>

\* The viewer writes one acknowledgement byte on an open connection.
PeerAck ==
    /\ sockState = Connected
    /\ sockRx < MaxRx
    /\ sockRx' = sockRx + 1
    /\ UNCHANGED <<screen, lastImage, diffMap, diffBuf, forceFrameCount, checker,
                   lastFrameMode, sockState, waitConnection, peerImage,
                   sentCode, delivered, sinceFull, stableFor>>

Next ==
    \/ \E f \in Frames : ProcessFrameData(f)
    \/ PollConfirmation
    \/ PeerAck

Spec == Init /\ [][Next]_vars

-----------------------------------------------------------------------------
(* Properties.                                                             *)

TypeOK ==
    /\ screen \in Frames \cup {NoImage}
    /\ lastImage \in Image \cup {NoImage}
    /\ diffMap \subseteq Blocks
    /\ diffBuf \in [1 .. Cardinality(diffMap) -> [Halves -> Vals]]
    /\ forceFrameCount \in 0 .. ForceLimit + 5
    /\ checker \in Halves
    /\ lastFrameMode \in Modes
    /\ sockState \in SockStates
    /\ waitConnection \in 0 .. RetryWait
    /\ sockRx \in 0 .. MaxRx
    /\ peerImage \in Image
    /\ sentCode \in Modes
    /\ delivered \in BOOLEAN
    /\ sinceFull \in Nat
    /\ stableFor \in 0 .. StableCap

\* Forced keyframes (line 607): however the frames change, a FULL frame is
\* chosen at least once in every ForceLimit + 2 consecutive frame calls.
KeyframeBound == sinceFull <= ForceLimit + 1

\* DIFF round trip (imageDiff, lines 549-567): after a delivered DIFF, the
\* viewer's unpacking of diffMap and diffBuf gives every dirty block exactly
\* the content the host now holds for it in lastImage.
DiffRoundTrip ==
    (delivered /\ lastFrameMode = FM_DIFF) =>
        \A b \in diffMap : peerImage[b] = lastImage[b]

\* Bounded staleness: once ForceLimit + 2 frame calls in a row have carried
\* the same frame to the viewer, the viewer shows exactly that frame, even
\* where it lags by changes below squareDiff's threshold or by a checker
\* half of an older frame.
StableShown == stableFor > ForceLimit + 1 => peerImage = screen


\* Keyframe resynchronisation (spec 4.2: the periodic FULL frame bounds
\* accumulated error "even if diff detection or transport ever
\* desynchronizes"): right after the viewer has received a FULL frame, the
\* reference lastImage, against which the next frames are differenced, is
\* the image the viewer shows.
KeyframeResyncs == (delivered /\ lastFrameMode = FM_FULL) => peerImage = lastImage

\* Wire pairing (spec section 6): a frame chosen as CHECKER goes out with
\* code 3 (phase 0) and the CHECKER_COMPL frame that follows it with code 4.
WireCheckerPhase ==
    lastFrameMode \in {FM_CHECKER, FM_CHECKER_COMPL} => sentCode = lastFrameMode

\* The refinement mapping onto the selector's contract: lastFrameMode is the
\* latest mode, forceFrameCount the refresh clock, the malloc of lastImage
\* (line 612) the start, checker the sampling phase.
Policy == INSTANCE KeyframePolicy
              WITH Limit <- ForceLimit, last <- lastFrameMode,
                   clock <- forceFrameCount, started <- (lastImage # NoImage),
                   phase <- checker

\* processFrameData implements the frame-mode policy of lines 606-669: the
\* first frame and every frame after the clock passed the limit is FULL,
\* CHECKER_COMPL follows CHECKER on the other checkerboard half, every other
\* frame advances forceFrameCount; poll-only calls and acknowledgements
\* leave the policy's state alone.
ImplementsKeyframePolicy == Policy!Spec

-----------------------------------------------------------------------------
(* Liveness.  The render path calls processFrameData after every present   *)
(* for as long as the emulation runs (weak fairness of the frame calls),   *)
(* and the viewer's host is reachable: a connection outcome that keeps     *)
(* being possible eventually happens (strong fairness).                    *)

FrameCall == \E f \in Frames : ProcessFrameData(f)

ConnectSucceeds == Next /\ sockState # Connected /\ sockState' = Connected

FairSpec == Spec /\ WF_vars(FrameCall) /\ SF_vars(ConnectSucceeds)

\* Reconnection: whenever the socket is not connected (never yet, refused,
\* timed out, or dropped by the peer), the waitConnection back-off of lines
\* 590-597 eventually lets a retry through and the stream is connected again.
Reconnects == (sockState # Connected) ~> (sockState = Connected)

=============================================================================
