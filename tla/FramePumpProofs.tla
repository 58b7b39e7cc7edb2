-------------------------- MODULE FramePumpProofs --------------------------
(***************************************************************************)
(* Proofs about the CTroll3D frame streamer (FramePump), for every value of *)
(* the constants that satisfies the module's assumptions.                   *)
(***************************************************************************)
EXTENDS FramePump, FiniteSetTheorems, TLAPS

USE NumBlocksAssumption, ForceLimitAssumption

-----------------------------------------------------------------------------
(* Frame-mode selection.                                                   *)

\* processFrameData chooses one of the five modes, and it can choose a mode
\* other than FULL only while forceFrameCount has not passed the limit of
\* line 607.
LEMMA FrameModeFacts ==
    ASSUME NEW f
    PROVE  /\ FrameMode(f) \in Modes
           /\ FrameMode(f) # FM_FULL => lastImage # NoImage /\ ~(forceFrameCount > ForceLimit)
<1>1. DiffMode(Cardinality(DirtyBlocks(lastImage, f))) \in {FM_NONE, FM_DIFF, FM_CHECKER}
  BY DEF DiffMode, FM_NONE, FM_DIFF, FM_CHECKER
<1>2. PreMode \in Modes
  BY DEF PreMode, Modes
<1>3. RunsDiff => ~(forceFrameCount > ForceLimit)
  BY DEF RunsDiff, PreMode, FM_FULL, FM_CHECKER_COMPL, FM_NONE
<1>4. ~RunsDiff /\ lastImage # NoImage /\ PreMode # FM_FULL => ~(forceFrameCount > ForceLimit)
  BY DEF PreMode
<1>. QED
  BY <1>1, <1>2, <1>3, <1>4 DEF FrameMode, Modes, FM_NONE, FM_DIFF, FM_CHECKER, FM_FULL

-----------------------------------------------------------------------------
(* KeyframeBound.  It is not inductive by itself: the step that adds one   *)
(* to sinceFull needs to know that sinceFull was at most the counter that  *)
(* was just found not to exceed ForceLimit.  Every frame that is not FULL  *)
(* adds at least 1 to forceFrameCount, so sinceFull never overtakes it.    *)

CounterInv ==
    /\ forceFrameCount \in Nat
    /\ sinceFull \in Nat
    /\ sinceFull <= forceFrameCount
    /\ sinceFull <= ForceLimit + 1

LEMMA CounterInvInit == Init => CounterInv
BY DEF Init, CounterInv

LEMMA CounterInvStep == CounterInv /\ [Next]_vars => CounterInv'
<1> SUFFICES ASSUME CounterInv, [Next]_vars PROVE CounterInv'
  OBVIOUS
<1>1. ASSUME NEW f \in Frames, ProcessFrameData(f) PROVE CounterInv'
  <2>. DEFINE mode == FrameMode(f)
  <2>1. /\ forceFrameCount' = NextForceCount(mode)
        /\ sinceFull' = IF mode = FM_FULL THEN 0 ELSE sinceFull + 1
    BY <1>1 DEF ProcessFrameData
  <2>2. CASE mode = FM_FULL
    BY <2>1, <2>2 DEF NextForceCount, FM_FULL, FM_NONE, CounterInv
  <2>3. CASE mode # FM_FULL
    <3>1. ~(forceFrameCount > ForceLimit) /\ mode \in Modes
      BY <2>3, FrameModeFacts
    <3>2. forceFrameCount' \in Nat /\ forceFrameCount' >= forceFrameCount + 1
      BY <2>1, <2>3, <3>1 DEF NextForceCount, CounterInv, Modes,
         FM_NONE, FM_FULL, FM_DIFF, FM_CHECKER, FM_CHECKER_COMPL
    <3>. QED
      BY <2>1, <2>3, <3>1, <3>2 DEF CounterInv
  <2>. QED
    BY <2>2, <2>3
<1>2. CASE PollConfirmation
  BY <1>2 DEF PollConfirmation, CounterInv
<1>3. CASE PeerAck
  BY <1>3 DEF PeerAck, CounterInv
<1>4. CASE UNCHANGED vars
  BY <1>4 DEF vars, CounterInv
<1>. QED
  BY <1>1, <1>2, <1>3, <1>4 DEF Next

\* Forced keyframes: in every behaviour, at most ForceLimit + 1 frame calls
\* pass between two FULL frames (and before the first), whatever frames the
\* renderer supplies and whatever the connection does.
THEOREM KeyframeBoundHolds == Spec => []KeyframeBound
<1>1. CounterInv => KeyframeBound
  BY DEF CounterInv, KeyframeBound
<1>. QED
  BY <1>1, CounterInvInit, CounterInvStep, PTL DEF Spec

-----------------------------------------------------------------------------
(* The diffMap / diffBuf packing of imageDiff.                             *)

\* A set of blocks is finite.
LEMMA BlockSetFinite ==
    ASSUME NEW map \in SUBSET Blocks
    PROVE  IsFiniteSet(map) /\ Cardinality(map) \in Nat
<1>1. IsFiniteSet(Blocks)
  BY FS_Interval DEF Blocks
<1>. QED
  BY <1>1, FS_Subset, FS_CardinalityType

\* numSqDiff when block b is reached lies in 1 .. the number of dirty blocks.
LEMMA RankRange ==
    ASSUME NEW map \in SUBSET Blocks, NEW b \in map
    PROVE  Rank(map, b) \in 1 .. Cardinality(map)
<1>. DEFINE S == {d \in map : d <= b}
<1>1. IsFiniteSet(map) /\ S \in SUBSET map
  BY BlockSetFinite
<1>2. IsFiniteSet(S) /\ Cardinality(S) <= Cardinality(map) /\ Cardinality(S) \in Nat
  BY <1>1, FS_Subset, FS_CardinalityType
<1>3. S # {}
  BY DEF Blocks
<1>4. Cardinality(S) # 0
  BY <1>2, <1>3, FS_EmptySet
<1>. QED
  BY <1>2, <1>4, BlockSetFinite DEF Rank

\* Counting dirty blocks in increasing order: a block after d gets a
\* larger numSqDiff than d.
LEMMA RankStrict ==
    ASSUME NEW map \in SUBSET Blocks, NEW b \in map, NEW d \in map, d < b
    PROVE  Rank(map, d) # Rank(map, b)
<1>. DEFINE Sd == {x \in map : x <= d}
            Sb == {x \in map : x <= b}
<1>1. IsFiniteSet(map)
  BY BlockSetFinite
<1>2. IsFiniteSet(Sb)
  BY <1>1, FS_Subset
<1>3. Sd \in SUBSET Sb
  <2>1. \A x \in map : x <= d => x <= b
    BY DEF Blocks
  <2>. QED
    BY <2>1
<1>4. b \in Sb \ Sd
  BY DEF Blocks
<1>5. Cardinality(Sb) = Cardinality(Sd) => Sb = Sd
  BY <1>2, <1>3, FS_Subset
<1>. QED
  BY <1>4, <1>5 DEF Rank

\* Two different dirty blocks are packed at different places of diffBuf.
LEMMA RankInjective ==
    ASSUME NEW map \in SUBSET Blocks, NEW b \in map, NEW d \in map,
           Rank(map, d) = Rank(map, b)
    PROVE  d = b
<1>1. d < b \/ b < d \/ d = b
  BY DEF Blocks
<1>. QED
  BY <1>1, RankStrict

\* The viewer finds every dirty block at its rank in diffBuf.
LEMMA PutSquaresAt ==
    ASSUME NEW map \in SUBSET Blocks, NEW b \in map, NEW cur
    PROVE  PutSquares(map, cur)[Rank(map, b)] = cur[b]
<1>1. Rank(map, b) \in 1 .. Cardinality(map)
  BY RankRange
<1>2. (CHOOSE d \in map : Rank(map, d) = Rank(map, b)) = b
  <2>1. \E d \in map : Rank(map, d) = Rank(map, b)
    OBVIOUS
  <2>. QED
    BY <2>1, RankInjective
<1>. QED
  BY <1>1, <1>2 DEF PutSquares

\* Every place of diffBuf is filled: each i in 1 .. numSqDiff is the rank of
\* some dirty block.
LEMMA RankOnto ==
    ASSUME NEW map \in SUBSET Blocks, NEW i \in 1 .. Cardinality(map)
    PROVE  \E b \in map : Rank(map, b) = i
<1>. DEFINE r == [b \in map |-> Rank(map, b)]
            T == 1 .. Cardinality(map)
<1>1. Cardinality(map) \in Nat
  BY BlockSetFinite
<1>2. IsFiniteSet(T) /\ Cardinality(T) = Cardinality(map)
  BY <1>1, FS_Interval
<1>3. r \in [map -> T]
  BY RankRange
<1>4. r \in Injection(map, T)
  BY <1>3, RankInjective DEF Injection, IsInjective
<1>5. r \in Surjection(map, T)
  BY <1>2, <1>4, FS_Injection
<1>. QED
  BY <1>5 DEF Surjection

\* diffBuf holds numSqDiff squares of the frame.
LEMMA PutSquaresType ==
    ASSUME NEW map \in SUBSET Blocks, NEW cur \in Image
    PROVE  PutSquares(map, cur) \in [1 .. Cardinality(map) -> [Halves -> Vals]]
<1>1. \A i \in 1 .. Cardinality(map) : (CHOOSE b \in map : Rank(map, b) = i) \in Blocks
  BY RankOnto
<1>. QED
  BY <1>1 DEF PutSquares, Image

-----------------------------------------------------------------------------
(* TypeOK.                                                                 *)

USE ValsAssumption, FramesAssumption, RetryWaitAssumption, MaxRxAssumption

\* The connection upkeep of lines 590-597 keeps the socket state and the
\* countdown and buffer in range.
LEMMA UpkeepType ==
    ASSUME TypeOK, NEW u \in Upkeep
    PROVE  /\ u[1] \in SockStates
           /\ u[2] \in 0 .. RetryWait
           /\ u[3] \in 0 .. MaxRx
BY DEF Upkeep, TypeOK, ConnectOutcomes, SockStates

\* Whatever reaches the viewer, it still displays an image.
LEMMA ApplyType ==
    ASSUME TypeOK, NEW f \in Image
    PROVE  LET d   == ImageDiff(lastImage, f)
               map == IF RunsDiff THEN d.map ELSE diffMap
               buf == IF RunsDiff THEN d.buf ELSE diffBuf
           IN  ApplyMessage(peerImage, Message(FrameMode(f), f, map, buf)) \in Image
<1>. DEFINE mode == FrameMode(f)
            d    == ImageDiff(lastImage, f)
            map  == IF RunsDiff THEN d.map ELSE diffMap
            buf  == IF RunsDiff THEN d.buf ELSE diffBuf
<1>1. mode \in Modes
  BY FrameModeFacts
<1>2. CASE mode \in {FM_NONE, FM_FULL}
  BY <1>2 DEF Message, ApplyMessage, TypeOK, FM_NONE, FM_FULL, FM_DIFF, FM_CHECKER, FM_CHECKER_COMPL
<1>3. CASE mode = FM_DIFF
  <2>1. RunsDiff
    BY <1>3 DEF FrameMode, PreMode, FM_NONE, FM_FULL, FM_DIFF, FM_CHECKER_COMPL
  <2>2. map = DirtyBlocks(lastImage, f) /\ buf = PutSquares(map, f)
    BY <2>1 DEF ImageDiff
  <2>3. map \in SUBSET Blocks
    BY <2>2 DEF DirtyBlocks
  <2>4. buf \in [1 .. Cardinality(map) -> [Halves -> Vals]]
    BY <2>2, <2>3, PutSquaresType
  <2>5. \A b \in map : Rank(map, b) \in 1 .. Cardinality(map)
    BY <2>3, RankRange
  <2>6. Message(mode, f, map, buf) = [code |-> FM_DIFF, map |-> map, buf |-> buf]
    BY <1>3 DEF Message, FM_NONE, FM_FULL, FM_DIFF, FM_CHECKER, FM_CHECKER_COMPL
  <2>7. ApplyMessage(peerImage, Message(mode, f, map, buf))
          = [b \in Blocks |-> IF b \in map THEN buf[Rank(map, b)] ELSE peerImage[b]]
    BY <2>6 DEF ApplyMessage, FM_NONE, FM_FULL, FM_DIFF, FM_CHECKER, FM_CHECKER_COMPL
  <2>8. \A b \in Blocks : (IF b \in map THEN buf[Rank(map, b)] ELSE peerImage[b]) \in [Halves -> Vals]
    BY <2>4, <2>5 DEF TypeOK, Image
  <2>. QED
    BY <2>7, <2>8 DEF Image
<1>4. CASE mode \in {FM_CHECKER, FM_CHECKER_COMPL}
  <2>1. Message(mode, f, map, buf) = [code |-> 3 + checker, half |-> [b \in Blocks |-> f[b][checker]]]
    BY <1>4 DEF Message, WireCode, FM_FULL, FM_DIFF, FM_CHECKER, FM_CHECKER_COMPL
  <2>2. checker \in Halves /\ 3 + checker \in {FM_CHECKER, FM_CHECKER_COMPL} /\ (3 + checker) - 3 = checker
    BY DEF TypeOK, Halves, FM_CHECKER, FM_CHECKER_COMPL
  <2>3. ApplyMessage(peerImage, Message(mode, f, map, buf))
          = [b \in Blocks |-> [peerImage[b] EXCEPT ![checker] = f[b][checker]]]
    BY <2>1, <2>2 DEF ApplyMessage, FM_NONE, FM_FULL, FM_DIFF, FM_CHECKER, FM_CHECKER_COMPL
  <2>4. \A b \in Blocks : [peerImage[b] EXCEPT ![checker] = f[b][checker]] \in [Halves -> Vals]
    BY <2>2 DEF TypeOK, Image
  <2>5. [b \in Blocks |-> [peerImage[b] EXCEPT ![checker] = f[b][checker]]] \in Image
    BY <2>4 DEF Image
  <2>. QED
    BY <2>3, <2>5
<1>. QED
  BY <1>1, <1>2, <1>3, <1>4 DEF Modes

LEMMA TypeOKInit == Init => TypeOK
<1>. SUFFICES ASSUME Init PROVE TypeOK
  OBVIOUS
<1>1. diffBuf \in [1 .. Cardinality(diffMap) -> [Halves -> Vals]]
  BY FS_EmptySet DEF Init
<1>2. Blank \in Image
  BY DEF Blank, Image
<1>3. FM_NONE \in Modes /\ Unconnected \in SockStates /\ 0 \in Halves
  BY DEF Modes, SockStates, Halves
<1>4. 0 \in 0 .. RetryWait /\ 0 \in 0 .. MaxRx /\ 0 \in 0 .. StableCap /\ 0 \in 0 .. ForceLimit + 5
  BY DEF StableCap
<1>. QED
  BY <1>1, <1>2, <1>3, <1>4 DEF Init, TypeOK

LEMMA TypeOKStep == TypeOK /\ [Next]_vars => TypeOK'
<1> SUFFICES ASSUME TypeOK, [Next]_vars PROVE TypeOK'
  OBVIOUS
<1>1. ASSUME NEW f \in Frames, ProcessFrameData(f) PROVE TypeOK'
  <2>. DEFINE mode == FrameMode(f)
              d    == ImageDiff(lastImage, f)
              map  == IF RunsDiff THEN d.map ELSE diffMap
              buf  == IF RunsDiff THEN d.buf ELSE diffBuf
  <2>0. f \in Image
    OBVIOUS
  <2>1. PICK u, ok, s :
          /\ u \in Upkeep /\ ok \in BOOLEAN
          /\ s \in PollOutcomes(IF ok \/ u[1] # Connected THEN u[1] ELSE Unconnected)
          /\ screen' = f
          /\ lastImage' = CASE lastImage = NoImage -> f
                            [] RunsDiff            -> d.ref
                            [] OTHER               -> lastImage
          /\ diffMap' = map
          /\ diffBuf' = buf
          /\ lastFrameMode' = mode
          /\ forceFrameCount' = NextForceCount(mode)
          /\ checker' = NextChecker(mode)
          /\ sockState' = s
          /\ waitConnection' = u[2]
          /\ sockRx' = ReadConfirmation(u[3])
          /\ peerImage' = IF ok THEN ApplyMessage(peerImage, Message(mode, f, map, buf))
                                ELSE peerImage
          /\ sentCode' = WireCode(mode)
          /\ delivered' = ok
          /\ sinceFull' = IF mode = FM_FULL THEN 0 ELSE sinceFull + 1
          /\ stableFor' = IF ~ok THEN 0
                          ELSE IF f # screen THEN 1
                          ELSE IF stableFor < StableCap THEN stableFor + 1
                          ELSE stableFor
    BY <1>1 DEF ProcessFrameData, SendOutcomes
  <2>11. s \in SockStates
    BY <2>1 DEF PollOutcomes, SockStates
  <2>2. u[1] \in SockStates /\ u[2] \in 0 .. RetryWait /\ u[3] \in 0 .. MaxRx
    BY <2>1, UpkeepType
  <2>3. mode \in Modes /\ (mode # FM_FULL => ~(forceFrameCount > ForceLimit))
    BY FrameModeFacts
  <2>4. lastImage' \in Image
    <3>1. CASE lastImage = NoImage
      BY <2>0, <2>1, <3>1 DEF RunsDiff
    <3>2. CASE lastImage # NoImage /\ RunsDiff
      BY <2>0, <2>1, <3>2 DEF ImageDiff, TypeOK, Image
    <3>3. CASE lastImage # NoImage /\ ~RunsDiff
      BY <2>1, <3>3 DEF TypeOK
    <3>. QED
      BY <3>1, <3>2, <3>3
  <2>5. diffMap' \subseteq Blocks /\ diffBuf' \in [1 .. Cardinality(diffMap') -> [Halves -> Vals]]
    <3>1. CASE RunsDiff
      <4>1. d.map \in SUBSET Blocks
        BY DEF ImageDiff, DirtyBlocks
      <4>. QED
        BY <2>0, <2>1, <3>1, <4>1, PutSquaresType DEF ImageDiff
    <3>2. CASE ~RunsDiff
      BY <2>1, <3>2 DEF TypeOK
    <3>. QED
      BY <3>1, <3>2
  <2>6. forceFrameCount' \in 0 .. ForceLimit + 5 /\ checker' \in Halves
    <3>1. CASE mode = FM_FULL
      BY <2>1, <3>1 DEF NextForceCount, NextChecker, TypeOK, FM_NONE, FM_FULL, FM_DIFF, FM_CHECKER, FM_CHECKER_COMPL
    <3>2. CASE mode # FM_FULL
      <4>1. forceFrameCount \in 0 .. ForceLimit
        BY <2>3, <3>2 DEF TypeOK
      <4>2. forceFrameCount' \in {forceFrameCount + 1, forceFrameCount + 5, forceFrameCount + 3}
        BY <2>1, <2>3, <3>2 DEF NextForceCount, Modes, FM_NONE, FM_FULL, FM_DIFF, FM_CHECKER, FM_CHECKER_COMPL
      <4>3. checker' \in Halves
        BY <2>1 DEF NextChecker, TypeOK, Halves
      <4>. QED
        BY <4>1, <4>2, <4>3
    <3>. QED
      BY <3>1, <3>2
  <2>7. peerImage' \in Image
    BY <2>0, <2>1, ApplyType DEF TypeOK
  <2>8. lastFrameMode' \in Modes /\ sentCode' \in Modes
    BY <2>1, <2>3 DEF WireCode, TypeOK, Halves, Modes,
       FM_NONE, FM_FULL, FM_DIFF, FM_CHECKER, FM_CHECKER_COMPL
  <2>9. sockRx' \in 0 .. MaxRx /\ waitConnection' \in 0 .. RetryWait
    BY <2>1, <2>2 DEF ReadConfirmation
  <2>10. stableFor' \in 0 .. StableCap
    <3>1. StableCap \in Nat /\ StableCap >= 1 /\ stableFor \in 0 .. StableCap
      BY DEF StableCap, TypeOK
    <3>. QED
      BY <2>1, <3>1
  <2>12. sinceFull' \in Nat /\ screen' \in Frames \cup {NoImage}
    BY <2>1 DEF TypeOK
  <2>. QED
    BY <2>1, <2>4, <2>5, <2>6, <2>7, <2>8, <2>9, <2>10, <2>11, <2>12 DEF TypeOK
<1>2. CASE PollConfirmation
  <2>1. PICK u, s :
          /\ u \in Upkeep
          /\ s \in PollOutcomes(u[1])
          /\ sockState' = s
          /\ waitConnection' = u[2]
          /\ sockRx' = ReadConfirmation(u[3])
          /\ UNCHANGED <<screen, lastImage, diffMap, diffBuf, forceFrameCount, checker,
                         lastFrameMode, peerImage, sentCode, delivered, sinceFull, stableFor>>
    BY <1>2 DEF PollConfirmation
  <2>2. u[1] \in SockStates /\ u[2] \in 0 .. RetryWait /\ u[3] \in 0 .. MaxRx
    BY <2>1, UpkeepType
  <2>3. s \in SockStates
    BY <2>1 DEF PollOutcomes, SockStates
  <2>4. sockRx' \in 0 .. MaxRx
    BY <2>1, <2>2 DEF ReadConfirmation
  <2>. QED
    BY <2>1, <2>2, <2>3, <2>4 DEF TypeOK
<1>3. CASE PeerAck
  BY <1>3 DEF PeerAck, TypeOK
<1>4. CASE UNCHANGED vars
  BY <1>4 DEF vars, TypeOK
<1>. QED
  BY <1>1, <1>2, <1>3, <1>4 DEF Next

\* Type correctness: every reachable state of the streamer has its statics,
\* buffers and socket within their declared ranges; in particular diffBuf
\* always holds exactly one square per set bit of diffMap.
THEOREM TypeCorrect == Spec => []TypeOK
BY TypeOKInit, TypeOKStep, PTL DEF Spec

-----------------------------------------------------------------------------
(* StableShown.                                                            *)

\* A delivered message computed from the frame the viewer already shows
\* leaves the viewer's image unchanged.
LEMMA ShownFrameKept ==
    ASSUME NEW f \in Image, checker \in Halves, FrameMode(f) # FM_FULL
    PROVE  LET d   == ImageDiff(lastImage, f)
               map == IF RunsDiff THEN d.map ELSE diffMap
               buf == IF RunsDiff THEN d.buf ELSE diffBuf
           IN  ApplyMessage(f, Message(FrameMode(f), f, map, buf)) = f
<1>. DEFINE mode == FrameMode(f)
            d    == ImageDiff(lastImage, f)
            map  == IF RunsDiff THEN d.map ELSE diffMap
            buf  == IF RunsDiff THEN d.buf ELSE diffBuf
<1>1. mode \in {FM_NONE, FM_DIFF, FM_CHECKER, FM_CHECKER_COMPL}
  BY FrameModeFacts DEF Modes
<1>2. CASE mode = FM_NONE
  BY <1>2 DEF Message, ApplyMessage, FM_NONE, FM_FULL, FM_DIFF, FM_CHECKER, FM_CHECKER_COMPL
<1>3. CASE mode = FM_DIFF
  <2>1. RunsDiff
    BY <1>3 DEF FrameMode, PreMode, FM_NONE, FM_FULL, FM_DIFF, FM_CHECKER_COMPL
  <2>2. map = DirtyBlocks(lastImage, f) /\ buf = PutSquares(map, f)
    BY <2>1 DEF ImageDiff
  <2>3. map \in SUBSET Blocks
    BY <2>2 DEF DirtyBlocks
  <2>4. Message(mode, f, map, buf) = [code |-> FM_DIFF, map |-> map, buf |-> buf]
    BY <1>3 DEF Message, FM_NONE, FM_FULL, FM_DIFF, FM_CHECKER, FM_CHECKER_COMPL
  <2>5. \A b \in map : buf[Rank(map, b)] = f[b]
    BY <2>2, <2>3, PutSquaresAt
  <2>. QED
    BY <2>3, <2>4, <2>5 DEF ApplyMessage, Image, FM_NONE, FM_FULL, FM_DIFF, FM_CHECKER, FM_CHECKER_COMPL
<1>4. CASE mode \in {FM_CHECKER, FM_CHECKER_COMPL}
  <2>1. Message(mode, f, map, buf) = [code |-> 3 + checker, half |-> [b \in Blocks |-> f[b][checker]]]
    BY <1>4 DEF Message, WireCode, FM_FULL, FM_DIFF, FM_CHECKER, FM_CHECKER_COMPL
  <2>. QED
    BY <2>1 DEF ApplyMessage, Image, Halves, FM_FULL, FM_DIFF, FM_CHECKER, FM_CHECKER_COMPL
<1>. QED
  BY <1>1, <1>2, <1>3, <1>4

\* Inductive strengthening of StableShown: while the viewer lags behind the
\* frame, the run of stable delivered calls is no longer than the forced-
\* refresh clock (each non-FULL call advances both, and the clock is reset
\* only by a FULL frame, which brings the viewer up to date), and hence no
\* longer than ForceLimit + 1.
StableInv ==
    /\ checker \in Halves
    /\ forceFrameCount \in Nat
    /\ stableFor \in Nat
    /\ peerImage # screen =>
          /\ stableFor <= forceFrameCount
          /\ stableFor <= ForceLimit + 1

LEMMA StableInvInit == Init => StableInv
BY DEF Init, StableInv, Halves

LEMMA StableInvStep == StableInv /\ [Next]_vars => StableInv'
<1> SUFFICES ASSUME StableInv, [Next]_vars PROVE StableInv'
  OBVIOUS
<1>1. ASSUME NEW f \in Frames, ProcessFrameData(f) PROVE StableInv'
  <2>. DEFINE mode == FrameMode(f)
              d    == ImageDiff(lastImage, f)
              map  == IF RunsDiff THEN d.map ELSE diffMap
              buf  == IF RunsDiff THEN d.buf ELSE diffBuf
  <2>0. f \in Image
    BY FramesAssumption
  <2>1. PICK ok \in BOOLEAN :
          /\ screen' = f
          /\ forceFrameCount' = NextForceCount(mode)
          /\ checker' = NextChecker(mode)
          /\ peerImage' = IF ok THEN ApplyMessage(peerImage, Message(mode, f, map, buf))
                                ELSE peerImage
          /\ stableFor' = IF ~ok THEN 0
                           ELSE IF f # screen THEN 1
                           ELSE IF stableFor < StableCap THEN stableFor + 1
                           ELSE stableFor
    BY <1>1 DEF ProcessFrameData, SendOutcomes
  <2>2. checker' \in Halves
    BY <2>1 DEF NextChecker, StableInv, Halves
  <2>3. mode \in Modes
    BY FrameModeFacts
  <2>4. forceFrameCount' \in Nat
    BY <2>1, <2>3 DEF NextForceCount, StableInv, Modes
  <2>5. CASE ~ok
    BY <2>1, <2>2, <2>4, <2>5 DEF StableInv
  <2>6. CASE ok /\ mode = FM_FULL
    <3>1. peerImage' = f
      BY <2>1, <2>6 DEF Message, ApplyMessage, FM_NONE, FM_FULL, FM_DIFF, FM_CHECKER, FM_CHECKER_COMPL
    <3>. QED
      BY <2>1, <2>2, <2>4, <2>6, <3>1 DEF StableInv, StableCap
  <2>7. CASE ok /\ mode # FM_FULL
    <3>1. ~(forceFrameCount > ForceLimit)
      BY <2>7, FrameModeFacts
    <3>2. forceFrameCount' >= forceFrameCount + 1
      BY <2>1, <2>3, <2>7 DEF NextForceCount, StableInv, Modes,
         FM_NONE, FM_FULL, FM_DIFF, FM_CHECKER, FM_CHECKER_COMPL
    <3>3. CASE f = screen /\ peerImage = screen
      <4>1. peerImage' = f
        BY <2>0, <2>1, <2>7, <3>3, ShownFrameKept DEF StableInv
      <4>. QED
        BY <2>1, <2>2, <2>4, <3>3, <4>1 DEF StableInv, StableCap
    <3>4. CASE f = screen /\ peerImage # screen
      BY <2>1, <2>2, <2>4, <2>7, <3>1, <3>2, <3>4 DEF StableInv, StableCap
    <3>5. CASE f # screen
      BY <2>1, <2>2, <2>4, <2>7, <3>2, <3>5 DEF StableInv
    <3>. QED
      BY <3>3, <3>4, <3>5
  <2>. QED
    BY <2>5, <2>6, <2>7
<1>2. CASE PollConfirmation
  BY <1>2 DEF PollConfirmation, StableInv
<1>3. CASE PeerAck
  BY <1>3 DEF PeerAck, StableInv
<1>4. CASE UNCHANGED vars
  BY <1>4 DEF vars, StableInv
<1>. QED
  BY <1>1, <1>2, <1>3, <1>4 DEF Next

\* Bounded staleness: in every behaviour, once ForceLimit + 2 frame calls in
\* a row have delivered the same frame, the viewer shows exactly that frame.
THEOREM StableShownHolds == Spec => []StableShown
<1>1. StableInv => StableShown
  BY DEF StableInv, StableShown
<1>. QED
  BY <1>1, StableInvInit, StableInvStep, PTL DEF Spec


-----------------------------------------------------------------------------
(* DiffRoundTrip.                                                          *)

\* A frame call whose mode is DIFF ran the differencer: the reference frame
\* existed and neither FULL nor CHECKER_COMPL was forced (line 615).
LEMMA DiffModeRanDiff ==
    ASSUME NEW f, FrameMode(f) = FM_DIFF
    PROVE  lastImage # NoImage /\ RunsDiff
BY DEF FrameMode, PreMode, FM_NONE, FM_FULL, FM_DIFF, FM_CHECKER_COMPL

\* DiffRoundTrip is inductive by itself: only a delivered DIFF call makes
\* its premise true, and that call gives the viewer and lastImage the same
\* content, the current frame's, on every block of the bitmap.
LEMMA DiffRoundTripStep == DiffRoundTrip /\ [Next]_vars => DiffRoundTrip'
<1> SUFFICES ASSUME DiffRoundTrip, [Next]_vars PROVE DiffRoundTrip'
  OBVIOUS
<1>1. ASSUME NEW f \in Frames, ProcessFrameData(f) PROVE DiffRoundTrip'
  <2>. DEFINE mode == FrameMode(f)
              d    == ImageDiff(lastImage, f)
              map  == IF RunsDiff THEN d.map ELSE diffMap
              buf  == IF RunsDiff THEN d.buf ELSE diffBuf
  <2>1. PICK ok \in BOOLEAN :
          /\ lastImage' = CASE lastImage = NoImage -> f
                            [] RunsDiff            -> d.ref
                            [] OTHER               -> lastImage
          /\ diffMap' = map
          /\ lastFrameMode' = mode
          /\ peerImage' = IF ok THEN ApplyMessage(peerImage, Message(mode, f, map, buf))
                                ELSE peerImage
          /\ delivered' = ok
    BY <1>1 DEF ProcessFrameData, SendOutcomes
  <2>2. CASE ok /\ mode = FM_DIFF
    <3>1. lastImage # NoImage /\ RunsDiff
      BY <2>2, DiffModeRanDiff
    <3>2. /\ lastImage' = d.ref
          /\ map = DirtyBlocks(lastImage, f)
          /\ buf = PutSquares(map, f)
      BY <2>1, <3>1 DEF ImageDiff
    <3>3. map \in SUBSET Blocks
      BY <3>2 DEF DirtyBlocks
    <3>4. peerImage' = [b \in Blocks |-> IF b \in map THEN buf[Rank(map, b)]
                                                    ELSE peerImage[b]]
      BY <2>1, <2>2 DEF Message, ApplyMessage,
         FM_NONE, FM_FULL, FM_DIFF, FM_CHECKER, FM_CHECKER_COMPL
    <3>5. \A b \in map : buf[Rank(map, b)] = f[b]
      BY <3>2, <3>3, PutSquaresAt
    <3>6. \A b \in map : lastImage'[b] = f[b]
      BY <3>1, <3>2, <3>3 DEF ImageDiff
    <3>. QED
      BY <2>1, <3>3, <3>4, <3>5, <3>6 DEF DiffRoundTrip
  <2>3. CASE ~(ok /\ mode = FM_DIFF)
    BY <2>1, <2>3 DEF DiffRoundTrip
  <2>. QED
    BY <2>2, <2>3
<1>2. CASE PollConfirmation
  BY <1>2 DEF PollConfirmation, DiffRoundTrip
<1>3. CASE PeerAck
  BY <1>3 DEF PeerAck, DiffRoundTrip
<1>4. CASE UNCHANGED vars
  BY <1>4 DEF vars, DiffRoundTrip
<1>. QED
  BY <1>1, <1>2, <1>3, <1>4 DEF Next

\* DIFF round trip: in every behaviour, after a delivered DIFF the viewer's
\* unpacking of diffMap and diffBuf (lines 549-567) agrees with the host's
\* lastImage on every dirty block.
THEOREM DiffRoundTripHolds == Spec => []DiffRoundTrip
<1>1. Init => DiffRoundTrip
  BY DEF Init, DiffRoundTrip
<1>. QED
  BY <1>1, DiffRoundTripStep, PTL DEF Spec

-----------------------------------------------------------------------------
(* Refinement of the frame-mode policy.                                    *)

USE NoImageAssumption

\* The mode a frame call chooses is one the policy allows in that state.
LEMMA ModeAllowed ==
    ASSUME NEW f
    PROVE  FrameMode(f) \in Policy!Allowed
<1>1. CASE lastImage = NoImage
  BY <1>1 DEF FrameMode, Policy!Allowed, FM_FULL, Policy!FULL
<1>2. CASE lastImage # NoImage /\ forceFrameCount > ForceLimit
  BY <1>2 DEF FrameMode, RunsDiff, PreMode, Policy!Allowed, FM_FULL, Policy!FULL
<1>3. CASE lastImage # NoImage /\ ~(forceFrameCount > ForceLimit) /\ lastFrameMode = FM_CHECKER
  BY <1>3 DEF FrameMode, RunsDiff, PreMode, Policy!Allowed, FM_CHECKER, FM_CHECKER_COMPL,
     FM_FULL, Policy!CHECKER, Policy!CHECKER_COMPL
<1>4. CASE lastImage # NoImage /\ ~(forceFrameCount > ForceLimit) /\ lastFrameMode # FM_CHECKER
  <2>1. RunsDiff
    BY <1>4 DEF RunsDiff, PreMode, FM_CHECKER, FM_CHECKER_COMPL, FM_FULL, FM_NONE
  <2>2. FrameMode(f) \in {FM_NONE, FM_DIFF, FM_CHECKER}
    BY <1>4, <2>1 DEF FrameMode, DiffMode
  <2>. QED
    BY <1>4, <2>2 DEF Policy!Allowed, FM_NONE, FM_DIFF, FM_CHECKER, FM_CHECKER,
       Policy!NONE, Policy!DIFF, Policy!CHECKER
<1>. QED
  BY <1>1, <1>2, <1>3, <1>4

\* A frame call is a Frame step of the policy with the mode it chose.
LEMMA FrameIsPolicyStep ==
    ASSUME TypeOK, NEW f \in Frames, ProcessFrameData(f)
    PROVE  Policy!Frame(FrameMode(f))
<1>. DEFINE fmode == FrameMode(f)
            d     == ImageDiff(lastImage, f)
<1>1. /\ lastImage' = CASE lastImage = NoImage -> f
                        [] RunsDiff            -> d.ref
                        [] OTHER               -> lastImage
      /\ lastFrameMode' = fmode
      /\ forceFrameCount' = NextForceCount(fmode)
      /\ checker' = NextChecker(fmode)
  BY DEF ProcessFrameData
<1>2. lastImage' # NoImage
  <2>1. f \in Image
    BY FramesAssumption
  <2>2. lastImage # NoImage => d.ref \in Image
    BY <2>1 DEF ImageDiff, TypeOK, Image
  <2>3. CASE lastImage = NoImage
    BY <1>1, <2>1, <2>3, NoImageAssumption DEF RunsDiff
  <2>4. CASE lastImage # NoImage /\ RunsDiff
    BY <1>1, <2>2, <2>4, NoImageAssumption
  <2>5. CASE lastImage # NoImage /\ ~RunsDiff
    BY <1>1, <2>5
  <2>. QED
    BY <2>3, <2>4, <2>5
<1>3. fmode \in Modes
  BY FrameModeFacts
<1>4. IF fmode = FM_FULL THEN forceFrameCount' = 0
      ELSE forceFrameCount' \in Nat /\ forceFrameCount' > forceFrameCount
  <2>1. forceFrameCount \in Nat
    BY DEF TypeOK
  <2>2. CASE fmode = FM_FULL
    <3>1. NextForceCount(FM_FULL) = 0
      BY DEF NextForceCount, FM_NONE, FM_FULL, FM_DIFF
    <3>. QED
      BY <1>1, <2>2, <3>1
  <2>3. CASE fmode # FM_FULL
    <3>1. forceFrameCount' \in {forceFrameCount + 1, forceFrameCount + 5,
                                 forceFrameCount + 3}
      BY <1>1, <2>3 DEF NextForceCount, FM_NONE, FM_FULL, FM_DIFF
    <3>. QED
      BY <2>1, <2>3, <3>1
  <2>. QED
    BY <2>2, <2>3
<1>5. checker' = IF fmode \in {FM_CHECKER, FM_CHECKER_COMPL} THEN 1 - checker ELSE checker
  BY <1>1 DEF NextChecker, TypeOK, Halves
<1>. QED
  BY <1>1, <1>2, <1>4, <1>5, ModeAllowed
  DEF Policy!Frame, FM_FULL, FM_CHECKER, FM_CHECKER_COMPL,
      Policy!FULL, Policy!CHECKER, Policy!CHECKER_COMPL

LEMMA PolicyStep == TypeOK /\ [Next]_vars => [Policy!Next]_Policy!vars
<1> SUFFICES ASSUME TypeOK, [Next]_vars PROVE [Policy!Next]_Policy!vars
  OBVIOUS
<1>1. ASSUME NEW f \in Frames, ProcessFrameData(f) PROVE Policy!Next
  <2>1. FrameMode(f) \in {Policy!NONE, Policy!FULL, Policy!DIFF, Policy!CHECKER,
                          Policy!CHECKER_COMPL}
    BY FrameModeFacts DEF Modes, FM_NONE, FM_FULL, FM_DIFF, FM_CHECKER, FM_CHECKER_COMPL,
       Policy!NONE, Policy!FULL, Policy!DIFF, Policy!CHECKER, Policy!CHECKER_COMPL
  <2>2. Policy!Frame(FrameMode(f))
    BY <1>1, FrameIsPolicyStep
  <2>. QED
    BY <2>1, <2>2 DEF Policy!Next
<1>2. CASE PollConfirmation
  BY <1>2 DEF PollConfirmation, Policy!vars
<1>3. CASE PeerAck
  BY <1>3 DEF PeerAck, Policy!vars
<1>4. CASE UNCHANGED vars
  BY <1>4 DEF vars, Policy!vars
<1>. QED
  BY <1>1, <1>2, <1>3, <1>4 DEF Next

\* processFrameData implements the frame-mode policy: every behaviour of
\* the streamer, mapped through lastFrameMode, forceFrameCount, the
\* allocation of lastImage and checker, is a behaviour of KeyframePolicy.
THEOREM ImplementsKeyframePolicyHolds == Spec => ImplementsKeyframePolicy
<1>1. Init => Policy!Init
  BY DEF Init, Policy!Init, FM_NONE, Policy!NONE
<1>. QED
  BY <1>1, PolicyStep, TypeOKInit, TypeOKStep, PTL
  DEF Spec, ImplementsKeyframePolicy, Policy!Spec

=====
