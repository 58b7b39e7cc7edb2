--------------------------- MODULE KeyframePolicy ---------------------------
(***************************************************************************)
(* What the frame-mode selector of GRenderWindow::processFrameData         *)
(* (bootmanager.cpp lines 606-621 and the counter updates of lines         *)
(* 623-669) promises, with images, the differencer and the socket left     *)
(* out: the sequence of frame modes it may produce.                        *)
(*                                                                         *)
(*  - the first frame is a keyframe (FULL);                                *)
(*  - a frame other than FULL advances the refresh clock by at least one,  *)
(*    and once the clock has passed Limit the next frame is FULL, which    *)
(*    resets it;                                                           *)
(*  - a CHECKER frame is followed by its CHECKER_COMPL frame unless a      *)
(*    keyframe is due, and each checker frame samples the checkerboard     *)
(*    half opposite to the previous one.                                   *)
(*                                                                         *)
(* How a non-forced frame is classified (NONE, DIFF or CHECKER) and by     *)
(* how much the clock advances are left open: that is the differencer's    *)
(* business, not the policy's.                                             *)
(***************************************************************************)
EXTENDS Naturals

CONSTANT Limit      \* the refresh clock's threshold (100 in the code)

NONE == 0
FULL == 1
DIFF == 2
CHECKER == 3
CHECKER_COMPL == 4

VARIABLES
    last,       \* the mode of the latest frame
    clock,      \* the refresh clock, reset by a keyframe
    started,    \* a frame has been produced
    phase       \* the checkerboard half the next checker frame samples

vars == <<last, clock, started, phase>>

Init ==
    /\ last = NONE
    /\ clock = 0
    /\ started = FALSE
    /\ phase = 0

\* The modes the next frame may take.
Allowed ==
    IF ~started \/ clock > Limit THEN {FULL}
    ELSE IF last = CHECKER THEN {CHECKER_COMPL}
    ELSE {NONE, DIFF, CHECKER}

\* One frame of mode m.
Frame(m) ==
    /\ m \in Allowed
    /\ last' = m
    /\ started' = TRUE
    /\ IF m = FULL THEN clock' = 0 ELSE clock' \in Nat /\ clock' > clock
    /\ phase' = IF m \in {CHECKER, CHECKER_COMPL} THEN 1 - phase ELSE phase

Next == \E m \in {NONE, FULL, DIFF, CHECKER, CHECKER_COMPL} : Frame(m)

Spec == Init /\ [][Next]_vars

=============================================================================
