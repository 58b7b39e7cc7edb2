---------------------------- MODULE MC_FramePump ----------------------------
(* A three-block screen: one changed block is a DIFF, two or more (more    *)
(* than 3 \div 3) a CHECKER frame.  Half-block values are 0 or 1 and the   *)
(* threshold 1, so a block whose two halves both change is dirty and a     *)
(* block with one changed half is below squareDiff's threshold.            *)
EXTENDS FramePump

\* Builds a frame from the value of each block's even and odd half.
Frm(e, o) == [b \in Blocks |-> [h \in Halves |-> IF h = 0 THEN e[b] ELSE o[b]]]

MC_Frames ==
    { Frm(<<0, 0, 0>>, <<0, 0, 0>>),   \* black
      Frm(<<1, 0, 0>>, <<1, 0, 0>>),   \* one block changed: DIFF
      Frm(<<1, 0, 0>>, <<0, 0, 0>>),   \* half a block changed: below threshold
      Frm(<<1, 1, 1>>, <<1, 1, 1>>) }  \* every block changed: CHECKER

\* Two frames suffice for the connection's liveness: black and a DIFF.
MC_FewFrames == { Frm(<<0, 0, 0>>, <<0, 0, 0>>), Frm(<<1, 0, 0>>, <<1, 0, 0>>) }
=============================================================================
