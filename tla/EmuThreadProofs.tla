--------------------------- MODULE EmuThreadProofs ---------------------------
(***************************************************************************)
(* Proofs about the emulation thread's run loop (EmuThread).               *)
(***************************************************************************)
EXTENDS EmuThread, TLAPS

\* Where the loop stands towards the debugger UI.  Between the runs of the
\* loop body (lines 72-74, 92-93, 104) the latest signal is the one that
\* was_active records: DebugModeLeft when the thread last counted itself
\* active, DebugModeEntered otherwise; the only exception is a stop request
\* seen at line 90, which suppresses DebugModeEntered and leaves the loop at
\* its next test.  Inside a run of the emulator or of a single step (lines
\* 77-90, 97) the latest signal is DebugModeLeft.
DebugInv ==
    /\ TypeOK
    /\ pc \in {"l77", "l89", "l90", "l97"} => lastSignal = Left
    /\ pc \in {"l72", "l73", "l74", "l92", "l93", "l104"} =>
          \/ lastSignal = IF wasActive THEN Left ELSE Entered
          \/ pc = "l72" /\ stopRun

LEMMA DebugInvInit == Init => DebugInv
BY DEF Init, DebugInv, TypeOK, Pcs, Left, Entered, NoSignal

\* Every step of either thread keeps DebugInv.
LEMMA DebugInvStep == DebugInv /\ [Next]_vars => DebugInv'
<1> SUFFICES ASSUME DebugInv, [Next]_vars PROVE DebugInv'
  OBVIOUS
<1>. USE DEF DebugInv, TypeOK, Pcs, Emit, Goto, Left, Entered, NoSignal
<1>1. CASE LoopTest
  BY <1>1 DEF LoopTest
<1>2. CASE RunningTest
  BY <1>2 DEF RunningTest
<1>3. CASE LeaveDebug
  BY <1>3 DEF LeaveDebug
<1>4. CASE RunLoop
  BY <1>4 DEF RunLoop, RunResults, Success, ShutdownRequested, ErrorStatus
<1>5. CASE RecordActive
  BY <1>5 DEF RecordActive
<1>6. CASE EnterDebugAfterRun
  BY <1>6 DEF EnterDebugAfterRun
<1>7. CASE StepTest
  BY <1>7 DEF StepTest
<1>8. CASE TakeStep
  BY <1>8 DEF TakeStep
<1>9. CASE SingleStep
  BY <1>9 DEF SingleStep
<1>10. CASE Wait
  BY <1>10 DEF Wait
<1>11. CASE Shutdown
  BY <1>11 DEF Shutdown
<1>12. CASE \E v \in BOOLEAN : SetRunning(v)
  BY <1>12 DEF SetRunning
<1>13. CASE ExecStep
  BY <1>13 DEF ExecStep
<1>14. CASE RequestStop
  BY <1>14 DEF RequestStop
<1>15. CASE UNCHANGED vars
  BY <1>15 DEF vars
<1>. QED
  BY <1>1, <1>2, <1>3, <1>4, <1>5, <1>6, <1>7, <1>8, <1>9, <1>10, <1>11,
     <1>12, <1>13, <1>14, <1>15 DEF Next, ThreadStep, GuiStep

\* A step that emits a debugger signal never repeats the latest one.
LEMMA AlternationStep == DebugInv /\ [Next]_vars => [sig' # NoSignal => sig' # lastSignal]_vars
<1> SUFFICES ASSUME DebugInv, [Next]_vars
             PROVE  [sig' # NoSignal => sig' # lastSignal]_vars
  OBVIOUS
<1>. USE DEF DebugInv, TypeOK, Pcs, Emit, Goto, Left, Entered, NoSignal
<1>1. CASE LeaveDebug
  BY <1>1 DEF LeaveDebug
<1>2. CASE EnterDebugAfterRun
  BY <1>2 DEF EnterDebugAfterRun
<1>3. CASE TakeStep
  BY <1>3 DEF TakeStep
<1>4. CASE SingleStep
  BY <1>4 DEF SingleStep
<1>5. CASE UNCHANGED vars
  BY <1>5
<1>6. CASE \/ LoopTest \/ RunningTest \/ RunLoop \/ RecordActive \/ StepTest
           \/ Wait \/ Shutdown \/ \E v \in BOOLEAN : SetRunning(v)
           \/ ExecStep \/ RequestStop
  <2>1. sig' = NoSignal
    BY <1>6 DEF LoopTest, RunningTest, RunLoop, RecordActive, StepTest, Wait,
       Shutdown, SetRunning, ExecStep, RequestStop
  <2>. QED
    BY <2>1
<1>. QED
  BY <1>1, <1>2, <1>3, <1>4, <1>5, <1>6 DEF Next, ThreadStep, GuiStep

\* DebugModeLeft and DebugModeEntered reach the debugger UI strictly in turn
\* in every behaviour of EmuThread::run against any GUI thread.
THEOREM DebugSignalsAlternateHolds == Spec => DebugSignalsAlternate
<1>1. Spec => []DebugInv
  BY DebugInvInit, DebugInvStep, PTL DEF Spec
<1>. QED
  BY <1>1, AlternationStep, PTL DEF Spec, DebugSignalsAlternate


\* The core runs (System::RunLoop, line 77; System::SingleStep, line 98)
\* only while DebugModeLeft is the latest signal the debugger UI received,
\* in every behaviour of EmuThread::run against any GUI thread.
THEOREM NoExecutionInDebugModeHolds == Spec => []NoExecutionInDebugMode
<1>1. DebugInv => NoExecutionInDebugMode
  BY DEF DebugInv, NoExecutionInDebugMode
<1>. QED
  BY <1>1, DebugInvInit, DebugInvStep, PTL DEF Spec

=============================================================================
