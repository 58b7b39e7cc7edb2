----------------------------- MODULE EmuThread -----------------------------
(***************************************************************************)
(* The emulation thread's run loop, EmuThread::run (bootmanager.cpp lines  *)
(* 45-114), against the GUI thread that pauses, resumes, single-steps and  *)
(* stops it.                                                               *)
(*                                                                         *)
(* The loop reads the shared flags running, exec_step and stop_run at      *)
(* separate points, and the GUI thread may change them between any two of  *)
(* those reads: every such read is a step of its own, with pc naming the   *)
(* source line about to run.  The loop tells the debugger UI whether       *)
(* emulation is under its control through the signals DebugModeLeft and    *)
(* DebugModeEntered, steered by the local was_active.                      *)
(*                                                                         *)
(* System::RunLoop and System::SingleStep are one step each; RunLoop ends  *)
(* with Success, ShutdownRequested or another error status.  The GUI-side  *)
(* setters live in bootmanager.h, which is not part of this repository:    *)
(* they are modelled as the environment, each an atomic write of the flag  *)
(* under running_mutex followed by running_cv.notify_all(), so that the    *)
(* wait of line 104 returns as soon as its predicate holds.                *)
(***************************************************************************)
EXTENDS Naturals

\* Signals emitted to the debugger UI; Entered also stands for the state
\* before the first signal, when was_active is false.
Left == "DebugModeLeft"
Entered == "DebugModeEntered"
NoSignal == "none"

\* Outcomes of System::RunLoop.
Success == "Success"
ShutdownRequested == "ShutdownRequested"
ErrorStatus == "ErrorStatus"
RunResults == {Success, ShutdownRequested, ErrorStatus}

VARIABLES
    pc,          \* the line of EmuThread::run about to execute
    running,     \* EmuThread::running
    execStep,    \* EmuThread::exec_step
    stopRun,     \* EmuThread::stop_run
    wasActive,   \* local was_active
    sig,         \* history: the debugger signal emitted by the latest step
    lastSignal   \* history: the latest debugger signal emitted

vars == <<pc, running, execStep, stopRun, wasActive, sig, lastSignal>>

Pcs == {"l72", "l73", "l74", "l77", "l89", "l90", "l92", "l93", "l97",
        "l104", "l109", "done"}

\* Emit signal s (or none) in this step.
Emit(s) == /\ sig' = s
           /\ lastSignal' = IF s = NoSignal THEN lastSignal ELSE s

Goto(l) == pc' = l

Init ==
    /\ pc = "l72"
    /\ running = FALSE
    /\ execStep = FALSE
    /\ stopRun = FALSE
    /\ wasActive = FALSE
    /\ sig = NoSignal
    /\ lastSignal = Entered

-----------------------------------------------------------------------------
(* The emulation thread.                                                   *)

\* while (!stop_run)
LoopTest ==
    /\ pc = "l72"
    /\ Goto(IF stopRun THEN "l109" ELSE "l73")
    /\ Emit(NoSignal)
    /\ UNCHANGED <<running, execStep, stopRun, wasActive>>

\* if (running) ... else if (exec_step) ... else wait
RunningTest ==
    /\ pc = "l73"
    /\ Goto(IF running THEN "l74" ELSE "l92")
    /\ Emit(NoSignal)
    /\ UNCHANGED <<running, execStep, stopRun, wasActive>>

\* Mutant: DebugModeLeft emitted without the was_active guard.
LeaveDebugUnguarded ==
    /\ pc = "l74"
    /\ Goto("l77")
    /\ Emit(Left)
    /\ UNCHANGED <<running, execStep, stopRun, wasActive>>

\* if (!was_active) emit DebugModeLeft();
LeaveDebug ==
    /\ pc = "l74"
    /\ Goto("l77")
    /\ Emit(IF wasActive THEN NoSignal ELSE Left)
    /\ UNCHANGED <<running, execStep, stopRun, wasActive>>

\* system.RunLoop() and its result, lines 77-87: shutdown breaks out of the
\* loop, any other error pauses the thread with SetRunning(false).
RunLoop ==
    /\ pc = "l77"
    /\ \E r \in RunResults :
         /\ Goto(IF r = ShutdownRequested THEN "l109" ELSE "l89")
         /\ running' = IF r = ErrorStatus THEN FALSE ELSE running
    /\ Emit(NoSignal)
    /\ UNCHANGED <<execStep, stopRun, wasActive>>

\* was_active = running || exec_step;
RecordActive ==
    /\ pc = "l89"
    /\ Goto("l90")
    /\ wasActive' = (running \/ execStep)
    /\ Emit(NoSignal)
    /\ UNCHANGED <<running, execStep, stopRun>>

\* if (!was_active && !stop_run) emit DebugModeEntered();
EnterDebugAfterRun ==
    /\ pc = "l90"
    /\ Goto("l72")
    /\ Emit(IF ~wasActive /\ ~stopRun THEN Entered ELSE NoSignal)
    /\ UNCHANGED <<running, execStep, stopRun, wasActive>>

\* else if (exec_step)
StepTest ==
    /\ pc = "l92"
    /\ Goto(IF execStep THEN "l93" ELSE "l104")
    /\ Emit(NoSignal)
    /\ UNCHANGED <<running, execStep, stopRun, wasActive>>

\* Mutant: the step path emits no DebugModeLeft of its own.
TakeStepSilent ==
    /\ pc = "l93"
    /\ Goto("l97")
    /\ execStep' = FALSE
    /\ Emit(NoSignal)
    /\ UNCHANGED <<running, stopRun, wasActive>>

\* Lines 93-96: if (!was_active) emit DebugModeLeft(); exec_step = false;
TakeStep ==
    /\ pc = "l93"
    /\ Goto("l97")
    /\ execStep' = FALSE
    /\ Emit(IF wasActive THEN NoSignal ELSE Left)
    /\ UNCHANGED <<running, stopRun, wasActive>>

\* Lines 97-101: system.SingleStep(); emit DebugModeEntered(); was_active = false;
SingleStep ==
    /\ pc = "l97"
    /\ Goto("l72")
    /\ wasActive' = FALSE
    /\ Emit(Entered)
    /\ UNCHANGED <<running, execStep, stopRun>>

\* Mutant: the wait predicate without stop_run.
WaitNoStop ==
    /\ pc = "l104"
    /\ running \/ execStep
    /\ Goto("l72")
    /\ Emit(NoSignal)
    /\ UNCHANGED <<running, execStep, stopRun, wasActive>>

\* running_cv.wait(lock, [this] { return IsRunning() || exec_step || stop_run; });
Wait ==
    /\ pc = "l104"
    /\ running \/ execStep \/ stopRun
    /\ Goto("l72")
    /\ Emit(NoSignal)
    /\ UNCHANGED <<running, execStep, stopRun, wasActive>>

\* system.Shutdown(), line 109, and the thread ends.
Shutdown ==
    /\ pc = "l109"
    /\ Goto("done")
    /\ Emit(NoSignal)
    /\ UNCHANGED <<running, execStep, stopRun, wasActive>>

ThreadStep ==
    \/ LoopTest \/ RunningTest \/ LeaveDebug \/ RunLoop \/ RecordActive
    \/ EnterDebugAfterRun \/ StepTest \/ TakeStep \/ SingleStep \/ Wait
    \/ Shutdown

-----------------------------------------------------------------------------
(* The GUI thread (bootmanager.h): pause/resume, debugger step, stop.     *)

SetRunning(v) ==
    /\ running' = v
    /\ Emit(NoSignal)
    /\ UNCHANGED <<pc, execStep, stopRun, wasActive>>

ExecStep ==
    /\ execStep' = TRUE
    /\ Emit(NoSignal)
    /\ UNCHANGED <<pc, running, stopRun, wasActive>>

\* RequestStop: stop_run = true; SetRunning(false);
RequestStop ==
    /\ stopRun' = TRUE
    /\ running' = FALSE
    /\ Emit(NoSignal)
    /\ UNCHANGED <<pc, execStep, wasActive>>

GuiStep == (\E v \in BOOLEAN : SetRunning(v)) \/ ExecStep \/ RequestStop

Next == ThreadStep \/ GuiStep

Spec == Init /\ [][Next]_vars

\* The thread is scheduled whenever it can run; the GUI is not obliged to act.
FairSpec == Spec /\ WF_vars(ThreadStep)

-----------------------------------------------------------------------------
(* Properties.                                                             *)

TypeOK ==
    /\ pc \in Pcs
    /\ running \in BOOLEAN
    /\ execStep \in BOOLEAN
    /\ stopRun \in BOOLEAN
    /\ wasActive \in BOOLEAN
    /\ sig \in {Left, Entered, NoSignal}
    /\ lastSignal \in {Left, Entered}

\* The debugger UI is told DebugModeLeft and DebugModeEntered strictly in
\* turn, starting with DebugModeLeft, whatever the GUI thread does to
\* running, exec_step and stop_run between the loop's reads of them
\* (lines 74, 89-90, 93, 98).
DebugSignalsAlternate == [][sig' # NoSignal => sig' # lastSignal]_vars

\* The core executes, in System::RunLoop (line 77) or System::SingleStep
\* (line 98), only while the latest signal the debugger UI received is
\* DebugModeLeft: the debugger never inspects a core that is running.
\* was_active suppresses DebugModeLeft (lines 74-75, 93-94) only when the
\* previous iteration left the UI in that state.
NoExecutionInDebugMode == pc \in {"l77", "l97"} => lastSignal = Left

\* Once the GUI has asked the thread to stop, the loop ends and the core is
\* shut down (line 109), from wherever the thread was, the wait of line
\* 104 included.
StopTerminates == stopRun ~> (pc = "done")

=============================================================================
