------------------------- MODULE ConsoleSwitchProofs -------------------------
(***************************************************************************)
(* Proofs about ConsoleSwitch: type correctness, and the safety properties *)
(* of the run ConsoleSwitch, from one inductive invariant IInv.            *)
(***************************************************************************)
EXTENDS ConsoleSwitch, TLAPS

-----------------------------------------------------------------------------
(* The inductive invariant                                                 *)

\* Who holds a mutex is determined by the program counters.
Locks ==
  /\ (mtx_paint = "sig") <=> hpc \in {"rel1", "set1", "rel2", "set2", "rpaint"}
  /\ (mtx_paint = "main") <=> mpc \in {"boot", "paint", "fade", "fadestay"}
  /\ (mtx_tty = "main") <=> mpc \in Moving

\* Only the silent tty is in VT_PROCESS mode, and it always is, except
\* before it is attached, while it is moved and after it was cleaned up.
Attached ==
  /\ vtproc \subseteq {tty_s}
  /\ mpc \in {"boot", "attach", "mv4", "mv5"} => vtproc = {}
  /\ alive /\ mpc \notin {"boot", "attach", "mv4", "mv5"} /\ hpc # "done"
       => vtproc = {tty_s}
  /\ mpc \in {"boot", "attach"} =>
       sig \subseteq {"TERM"} /\ hpc \in {"wait"} \union Cleaning

\* A switch waits only for the foreground console, and is announced.
Waiting ==
  /\ \A v \in VT : newvt[v] # NoVT => v = fg /\ v \in vtproc /\ newvt[v] # v
  /\ ReleaseIsAnnounced

\* Graphics mode is left before VT_PROCESS mode.
Graphics ==
  "moved" \notin excused =>
    /\ kdgfx \subseteq vtproc
    /\ mpc \in {"mv3", "mv4", "mv5"} \/ hpc \in {"clean3", "done"} => kdgfx = {}

\* How ctty lags behind the console while signals are served in order.
Mode ==
  excused = {} /\ Following =>
    /\ ctty = "silent" => fg = tty_s \/ hpc = "set1"
    /\ ctty = "verbose" /\ fg = tty_s => AcquireUnserved \/ hpc = "set2"
    /\ AcquireUnserved => /\ fg = tty_s /\ newvt[tty_s] = NoVT
                          /\ "USR1" \notin sig
                          /\ ctty = "verbose" \/ hpc = "set1"
    /\ hpc \in {"lock2", "rel2", "set2"} => fg = tty_s /\ "USR2" \notin sig
    /\ "USR1" \in sig \/ hpc \in {"lock1", "rel1", "set1"} =>
         (fg = tty_s => (newvt[tty_s] # NoVT /\ hpc # "set1") \/ "USR2" \in sig)

IInv == TypeOK /\ Locks /\ Attached /\ Waiting /\ Graphics /\ Mode

-----------------------------------------------------------------------------
(* Type correctness                                                         *)

\* VT_RELDISP keeps the types of what it changes.
LEMMA RelDispType ==
  ASSUME VTTypeOK, NEW v \in VT, RelDisp(v)
  PROVE  fg' \in VT /\ newvt' \in [VT -> VT \union {NoVT}] /\ sig' \subseteq Signals
<1> USE DEF VTTypeOK, RelDisp, CompleteSwitch, Signals, SwitchSigs
<1>1. CASE v \in vtproc /\ newvt[v] # NoVT
  <2>1. newvt[v] \in VT
    BY <1>1
  <2>2. newvt' \in [VT -> VT \union {NoVT}]
    BY <1>1
  <2>3. fg' \in VT
    BY <1>1, <2>1
  <2>4. sig' \subseteq Signals
    BY <1>1
  <2> QED
    BY <2>2, <2>3, <2>4
<1>2. CASE ~(v \in vtproc /\ newvt[v] # NoVT)
  BY <1>2
<1> QED
  BY <1>1, <1>2

\* VT_SETMODE keeps the types of what it changes.
LEMMA SetModeType ==
  ASSUME VTTypeOK, NEW v \in VT, SetAuto(v) \/ SetProcess(v)
  PROVE  vtproc' \subseteq VT /\ newvt' \in [VT -> VT \union {NoVT}]
BY DEF VTTypeOK, SetAuto, SetProcess

\* So does the console worker.
LEMMA KernelType ==
  ASSUME VTTypeOK, ConsoleWorker
  PROVE  VTTypeOK'
<1> USE DEF VTTypeOK, ConsoleWorker, CompleteSwitch, Signals, SwitchSigs
<1>1. CASE AskRelease
  BY <1>1 DEF AskRelease
<1>2. CASE ResetAndSwitch
  BY <1>2 DEF ResetAndSwitch
<1>3. CASE SwitchAway
  BY <1>3 DEF SwitchAway
<1>4. CASE DropRequest
  BY <1>4 DEF DropRequest
<1> QED
  BY <1>1, <1>2, <1>3, <1>4

\* Draining takes at most one signal.
LEMMA DrainType == TypeOK /\ DrainSignals => TypeOK'
<1> SUFFICES ASSUME TypeOK, DrainSignals PROVE TypeOK'
  OBVIOUS
<1>1. sig' \subseteq sig /\ hpc' \in {"lock1", "lock2", "clean1"}
  BY DEF DrainSignals
<1> QED
  BY <1>1 DEF DrainSignals, TypeOK, VTTypeOK, cfgVars, lockVars, mainVars, monVars, HandlerPC, SwitchServe, Cleaning

\* The last step of the cleanup keeps the types.
LEMMA CleanupAutoType ==  TypeOK /\ CleanupAuto => TypeOK'
<1> SUFFICES ASSUME TypeOK, CleanupAuto PROVE TypeOK'
  OBVIOUS
<1>1. alive' \in BOOLEAN
  BY Zenon DEF CleanupAuto, TypeOK, VTTypeOK
<1>2. vtproc' \subseteq VT /\ newvt' \in [VT -> VT \union {NoVT}]
  BY SetModeType DEF CleanupAuto, TypeOK
<1> QED
  BY <1>1, <1>2 DEF CleanupAuto, TypeOK, VTTypeOK, cfgVars, lockVars, mainVars, monVars, HandlerPC, SwitchServe, Cleaning

\* TypeOK is inductive.
LEMMA TypeStep == TypeOK /\ [Next]_vars => TypeOK'
<1> SUFFICES ASSUME TypeOK, [Next]_vars PROVE TypeOK'
  OBVIOUS
<1> USE VTAssumption, SwitchAssumption DEF TypeOK, VTTypeOK, Signals,
        SwitchSigs, HandlerPC, SwitchServe, Cleaning, MainPC, Moving,
        Threads, vtVars, cfgVars, lockVars, sigVars, mainVars, monVars,
        daemonVars
<1>1. ASSUME NEW s \in Signals, SigWait(s) PROVE TypeOK'
  BY <1>1 DEF SigWait
<1>2. CASE DrainSignals
  BY <1>2, DrainType
<1>3. CASE SwitchLock
  BY <1>3 DEF SwitchLock
<1>4. CASE SwitchAck
  BY <1>4, RelDispType DEF SwitchAck
<1>5. CASE SwitchMode
  BY <1>5 DEF SwitchMode, NextSignal
<1>6. CASE SwitchSilent
  BY <1>6 DEF SwitchSilent, Note
<1>7. CASE SwitchRepaint
  BY <1>7 DEF SwitchRepaint, NextSignal
<1>8. CASE SwitchRepainted
  BY <1>8 DEF SwitchRepainted, NextSignal
<1>9. CASE CleanupRelease
  BY <1>9, RelDispType DEF CleanupRelease
<1>10. CASE CleanupText
  BY <1>10 DEF CleanupText
<1>11. CASE CleanupAuto
  BY <1>11, CleanupAutoType
<1>12. CASE ReadActiveTty
  BY <1>12 DEF ReadActiveTty
<1>13. CASE Attach
  BY <1>13 DEF Attach, SetProcess, Note
<1>14. CASE CmdPaint
  BY <1>14 DEF CmdPaint, Command, Return, ReturnLeaving
<1>15. CASE PaintDone
  BY <1>15 DEF PaintDone, Return, ReturnLeaving
<1>16. CASE CmdSetMode
  BY <1>16 DEF CmdSetMode, Command, RequestConsole, Activate, ReturnLeaving
<1>17. CASE ConsoleActive
  BY <1>17 DEF ConsoleActive, Return, ReturnLeaving
<1>18. CASE WaitInterrupted
  BY <1>18 DEF WaitInterrupted, RequestConsole, Activate, ReturnLeaving
<1>19. CASE CmdSetTtyVerbose
  BY <1>19 DEF CmdSetTtyVerbose, Command, Return, ReturnLeaving
<1>20. CASE CmdSetTtySilent
  BY <1>20 DEF CmdSetTtySilent, Command, Return, ReturnLeaving
<1>21. CASE CmdSetEventDev
  BY <1>21 DEF CmdSetEventDev, Command, Return, ReturnLeaving
<1>22. CASE MoveRelease
  BY <1>22, RelDispType DEF MoveRelease
<1>23. CASE MoveText
  BY <1>23 DEF MoveText
<1>24. CASE MoveAuto
  BY <1>24, SetModeType DEF MoveAuto
<1>25. CASE MoveTty
  BY <1>25 DEF MoveTty
<1>26. CASE MoveProcess
  BY <1>26 DEF MoveProcess, SetProcess, Return, ReturnLeaving, Note
<1>27. CASE CmdExit
  BY <1>27 DEF CmdExit, Command
<1>28. CASE FadeDone
  BY <1>28 DEF FadeDone, Activate
<1>29. CASE ExitKill
  BY <1>29 DEF ExitKill
<1>30. CASE ExitJoined
  <2>1. alive' \in BOOLEAN
    BY <1>30, Zenon DEF ExitJoined
  <2>2. mpc' \in MainPC
    BY <1>30 DEF ExitJoined
  <2> QED
    BY <1>30, <2>1, <2>2 DEF ExitJoined
<1>31. CASE AnimPaint
  BY <1>31 DEF AnimPaint
<1>32. CASE AnimPainted
  BY <1>32 DEF AnimPainted
<1>33. CASE AlarmFires
  BY <1>33 DEF AlarmFires, Activate
<1>34. CASE F2Decide
  BY <1>34 DEF F2Decide
<1>35. CASE F2Switch
  BY <1>35 DEF F2Switch, Activate
<1>36. CASE F2OnTty
  BY <1>36 DEF F2OnTty, Activate
<1>37. ASSUME NEW t \in VT, Chvt(t) PROVE TypeOK'
  BY <1>37 DEF Chvt, Activate
<1>38. CASE Terminate
  BY <1>38 DEF Terminate
<1>39. CASE KernelSwitch
  BY <1>39, KernelType DEF KernelSwitch, Note
<1>40. CASE UNCHANGED vars
  BY <1>40 DEF vars
<1> QED
  BY <1>1, <1>2, <1>3, <1>4, <1>5, <1>6, <1>7, <1>8, <1>9, <1>10, <1>11,
     <1>12, <1>13, <1>14, <1>15, <1>16, <1>17, <1>18, <1>19, <1>20, <1>21,
     <1>22, <1>23, <1>24, <1>25, <1>26, <1>27, <1>28, <1>29, <1>30, <1>31,
     <1>32, <1>33, <1>34, <1>35, <1>36, <1>37, <1>38, <1>39, <1>40 DEF Next,
     SigThread, MainThread, Commands, Others

-----------------------------------------------------------------------------
(* The parts of the invariant, each inductive relative to those before it   *)

\* The mutexes are held as the program counters say.
LEMMA LocksStep == Locks /\ TypeOK /\ [Next]_vars => Locks'
<1> SUFFICES ASSUME Locks, TypeOK, [Next]_vars PROVE Locks'
  OBVIOUS
<1> USE DEF Locks, TypeOK, VTTypeOK, Cleaning, Moving, Threads, vtVars,
        cfgVars, lockVars, sigVars, mainVars, monVars, daemonVars
<1>1. ASSUME NEW s \in Signals, SigWait(s) PROVE Locks'
  BY <1>1 DEF SigWait
<1>2. CASE DrainSignals
  BY <1>2 DEF DrainSignals
<1>3. CASE SwitchLock \/ SwitchRepaint \/ SwitchRepainted \/ SwitchMode \/
       SwitchSilent
  BY <1>3 DEF SwitchLock, SwitchRepaint, NextSignal, SwitchRepainted,
     SwitchMode, SwitchSilent, Note
<1>4. CASE SwitchAck
  BY <1>4 DEF SwitchAck, RelDisp, CompleteSwitch
<1>5. CASE CleanupRelease
  BY <1>5 DEF CleanupRelease, RelDisp, CompleteSwitch
<1>6. CASE CleanupText
  BY <1>6 DEF CleanupText
<1>7. CASE CleanupAuto
  BY <1>7 DEF CleanupAuto, SetAuto
<1>8. CASE ReadActiveTty
  BY <1>8 DEF ReadActiveTty
<1>9. CASE Attach
  BY <1>9 DEF Attach, SetProcess, Note
<1>10. CASE CmdPaint \/ PaintDone \/ ConsoleActive \/ CmdSetMode \/
       WaitInterrupted \/ CmdSetTtyVerbose \/ CmdSetEventDev
  BY <1>10 DEF CmdPaint, Command, Return, ReturnLeaving, PaintDone,
     ConsoleActive, CmdSetMode, RequestConsole, Activate, WaitInterrupted,
     CmdSetTtyVerbose, CmdSetEventDev
<1>11. CASE CmdSetTtySilent
  BY <1>11 DEF CmdSetTtySilent, Command, Return, ReturnLeaving
<1>12. CASE MoveRelease
  BY <1>12 DEF MoveRelease, RelDisp, CompleteSwitch
<1>13. CASE MoveText \/ MoveTty
  BY <1>13 DEF MoveText, MoveTty
<1>14. CASE MoveAuto
  BY <1>14 DEF MoveAuto, SetAuto
<1>15. CASE MoveProcess
  BY <1>15 DEF MoveProcess, SetProcess, Return, ReturnLeaving, Note
<1>16. CASE CmdExit \/ FadeDone \/ ExitKill \/ ExitJoined
  BY <1>16 DEF CmdExit, Command, FadeDone, Activate, ExitKill, ExitJoined
<1>17. CASE AnimPaint \/ AnimPainted \/ AlarmFires \/ F2Decide \/ F2Switch
       \/ F2OnTty \/ Terminate
  BY <1>17 DEF AnimPaint, AnimPainted, AlarmFires, Activate, F2Decide,
     F2Switch, F2OnTty, Terminate
<1>18. ASSUME NEW t \in VT, Chvt(t) PROVE Locks'
  BY <1>18 DEF Chvt, Activate
<1>19. CASE KernelSwitch
  BY <1>19 DEF KernelSwitch, ConsoleWorker, AskRelease, ResetAndSwitch,
     SwitchAway, DropRequest, CompleteSwitch, Note
<1>20. CASE UNCHANGED vars
  BY <1>20 DEF vars
<1> QED
  BY <1>1, <1>2, <1>3, <1>4, <1>5, <1>6, <1>7, <1>8, <1>9, <1>10, <1>11,
     <1>12, <1>13, <1>14, <1>15, <1>16, <1>17, <1>18, <1>19, <1>20 DEF Next,
     SigThread, MainThread, Commands, Others

\* Which VT is in VT_PROCESS mode, and when none is.
LEMMA AttachedStep == Attached /\ TypeOK /\ [Next]_vars => Attached'
<1> SUFFICES ASSUME Attached, TypeOK, [Next]_vars PROVE Attached'
  OBVIOUS
<1> USE DEF Attached, Cleaning, Moving, SwitchSigs, vtVars, cfgVars,
        lockVars, sigVars, mainVars, monVars, daemonVars
<1>1. ASSUME NEW s \in Signals, SigWait(s) PROVE Attached'
  BY <1>1 DEF SigWait
<1>2. CASE DrainSignals
  BY <1>2 DEF DrainSignals
<1>3. CASE SwitchLock \/ SwitchRepaint \/ SwitchRepainted \/ SwitchMode \/
       SwitchSilent
  BY <1>3 DEF SwitchLock, SwitchRepaint, NextSignal, SwitchRepainted,
     SwitchMode, SwitchSilent, Note
<1>4. CASE SwitchAck
  BY <1>4 DEF SwitchAck, RelDisp, CompleteSwitch
<1>5. CASE CleanupRelease
  BY <1>5 DEF CleanupRelease, RelDisp, CompleteSwitch
<1>6. CASE CleanupText
  BY <1>6 DEF CleanupText
<1>7. CASE CleanupAuto
  BY <1>7 DEF CleanupAuto, SetAuto
<1>8. CASE ReadActiveTty
  BY <1>8 DEF ReadActiveTty
<1>9. CASE Attach
  BY <1>9 DEF Attach, SetProcess, Note
<1>10. CASE CmdPaint \/ PaintDone \/ ConsoleActive \/ CmdSetMode \/
       WaitInterrupted \/ CmdSetTtyVerbose \/ CmdSetEventDev
  BY <1>10 DEF CmdPaint, Command, Return, ReturnLeaving, PaintDone,
     ConsoleActive, CmdSetMode, RequestConsole, Activate, WaitInterrupted,
     CmdSetTtyVerbose, CmdSetEventDev
<1>11. CASE CmdSetTtySilent
  BY <1>11 DEF CmdSetTtySilent, Command, Return, ReturnLeaving
<1>12. CASE MoveRelease
  BY <1>12 DEF MoveRelease, RelDisp, CompleteSwitch
<1>13. CASE MoveText \/ MoveTty
  BY <1>13 DEF MoveText, MoveTty
<1>14. CASE MoveAuto
  BY <1>14 DEF MoveAuto, SetAuto
<1>15. CASE MoveProcess
  BY <1>15 DEF MoveProcess, SetProcess, Return, ReturnLeaving, Note
<1>16. CASE CmdExit \/ FadeDone \/ ExitKill \/ ExitJoined
  BY <1>16 DEF CmdExit, Command, FadeDone, Activate, ExitKill, ExitJoined
<1>17. CASE AnimPaint \/ AnimPainted \/ AlarmFires \/ F2Decide \/ F2Switch
       \/ F2OnTty \/ Terminate
  BY <1>17 DEF AnimPaint, AnimPainted, AlarmFires, Activate, F2Decide,
     F2Switch, F2OnTty, Terminate
<1>18. ASSUME NEW t \in VT, Chvt(t) PROVE Attached'
  BY <1>18 DEF Chvt, Activate
<1>19. CASE KernelSwitch
  BY <1>19 DEF KernelSwitch, ConsoleWorker, AskRelease, ResetAndSwitch,
     SwitchAway, DropRequest, CompleteSwitch, TypeOK
<1>20. CASE UNCHANGED vars
  BY <1>20 DEF vars
<1> QED
  BY <1>1, <1>2, <1>3, <1>4, <1>5, <1>6, <1>7, <1>8, <1>9, <1>10, <1>11,
     <1>12, <1>13, <1>14, <1>15, <1>16, <1>17, <1>18, <1>19, <1>20 DEF Next,
     SigThread, MainThread, Commands, Others

\* After VT_RELDISP or VT_AUTO on the only VT in VT_PROCESS mode no switch
\* waits any more.
LEMMA NothingWaits ==
  ASSUME VTTypeOK, NEW v \in VT, vtproc \subseteq {v},
         \A w \in VT : newvt[w] # NoVT => w \in vtproc,
         RelDisp(v) \/ SetAuto(v)
  PROVE  \A w \in VT : newvt'[w] = NoVT
<1>1. CASE RelDisp(v)
  BY <1>1 DEF RelDisp, VTTypeOK
<1>2. CASE SetAuto(v)
  BY <1>2 DEF SetAuto, VTTypeOK
<1> QED
  BY <1>1, <1>2

\* A waiting switch is announced until it is released.
LEMMA WaitingStep ==
  Waiting /\ TypeOK /\ Locks /\ Attached /\ [Next]_vars => Waiting'
<1> SUFFICES ASSUME Waiting, TypeOK, Locks, Attached, [Next]_vars PROVE Waiting'
  OBVIOUS
<1> USE VTAssumption DEF Waiting, ReleaseIsAnnounced, Attached, Cleaning,
        Moving, TypeOK, vtVars, cfgVars, lockVars, sigVars, mainVars,
        monVars, daemonVars
<1>1. ASSUME NEW s \in Signals, SigWait(s) PROVE Waiting'
  BY <1>1 DEF SigWait
<1>2. CASE DrainSignals
  BY <1>2 DEF DrainSignals
<1>3. CASE SwitchLock \/ SwitchRepaint \/ SwitchRepainted \/ SwitchMode \/
       SwitchSilent
  BY <1>3 DEF SwitchLock, SwitchRepaint, NextSignal, SwitchRepainted,
     SwitchMode, SwitchSilent, Note
<1>4. CASE SwitchAck
  BY <1>4, NothingWaits DEF SwitchAck
<1>5. CASE CleanupRelease
  BY <1>5, NothingWaits DEF CleanupRelease
<1>6. CASE CleanupText
  BY <1>6 DEF CleanupText
<1>7. CASE CleanupAuto
  BY <1>7, NothingWaits DEF CleanupAuto, SetAuto
<1>8. CASE ReadActiveTty
  BY <1>8 DEF ReadActiveTty
<1>9. CASE Attach
  BY <1>9 DEF Attach, SetProcess, Note
<1>10. CASE CmdPaint \/ PaintDone \/ ConsoleActive \/ CmdSetMode \/
       WaitInterrupted \/ CmdSetTtyVerbose \/ CmdSetEventDev
  BY <1>10 DEF CmdPaint, Command, Return, ReturnLeaving, PaintDone,
     ConsoleActive, CmdSetMode, RequestConsole, Activate, WaitInterrupted,
     CmdSetTtyVerbose, CmdSetEventDev
<1>11. CASE CmdSetTtySilent
  BY <1>11 DEF CmdSetTtySilent, Command, Return, ReturnLeaving
<1>12. CASE MoveRelease
  BY <1>12, NothingWaits DEF MoveRelease
<1>13. CASE MoveText \/ MoveTty
  BY <1>13 DEF MoveText, MoveTty
<1>14. CASE MoveAuto
  BY <1>14, NothingWaits DEF MoveAuto, SetAuto
<1>15. CASE MoveProcess
  BY <1>15 DEF MoveProcess, SetProcess, Return, ReturnLeaving, Note
<1>16. CASE CmdExit \/ FadeDone \/ ExitKill \/ ExitJoined
  BY <1>16 DEF CmdExit, Command, FadeDone, Activate, ExitKill, ExitJoined
<1>17. CASE AnimPaint \/ AnimPainted \/ AlarmFires \/ F2Decide \/ F2Switch
       \/ F2OnTty \/ Terminate
  BY <1>17 DEF AnimPaint, AnimPainted, AlarmFires, Activate, F2Decide,
     F2Switch, F2OnTty, Terminate
<1>18. ASSUME NEW t \in VT, Chvt(t) PROVE Waiting'
  BY <1>18 DEF Chvt, Activate
<1>19. CASE KernelSwitch
  <2> USE <1>19 DEF KernelSwitch, ConsoleWorker, CompleteSwitch, VTTypeOK
  <2>1. CASE AskRelease
    BY <2>1 DEF AskRelease
  <2>2. CASE ResetAndSwitch
    BY <2>2 DEF ResetAndSwitch
  <2>3. CASE SwitchAway
    BY <2>3 DEF SwitchAway
  <2>4. CASE DropRequest
    BY <2>4 DEF DropRequest
  <2> QED
    BY <2>1, <2>2, <2>3, <2>4
<1>20. CASE UNCHANGED vars
  BY <1>20 DEF vars
<1> QED
  BY <1>1, <1>2, <1>3, <1>4, <1>5, <1>6, <1>7, <1>8, <1>9, <1>10, <1>11,
     <1>12, <1>13, <1>14, <1>15, <1>16, <1>17, <1>18, <1>19, <1>20 DEF Next,
     SigThread, MainThread, Commands, Others

\* No graphics mode without VT_PROCESS.
LEMMA GraphicsStep ==
  Graphics /\ TypeOK /\ Attached /\ [Next]_vars => Graphics'
<1> SUFFICES ASSUME Graphics, TypeOK, Attached, [Next]_vars PROVE Graphics'
  OBVIOUS
<1> USE DEF Graphics, Attached, Cleaning, Moving, vtVars, cfgVars, lockVars,
        sigVars, mainVars, monVars, daemonVars
<1>1. ASSUME NEW s \in Signals, SigWait(s) PROVE Graphics'
  BY <1>1 DEF SigWait
<1>2. CASE DrainSignals
  BY <1>2 DEF DrainSignals
<1>3. CASE SwitchLock \/ SwitchRepaint \/ SwitchRepainted \/ SwitchMode \/
       SwitchSilent
  BY <1>3 DEF SwitchLock, SwitchRepaint, NextSignal, SwitchRepainted,
     SwitchMode, SwitchSilent, Note
<1>4. CASE SwitchAck
  BY <1>4 DEF SwitchAck, RelDisp, CompleteSwitch
<1>5. CASE CleanupRelease
  BY <1>5 DEF CleanupRelease, RelDisp, CompleteSwitch
<1>6. CASE CleanupText
  BY <1>6 DEF CleanupText
<1>7. CASE CleanupAuto
  BY <1>7 DEF CleanupAuto, SetAuto
<1>8. CASE ReadActiveTty
  BY <1>8 DEF ReadActiveTty
<1>9. CASE Attach
  BY <1>9 DEF Attach, SetProcess, Note
<1>10. CASE CmdPaint \/ PaintDone \/ ConsoleActive \/ CmdSetMode \/
       WaitInterrupted \/ CmdSetTtyVerbose \/ CmdSetEventDev
  BY <1>10 DEF CmdPaint, Command, Return, ReturnLeaving, PaintDone,
     ConsoleActive, CmdSetMode, RequestConsole, Activate, WaitInterrupted,
     CmdSetTtyVerbose, CmdSetEventDev
<1>11. CASE CmdSetTtySilent
  BY <1>11 DEF CmdSetTtySilent, Command, Return, ReturnLeaving
<1>12. CASE MoveRelease
  BY <1>12 DEF MoveRelease, RelDisp, CompleteSwitch
<1>13. CASE MoveText \/ MoveTty
  BY <1>13 DEF MoveText, MoveTty
<1>14. CASE MoveAuto
  BY <1>14 DEF MoveAuto, SetAuto
<1>15. CASE MoveProcess
  BY <1>15 DEF MoveProcess, SetProcess, Return, ReturnLeaving, Note
<1>16. CASE CmdExit \/ FadeDone \/ ExitKill \/ ExitJoined
  BY <1>16 DEF CmdExit, Command, FadeDone, Activate, ExitKill, ExitJoined
<1>17. CASE AnimPaint \/ AnimPainted \/ AlarmFires \/ F2Decide \/ F2Switch
       \/ F2OnTty \/ Terminate
  BY <1>17 DEF AnimPaint, AnimPainted, AlarmFires, Activate, F2Decide,
     F2Switch, F2OnTty, Terminate
<1>18. ASSUME NEW t \in VT, Chvt(t) PROVE Graphics'
  BY <1>18 DEF Chvt, Activate
<1>19. CASE KernelSwitch
  BY <1>19 DEF KernelSwitch, ConsoleWorker, AskRelease, ResetAndSwitch,
     SwitchAway, DropRequest, CompleteSwitch, Note
<1>20. CASE UNCHANGED vars
  BY <1>20 DEF vars
<1> QED
  BY <1>1, <1>2, <1>3, <1>4, <1>5, <1>6, <1>7, <1>8, <1>9, <1>10, <1>11,
     <1>12, <1>13, <1>14, <1>15, <1>16, <1>17, <1>18, <1>19, <1>20 DEF Next,
     SigThread, MainThread, Commands, Others

\* Served in order, an acquisition releases nothing and a release that waits
\* leaves the silent tty.
LEMMA ModeAck == Mode /\ TypeOK /\ Locks /\ Attached /\ Waiting /\ SwitchAck => Mode'
<1> SUFFICES ASSUME Mode, TypeOK, Locks, Attached, Waiting, SwitchAck PROVE Mode'
  OBVIOUS
<1> USE DEF SwitchAck, Mode, Following, AcquireUnserved, Cleaning, Moving, TypeOK, VTTypeOK,
    cfgVars, lockVars, mainVars, monVars
<1> SUFFICES ASSUME excused = {}, Following PROVE Mode'
  OBVIOUS
<1>0. alive /\ vtproc = {tty_s}
  BY DEF Attached
<1>1. CASE newvt[tty_s] = NoVT
  <2>1. UNCHANGED <<newvt, fg, sig>>
    BY <1>1 DEF RelDisp
  <2> QED
    BY <2>1, <1>1
<1>2. CASE newvt[tty_s] # NoVT
  <2>1. hpc = "rel1" /\ "USR2" \notin sig /\ newvt[tty_s] # tty_s
    BY <1>2 DEF Waiting
  <2>2. fg' = newvt[tty_s] /\ sig' = sig
    BY <2>1, <1>2, <1>0 DEF RelDisp, CompleteSwitch
  <2> QED
    BY <2>1, <2>2, <1>2
<1> QED
  BY <1>1, <1>2

\* From VT_SETMODE on the mode is tracked; before, no signal was sent.
LEMMA ModeAttach == Mode /\ TypeOK /\ Locks /\ Attached /\ Waiting /\ Attach => Mode'
<1> SUFFICES ASSUME Mode, TypeOK, Locks, Attached, Waiting, Attach PROVE Mode'
  OBVIOUS
<1> SUFFICES ASSUME excused' = {}, Following' PROVE Mode'
  BY DEF Mode
<1>1. sig \subseteq {"TERM"} /\ hpc = "wait" /\ sig' = sig /\ hpc' = hpc
  BY DEF Attach, Attached, Following, Cleaning, sigVars
<1>2. (ctty = "silent") = (fg = tty_s) /\ fg' = fg /\ ctty' = ctty /\ tty_s' = tty_s
  BY DEF Attach, Note, cfgVars
<1> QED
  BY <1>1, <1>2 DEF Mode, AcquireUnserved, TypeOK

\* The console worker asks for a release only after the acquisition was
\* served, or the overtaking is noted.
LEMMA ModeKernel == Mode /\ TypeOK /\ Locks /\ Attached /\ Waiting /\ KernelSwitch => Mode'
<1> SUFFICES ASSUME Mode, TypeOK, Locks, Attached, Waiting, KernelSwitch, excused' = {}, Following' PROVE Mode'
  BY DEF Mode
<1> USE DEF KernelSwitch, Note, ConsoleWorker, TypeOK, VTTypeOK, cfgVars, lockVars, sigVars, mainVars, monVars, daemonVars
<1>1. excused = {} /\ ~Overtaking /\ Following
  BY DEF Following
<1>2. vtproc = {tty_s}
  BY <1>1 DEF Attached, Following, Cleaning, Moving
<1>3. CASE AskRelease
  BY <1>1, <1>2, <1>3 DEF AskRelease, Mode, AcquireUnserved, Overtaking
<1>4. CASE ResetAndSwitch
  BY <1>1, <1>4 DEF ResetAndSwitch, Following
<1>5. CASE SwitchAway
  BY <1>1, <1>2, <1>5 DEF SwitchAway, CompleteSwitch, Mode, AcquireUnserved, Overtaking, Waiting, Following
<1>6. CASE DropRequest
  BY <1>1, <1>6 DEF DropRequest, Mode, AcquireUnserved
<1> QED
  BY <1>3, <1>4, <1>5, <1>6

\* ctty lags behind the console by at most the signal being served.
LEMMA ModeStep == Mode /\ TypeOK /\ Locks /\ Attached /\ Waiting /\ Attached' /\ [Next]_vars => Mode'
<1> SUFFICES ASSUME Mode, TypeOK, Locks, Attached, Waiting, Attached', [Next]_vars PROVE Mode'
  OBVIOUS
<1> USE DEF Mode, Following, AcquireUnserved, Cleaning, Moving, vtVars,
        cfgVars, lockVars, sigVars, mainVars, monVars, daemonVars
<1>1. ASSUME NEW s \in Signals, SigWait(s) PROVE Mode'
  BY <1>1 DEF SigWait
<1>2. CASE DrainSignals
  BY <1>2 DEF DrainSignals
<1>3. CASE SwitchLock
  BY <1>3 DEF SwitchLock
<1>4. CASE SwitchAck
  BY <1>4, ModeAck
<1>5. CASE SwitchMode
  BY <1>5 DEF SwitchMode, NextSignal
<1>6. CASE SwitchSilent
  BY <1>6 DEF SwitchSilent, Note
<1>7. CASE SwitchRepaint
  BY <1>7 DEF SwitchRepaint, NextSignal
<1>8. CASE SwitchRepainted
  BY <1>8 DEF SwitchRepainted, NextSignal
<1>9. CASE CleanupRelease
  BY <1>9 DEF CleanupRelease, RelDisp, CompleteSwitch
<1>10. CASE CleanupText
  BY <1>10 DEF CleanupText
<1>11. CASE CleanupAuto
  BY <1>11 DEF CleanupAuto, SetAuto
<1>12. CASE ReadActiveTty
  BY <1>12 DEF ReadActiveTty
<1>13. CASE Attach
  BY <1>13, ModeAttach
<1>14. CASE CmdPaint
  BY <1>14 DEF CmdPaint, Command, Return, ReturnLeaving
<1>15. CASE PaintDone
  BY <1>15 DEF PaintDone, Return, ReturnLeaving
<1>16. CASE CmdSetMode
  BY <1>16 DEF CmdSetMode, Command, RequestConsole, Activate, ReturnLeaving
<1>17. CASE ConsoleActive
  BY <1>17 DEF ConsoleActive, Return, ReturnLeaving
<1>18. CASE WaitInterrupted
  BY <1>18 DEF WaitInterrupted, RequestConsole, Activate, ReturnLeaving
<1>19. CASE CmdSetTtyVerbose
  BY <1>19 DEF CmdSetTtyVerbose, Command, Return, ReturnLeaving
<1>20. CASE CmdSetTtySilent
  BY <1>20 DEF CmdSetTtySilent, Command, Return, ReturnLeaving
<1>21. CASE CmdSetEventDev
  BY <1>21 DEF CmdSetEventDev, Command, Return, ReturnLeaving
<1>22. CASE MoveRelease
  BY <1>22 DEF MoveRelease, RelDisp, CompleteSwitch
<1>23. CASE MoveText
  BY <1>23 DEF MoveText
<1>24. CASE MoveAuto
  BY <1>24 DEF MoveAuto, SetAuto
<1>25. CASE MoveTty
  BY <1>25 DEF MoveTty
<1>26. CASE MoveProcess
  BY <1>26 DEF MoveProcess, SetProcess, Return, ReturnLeaving, Note
<1>27. CASE CmdExit
  BY <1>27 DEF CmdExit, Command
<1>28. CASE FadeDone
  BY <1>28 DEF FadeDone, Activate
<1>29. CASE ExitKill
  BY <1>29 DEF ExitKill
<1>30. CASE ExitJoined
  BY <1>30 DEF ExitJoined
<1>31. CASE AnimPaint
  BY <1>31 DEF AnimPaint
<1>32. CASE AnimPainted
  BY <1>32 DEF AnimPainted
<1>33. CASE AlarmFires
  BY <1>33 DEF AlarmFires, Activate
<1>34. CASE F2Decide
  BY <1>34 DEF F2Decide
<1>35. CASE F2Switch
  BY <1>35 DEF F2Switch, Activate
<1>36. CASE F2OnTty
  BY <1>36 DEF F2OnTty, Activate
<1>37. ASSUME NEW t \in VT, Chvt(t) PROVE Mode'
  BY <1>37 DEF Chvt, Activate
<1>38. CASE Terminate
  BY <1>38 DEF Terminate
<1>39. CASE KernelSwitch
  BY <1>39, ModeKernel
<1>40. CASE UNCHANGED vars
  BY <1>40 DEF vars
<1> QED
  BY <1>1, <1>2, <1>3, <1>4, <1>5, <1>6, <1>7, <1>8, <1>9, <1>10, <1>11,
     <1>12, <1>13, <1>14, <1>15, <1>16, <1>17, <1>18, <1>19, <1>20, <1>21,
     <1>22, <1>23, <1>24, <1>25, <1>26, <1>27, <1>28, <1>29, <1>30, <1>31,
     <1>32, <1>33, <1>34, <1>35, <1>36, <1>37, <1>38, <1>39, <1>40 DEF Next,
     SigThread, MainThread, Commands, Others

-----------------------------------------------------------------------------
(* Theorems                                                                *)

\* The invariant holds in every reachable state, whatever the consoles, the
\* inputs and the options are.
THEOREM Invariance == Spec => []IInv
<1>1. Init => IInv
  BY VTAssumption, SwitchAssumption
     DEF Init, VTInit, IInv, TypeOK, VTTypeOK, Locks, Attached, Waiting, Graphics,
         Mode, ReleaseIsAnnounced, Following, Signals, HandlerPC, SwitchServe,
         Cleaning, MainPC, Moving, Threads, SwitchSigs
<1>2. IInv /\ [Next]_vars => IInv'
  <2> SUFFICES ASSUME IInv, [Next]_vars PROVE IInv'
    OBVIOUS
  <2>1. TypeOK'
    BY TypeStep DEF IInv
  <2>2. Locks'
    BY LocksStep DEF IInv
  <2>3. Attached'
    BY AttachedStep DEF IInv
  <2>4. Waiting'
    BY WaitingStep DEF IInv
  <2>5. Graphics'
    BY GraphicsStep DEF IInv
  <2>6. Mode'
    BY <2>3, ModeStep DEF IInv
  <2> QED
    BY <2>1, <2>2, <2>3, <2>4, <2>5, <2>6 DEF IInv
<1> QED
  BY <1>1, <1>2, PTL DEF Spec

\* Every variable keeps its type.
THEOREM TypeCorrect == Spec => []TypeOK
<1>1. IInv => TypeOK
  BY DEF IInv
<1> QED
  BY <1>1, Invariance, PTL

\* With no switch in progress and none of the disturbances, ctty tells
\* whether the silent tty is in the foreground.
THEOREM ModeTheorem == Spec => []ModeFollowsConsole
<1>1. IInv => ModeFollowsConsole
  BY DEF IInv, TypeOK, Mode, ModeFollowsConsole, ModeIsConsole, Settled, SwitchSigs,
         SwitchServe, AcquireUnserved
<1> QED
  BY <1>1, Invariance, PTL

\* While a thread paints, the silent tty is in the foreground.
THEOREM PaintTheorem == Spec => []PaintsOnlySilentTty
<1>1. IInv => PaintsOnlySilentTty
  BY DEF IInv, Locks, Mode, PaintsOnlySilentTty, Painting
<1> QED
  BY <1>1, Invariance, PTL

\* A console switch that waits for the daemon is never forgotten by it.
THEOREM ReleaseTheorem == Spec => []ReleaseIsAnnounced
<1>1. IInv => ReleaseIsAnnounced
  BY DEF IInv, Waiting
<1> QED
  BY <1>1, Invariance, PTL

\* The foreground console can be left.
THEOREM NotStuckTheorem == Spec => []ConsoleNotStuck
<1>1. IInv => ConsoleNotStuck
  BY DEF IInv, Graphics, ConsoleNotStuck, Stuck
<1> QED
  BY <1>1, Invariance, PTL
=============================================================================
