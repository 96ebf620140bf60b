---------------------------- MODULE ConsoleSwitch ----------------------------
(***************************************************************************)
(* The splash daemon and the console: how fbsplashd follows the switches   *)
(* between the silent tty and the others (core/src/daemon.c), and the FIFO *)
(* commands that switch consoles, move the silent tty, paint or exit       *)
(* (core/src/daemon_cmd.c).  Module VTConsole is the kernel's part.        *)
(*                                                                         *)
(* Threads: the main thread (mpc), the signal handler thread (hpc), the    *)
(* animation thread (seen only through mtx_paint) and the key monitor      *)
(* (mon, f2).  A program counter names the next statement that touches     *)
(* shared state; what a thread does while it holds a mutex that guards     *)
(* everything it touches is one step.                                      *)
(***************************************************************************)
EXTENDS VTConsole, FiniteSets

CONSTANTS Silent0, Verbose0, \* config.tty_s and config.tty_v at startup
          TtyChoices,  \* the arguments clients give to 'set tty silent'
          Inputs,      \* the kinds of external input that occur, see InputKinds
          KdGraphics,  \* --kdgraphics
          Autoverbose, \* config.autoverbose > 0
          MaxTries     \* rounds of 'set mode' before it gives up (9 in the code)

InputKinds == {"chvt", "f2", "mode", "tty", "ttyv", "evdev", "paint",
              "exit", "staysilent", "term"}

ASSUME SwitchAssumption ==
  /\ Silent0 \in VT /\ Verbose0 \in VT
  /\ TtyChoices \subseteq VT
  /\ Inputs \subseteq InputKinds
  /\ KdGraphics \in BOOLEAN /\ Autoverbose \in BOOLEAN
  /\ MaxTries \in Nat \ {0}

VARIABLES ctty,      \* the daemon's idea of the splash mode
          tty_s, tty_v,
          mtx_paint, \* holder of mtx_paint: a thread or "none"
          mtx_tty,   \* holder of mtx_tty
          hpc, quit, \* signal handler thread; why it is terminating
          mpc,       \* main thread
          target,    \* main thread: the tty 'set mode' or 'set tty' asks for
          tries,     \* main thread: rounds of 'set mode' made
          alarm,     \* what the interval timer will do: alarm_type, or "off";
             \* "taken" once another thread has spent the main thread's alarm
          mon, f2,   \* the key monitor running; the tty a F2 press decided on
          excused    \* history: disturbances after which ctty may be wrong

mainVars   == <<mpc, target, tries, alarm>>
sigVars    == <<hpc, quit>>
lockVars   == <<mtx_paint, mtx_tty>>
cfgVars    == <<ctty, tty_s, tty_v>>
monVars    == <<mon, f2>>
daemonVars == <<cfgVars, lockVars, sigVars, mainVars, monVars>>
vars       == <<vtVars, daemonVars, excused>>

SwitchServe == {"lock1", "rel1", "set1", "lock2", "rel2", "set2"}
Cleaning    == {"clean1", "clean2", "clean3", "done"}
HandlerPC   == SwitchServe \union Cleaning \union {"wait", "drain", "ss", "rp", "rpaint"}
Moving      == {"mv1", "mv2", "mv3", "mv4", "mv5"}
MainPC      == Moving \union {"boot", "attach", "idle", "waitact", "paint", "fade", "fadestay", "kill", "join", "gone"}
Threads     == {"main", "sig", "anim"}

TypeOK ==
  /\ VTTypeOK
  /\ ctty \in {"silent", "verbose"}
  /\ tty_s \in VT /\ tty_v \in VT
  /\ mtx_paint \in Threads \union {"none"}
  /\ mtx_tty \in {"main", "none"}
  /\ hpc \in HandlerPC
  /\ quit \in {"no", "int", "term"}
  /\ mpc \in MainPC
  /\ target \in VT
  /\ tries \in 0..MaxTries
  /\ alarm \in {"off", "auto", "intr", "taken"}
  /\ mon \in {"none", "evdev", "ttymon"}
  /\ f2 \in VT \union {NoVT}
  /\ excused \subseteq {"startup", "overtaken", "moved"}

Init ==
  /\ VTInit
  /\ ctty = "verbose"
  /\ tty_s = Silent0 /\ tty_v = Verbose0
  /\ mtx_paint = "main" /\ mtx_tty = "none"
  /\ hpc = "wait" /\ quit = "no"
  /\ mpc = "boot" /\ target = Verbose0 /\ tries = 0
  /\ alarm = "off"
  /\ mon = "none" /\ f2 = NoVT
  /\ excused = {}

-----------------------------------------------------------------------------
(* Disturbances.  A signal of one switch overtakes the unserved signal of  *)
(* the switch before it: the silent tty is asked to be released before the *)
(* daemon saw that it was acquired, or the other way round.                *)

AcquireUnserved == "USR2" \in sig \/ hpc \in {"lock2", "rel2"}

Overtaking ==
  \/ "USR1" \in sig' \ sig /\ AcquireUnserved
  \/ "USR2" \in sig' \ sig /\ "USR1" \in sig

Note(happened, what) == excused' = IF happened THEN excused \union {what} ELSE excused

-----------------------------------------------------------------------------
(* The signal handler thread, thf_sighandler                               *)

\* Where the loop continues after a switch signal was processed.
NextSignal == IF quit = "int" THEN "drain" ELSE "wait"

SigWait(s) ==
  /\ alive /\ hpc = "wait" /\ s \in sig
  /\ sig' = sig \ {s}
  /\ \/ s = "USR1" /\ hpc' = "lock1" /\ UNCHANGED quit
     \/ s = "USR2" /\ hpc' = "lock2" /\ UNCHANGED quit
     \/ s = "INT"  /\ hpc' = "drain" /\ quit' = "int"
     \/ s = "TERM" /\ hpc' = "clean1" /\ quit' = "term"
  /\ UNCHANGED <<fg, vtproc, kdgfx, newvt, want, alive, cfgVars, lockVars,
                 mainVars, monVars, excused>>

\* After SIGINT: take the switch signals that are still pending.
DrainSignals ==
  /\ alive /\ hpc = "drain"
  /\ \/ "USR1" \in sig /\ sig' = sig \ {"USR1"} /\ hpc' = "lock1"
     \/ "USR2" \in sig /\ sig' = sig \ {"USR2"} /\ hpc' = "lock2"
     \/ sig \intersect SwitchSigs = {} /\ UNCHANGED sig /\ hpc' = "clean1"
  /\ UNCHANGED <<fg, vtproc, kdgfx, newvt, want, alive, cfgVars, lockVars, quit,
                 mainVars, monVars, excused>>

\* Fault: the switch does not wait for the painting thread.
SwitchLockFault ==
  /\ alive /\ hpc \in {"lock1", "lock2"}
  /\ hpc' = IF hpc = "lock1" THEN "rel1" ELSE "rel2"
  /\ UNCHANGED <<vtVars, cfgVars, lockVars, quit, mainVars, monVars, excused>>

\* process_switch_sig: mtx_paint first, then the ioctl under mtx_tty.
SwitchLock ==
  /\ alive /\ hpc \in {"lock1", "lock2"} /\ mtx_paint = "none"
  /\ mtx_paint' = "sig"
  /\ hpc' = IF hpc = "lock1" THEN "rel1" ELSE "rel2"
  /\ UNCHANGED <<vtVars, cfgVars, mtx_tty, quit, mainVars, monVars, excused>>

\* Fault: only an acquisition is acknowledged.
SwitchAckFault ==
  /\ alive /\ hpc \in {"rel1", "rel2"} /\ mtx_tty = "none"
  /\ IF hpc = "rel2" THEN RelDisp(tty_s) ELSE UNCHANGED <<newvt, fg, sig>>
  /\ hpc' = IF hpc = "rel1" THEN "set1" ELSE "set2"
  /\ UNCHANGED <<vtproc, kdgfx, want, alive, cfgVars, lockVars, quit, mainVars,
                 monVars, excused>>

SwitchAck ==
  /\ alive /\ hpc \in {"rel1", "rel2"} /\ mtx_tty = "none"
  /\ RelDisp(tty_s)
  /\ hpc' = IF hpc = "rel1" THEN "set1" ELSE "set2"
  /\ UNCHANGED <<vtproc, kdgfx, want, alive, cfgVars, lockVars, quit, mainVars,
                 monVars, excused>>

SwitchMode ==
  /\ alive /\ hpc \in {"set1", "set2"}
  /\ ctty' = IF hpc = "set1" THEN "verbose" ELSE "silent"
  /\ mtx_paint' = "none"
  /\ hpc' = IF hpc = "set1" THEN NextSignal ELSE "ss"
  /\ UNCHANGED <<vtVars, tty_s, tty_v, mtx_tty, quit, mainVars, monVars, excused>>

\* switch_silent: tty_s is read without mtx_tty.  The theme it may reload
\* is not part of this module.
SwitchSilent ==
  /\ alive /\ hpc = "ss" /\ mtx_paint = "none"
  /\ kdgfx' = IF KdGraphics THEN kdgfx \union {tty_s} ELSE kdgfx
  /\ hpc' = "rp"
  /\ Note(mpc \in Moving, "moved")
  /\ UNCHANGED <<fg, vtproc, newvt, want, sig, alive, cfgVars, lockVars, quit,
                 mainVars, monVars>>

\* Its final cmd_repaint paints only in silent mode.
SwitchRepaint ==
  /\ alive /\ hpc = "rp" /\ mtx_paint = "none"
  /\ IF ctty = "silent"
     THEN mtx_paint' = "sig" /\ hpc' = "rpaint"
     ELSE UNCHANGED mtx_paint /\ hpc' = NextSignal
  /\ UNCHANGED <<vtVars, cfgVars, mtx_tty, quit, mainVars, monVars, excused>>

SwitchRepainted ==
  /\ alive /\ hpc = "rpaint"
  /\ mtx_paint' = "none" /\ hpc' = NextSignal
  /\ UNCHANGED <<vtVars, cfgVars, mtx_tty, quit, mainVars, monVars, excused>>

\* do_cleanup: three ioctls on the silent tty; mtx_tty is only tried, so
\* nothing excludes the main thread.  exit(0) follows after SIGTERM, after
\* SIGINT the thread ends and the main thread joins it.
CleanupRelease ==
  /\ alive /\ hpc = "clean1" /\ hpc' = "clean2"
  /\ RelDisp(tty_s)
  /\ UNCHANGED <<vtproc, kdgfx, want, alive, cfgVars, lockVars, quit, mainVars,
                 monVars, excused>>

CleanupText ==
  /\ alive /\ hpc = "clean2" /\ hpc' = "clean3"
  /\ kdgfx' = kdgfx \ {tty_s}
  /\ UNCHANGED <<fg, vtproc, newvt, want, sig, alive, cfgVars, lockVars, quit,
                 mainVars, monVars, excused>>

CleanupAuto ==
  /\ alive /\ hpc = "clean3" /\ hpc' = "done"
  /\ SetAuto(tty_s)
  /\ IF quit = "term" THEN alive' = FALSE ELSE UNCHANGED alive
  /\ UNCHANGED <<fg, kdgfx, want, sig, cfgVars, lockVars, quit, mainVars, monVars,
                 excused>>

-----------------------------------------------------------------------------
(* The main thread: startup, then one FIFO command after another           *)

\* daemon_start holds mtx_paint while it asks which console is active.
ReadActiveTty ==
  /\ alive /\ mpc = "boot"
  /\ ctty' = IF fg = tty_s THEN "silent" ELSE "verbose"
  /\ mtx_paint' = "none"
  /\ mpc' = "attach"
  /\ UNCHANGED <<vtVars, tty_s, tty_v, mtx_tty, sigVars, target, tries, alarm,
                 monVars, excused>>

\* Only now are switches of the silent tty reported to the daemon:
\* switchmon_start(UPD_ALL) with no event device open yet.
Attach ==
  /\ alive /\ mpc = "attach" /\ mtx_tty = "none"
  /\ SetProcess(tty_s)
  /\ mon' = "ttymon"
  /\ mpc' = "idle"
  /\ Note((ctty = "silent") # (fg = tty_s), "startup")
  /\ UNCHANGED <<fg, kdgfx, want, sig, alive, cfgVars, lockVars, sigVars, target,
                 tries, alarm, f2>>

\* daemon_comm is ready for the next command, which the guard names.
Command(kind) == alive /\ mpc = "idle" /\ kind \in Inputs

\* The handler returns, having left the timer as a; daemon_comm arms the
\* autoverbose timer.
ReturnLeaving(a) == mpc' = "idle" /\ alarm' = IF Autoverbose THEN "auto" ELSE a
Return == ReturnLeaving(alarm)

\* 'paint', 'repaint' and 'paint rect': nothing is painted in verbose mode.
CmdPaint ==
  /\ Command("paint") /\ mtx_paint = "none"
  /\ IF ctty = "silent"
     THEN mtx_paint' = "main" /\ mpc' = "paint" /\ UNCHANGED alarm
     ELSE UNCHANGED mtx_paint /\ Return
  /\ UNCHANGED <<vtVars, cfgVars, mtx_tty, sigVars, target, tries, monVars, excused>>

PaintDone ==
  /\ alive /\ mpc = "paint"
  /\ mtx_paint' = "none" /\ Return
  /\ UNCHANGED <<vtVars, cfgVars, mtx_tty, sigVars, target, tries, monVars, excused>>

\* 'set mode': request the console, then wait for it with a 250 ms timer.
RequestConsoleFault(n, round, timer) ==  \* Fault: the timer is not armed.
  /\ Activate(n)
  /\ target' = n
  /\ IF Stuck
     THEN ReturnLeaving(timer) /\ UNCHANGED tries
     ELSE mpc' = "waitact" /\ tries' = round /\ alarm' = timer

RequestConsole(n, round, timer) ==
  /\ Activate(n)
  /\ target' = n
  /\ IF Stuck
     THEN ReturnLeaving(timer) /\ UNCHANGED tries
     ELSE mpc' = "waitact" /\ tries' = round /\ alarm' = "intr"

CmdSetMode ==
  /\ Command("mode")
  /\ \E n \in {tty_s, tty_v} : RequestConsole(n, 1, alarm)
  /\ UNCHANGED <<fg, vtproc, kdgfx, newvt, sig, alive, cfgVars, lockVars, sigVars,
                 monVars, excused>>

\* VT_WAITACTIVE returns: the console is there.
ConsoleActive ==
  /\ alive /\ mpc = "waitact" /\ fg = target
  /\ Return
  /\ UNCHANGED <<vtVars, cfgVars, lockVars, sigVars, target, tries, monVars, excused>>

\* The main thread takes the alarm, so that VT_WAITACTIVE returns EINTR: once
\* more, or give up.  Fault: one round more than the counter holds.
WaitInterruptedFault ==
  /\ alive /\ mpc = "waitact" /\ alarm = "intr"
  /\ IF tries <= MaxTries
     THEN RequestConsole(target, tries + 1, "off")
     ELSE ReturnLeaving("off") /\ UNCHANGED <<want, target, tries>>
  /\ UNCHANGED <<fg, vtproc, kdgfx, newvt, sig, alive, cfgVars, lockVars, sigVars,
                 monVars, excused>>

WaitInterrupted ==
  /\ alive /\ mpc = "waitact" /\ alarm = "intr"
  /\ IF tries < MaxTries
     THEN RequestConsole(target, tries + 1, "off")
     ELSE ReturnLeaving("off") /\ UNCHANGED <<want, target, tries>>
  /\ UNCHANGED <<fg, vtproc, kdgfx, newvt, sig, alive, cfgVars, lockVars, sigVars,
                 monVars, excused>>

\* 'set tty verbose'
CmdSetTtyVerbose ==
  /\ Command("ttyv") /\ mtx_tty = "none"
  /\ tty_v' \in VT
  /\ Return
  /\ UNCHANGED <<vtVars, ctty, tty_s, lockVars, sigVars, target, tries, monVars, excused>>

\* 'set tty silent': the monitor is cancelled, then switchmon_start(UPD_SILENT)
\* leaves the old tty (mv1..mv3), takes the new one (mv4) and asks for
\* VT_PROCESS there (mv5), all under mtx_tty.  The same tty is no move.
CmdSetTtySilent ==
  /\ Command("tty") /\ mtx_tty = "none"
  /\ target' \in TtyChoices
  /\ IF target' = tty_s
     THEN Return /\ UNCHANGED <<mtx_tty, mon>>
     ELSE mtx_tty' = "main" /\ mpc' = "mv1" /\ mon' = "none" /\ UNCHANGED alarm
  /\ UNCHANGED <<vtVars, cfgVars, mtx_paint, sigVars, tries, f2, excused>>

MoveRelease ==
  /\ alive /\ mpc = "mv1" /\ mpc' = "mv2"
  /\ RelDisp(tty_s)
  /\ UNCHANGED <<vtproc, kdgfx, want, alive, cfgVars, lockVars, sigVars, target,
                 tries, alarm, monVars, excused>>

\* Fault: text mode is set on the new tty instead of the old one.
MoveTextFault ==
  /\ alive /\ mpc = "mv2" /\ mpc' = "mv3"
  /\ kdgfx' = kdgfx \ {target}
  /\ UNCHANGED <<fg, vtproc, newvt, want, sig, alive, cfgVars, lockVars, sigVars,
                 target, tries, alarm, monVars, excused>>

MoveText ==
  /\ alive /\ mpc = "mv2" /\ mpc' = "mv3"
  /\ kdgfx' = kdgfx \ {tty_s}
  /\ UNCHANGED <<fg, vtproc, newvt, want, sig, alive, cfgVars, lockVars, sigVars,
                 target, tries, alarm, monVars, excused>>

\* Fault: VT_AUTO is set on the new tty instead of the old one.
MoveAutoFault ==
  /\ alive /\ mpc = "mv3" /\ mpc' = "mv4"
  /\ SetAuto(target)
  /\ UNCHANGED <<fg, kdgfx, want, sig, alive, cfgVars, lockVars, sigVars, target,
                 tries, alarm, monVars, excused>>

MoveAuto ==
  /\ alive /\ mpc = "mv3" /\ mpc' = "mv4"
  /\ SetAuto(tty_s)
  /\ UNCHANGED <<fg, kdgfx, want, sig, alive, cfgVars, lockVars, sigVars, target,
                 tries, alarm, monVars, excused>>

\* fbsplashr_tty_silent_set keeps the old tty when fb_init fails.
MoveTty ==
  /\ alive /\ mpc = "mv4" /\ mpc' = "mv5"
  /\ tty_s' \in {tty_s, target}
  /\ UNCHANGED <<vtVars, ctty, tty_v, lockVars, sigVars, target, tries, alarm,
                 monVars, excused>>

\* Fault: the new tty is not put in VT_PROCESS mode.
MoveProcessFault ==
  /\ alive /\ mpc = "mv5"
  /\ mtx_tty' = "none" /\ Return
  /\ Note(fg = tty_s \/ ctty = "silent" \/ AcquireUnserved \/ hpc = "set2", "moved")
  /\ UNCHANGED <<vtVars, cfgVars, mtx_paint, sigVars, target, tries, monVars>>

\* The mode is tracked from here on; it starts out right only if the new
\* tty is not in the foreground and the old mode was verbose.
MoveProcess ==
  /\ alive /\ mpc = "mv5"
  /\ SetProcess(tty_s)
  /\ mtx_tty' = "none" /\ Return
  /\ Note(fg = tty_s \/ ctty = "silent" \/ AcquireUnserved \/ hpc = "set2", "moved")
  /\ UNCHANGED <<fg, kdgfx, want, sig, alive, cfgVars, mtx_paint, sigVars, target,
                 tries, monVars>>

\* 'set event dev': the monitor is replaced; the device may not open.
CmdSetEventDev ==
  /\ Command("evdev")
  /\ mon' \in {"evdev", "ttymon"}
  /\ Return
  /\ UNCHANGED <<vtVars, cfgVars, lockVars, sigVars, target, tries, f2, excused>>

\* 'exit [staysilent]': in silent mode fade out and ask for the verbose tty
\* under mtx_paint, then stop the signal handler thread and wait for it.
CmdExit ==
  /\ mtx_paint = "none"
  /\ \E fade \in {"fade", "fadestay"} :
       /\ Command(IF fade = "fade" THEN "exit" ELSE "staysilent")
       /\ IF ctty = "silent"
          THEN mtx_paint' = "main" /\ mpc' = fade
          ELSE UNCHANGED mtx_paint /\ mpc' = "kill"
  /\ mon' = "none"
  /\ UNCHANGED <<vtVars, cfgVars, mtx_tty, sigVars, target, tries, alarm, f2, excused>>

FadeDone ==
  /\ alive /\ mpc \in {"fade", "fadestay"} /\ mpc' = "kill"
  /\ IF mpc = "fade" THEN Activate(tty_v) ELSE UNCHANGED want
  /\ mtx_paint' = "none"
  /\ UNCHANGED <<fg, vtproc, kdgfx, newvt, sig, alive, cfgVars, mtx_tty, sigVars,
                 target, tries, alarm, monVars, excused>>

\* Fault: the signal handler thread is not told to end.
ExitKillFault ==
  /\ alive /\ mpc = "kill" /\ mpc' = "join"
  /\ UNCHANGED <<vtVars, cfgVars, lockVars, sigVars, target, tries, alarm, monVars,
                 excused>>

ExitKill ==
  /\ alive /\ mpc = "kill" /\ mpc' = "join"
  /\ sig' = sig \union {"INT"}
  /\ UNCHANGED <<fg, vtproc, kdgfx, newvt, want, alive, cfgVars, lockVars, sigVars,
                 target, tries, alarm, monVars, excused>>

ExitJoined ==
  /\ alive /\ mpc = "join" /\ hpc = "done"
  /\ mpc' = "gone" /\ alive' = FALSE
  /\ UNCHANGED <<fg, vtproc, kdgfx, newvt, want, sig, cfgVars, lockVars, sigVars,
                 target, tries, alarm, monVars, excused>>

-----------------------------------------------------------------------------
(* The other threads and the world outside                                 *)

\* thf_anim takes mtx_paint for a round and paints in silent mode.
AnimPaint ==
  /\ alive /\ mpc # "boot" /\ mtx_paint = "none" /\ ctty = "silent"
  /\ mtx_paint' = "anim"
  /\ UNCHANGED <<vtVars, cfgVars, mtx_tty, sigVars, mainVars, monVars, excused>>

AnimPainted ==
  /\ alive /\ mtx_paint = "anim"
  /\ mtx_paint' = "none"
  /\ UNCHANGED <<vtVars, cfgVars, mtx_tty, sigVars, mainVars, monVars, excused>>

\* handler_alarm in whichever thread the signal interrupts ("we don't care
\* which thread executes this handler").  When it is not the main thread that
\* runs it, VT_WAITACTIVE is not interrupted, and the timer is spent.
AlarmFires ==
  /\ alive /\ alarm \in {"auto", "intr"}
  /\ alarm = "auto" => mtx_paint = "none"
  /\ IF alarm = "auto" /\ ctty = "silent" THEN Activate(tty_v) ELSE UNCHANGED want
  /\ alarm' = IF mpc = "waitact" THEN "taken" ELSE "off"
  /\ UNCHANGED <<fg, vtproc, kdgfx, newvt, sig, alive, cfgVars, lockVars, sigVars,
                 mpc, target, tries, monVars, excused>>

\* F2, seen on the event device: the decision, and later the ioctl.
F2Decide ==
  /\ alive /\ "f2" \in Inputs /\ mon = "evdev" /\ f2 = NoVT /\ mtx_paint = "none"
  /\ f2' = IF ctty = "silent" THEN tty_v ELSE tty_s
  /\ UNCHANGED <<vtVars, cfgVars, lockVars, sigVars, mainVars, mon, excused>>

F2Switch ==
  /\ alive /\ f2 # NoVT
  /\ Activate(f2)
  /\ f2' = NoVT
  /\ UNCHANGED <<fg, vtproc, kdgfx, newvt, sig, alive, cfgVars, lockVars, sigVars,
                 mainVars, mon, excused>>

\* F2, read from the silent tty, which has the keyboard while in front.
F2OnTty ==
  /\ alive /\ "f2" \in Inputs /\ mon = "ttymon" /\ fg = tty_s /\ mtx_tty = "none"
  /\ Activate(tty_v)
  /\ UNCHANGED <<fg, vtproc, kdgfx, newvt, sig, alive, daemonVars, excused>>

\* Anybody else's console switch: Alt-Fn, chvt, the X server.
Chvt(t) ==
  /\ "chvt" \in Inputs
  /\ Activate(t)
  /\ UNCHANGED <<fg, vtproc, kdgfx, newvt, sig, alive, daemonVars, excused>>

Terminate ==
  /\ "term" \in Inputs /\ alive
  /\ sig' = sig \union {"TERM"}
  /\ UNCHANGED <<fg, vtproc, kdgfx, newvt, want, alive, daemonVars, excused>>

KernelSwitch ==
  /\ ConsoleWorker
  /\ Note(Overtaking, "overtaken")
  /\ UNCHANGED daemonVars

-----------------------------------------------------------------------------
SigThread  == \/ \E s \in Signals : SigWait(s)
              \/ DrainSignals \/ SwitchLock \/ SwitchAck \/ SwitchMode
              \/ SwitchSilent \/ SwitchRepaint \/ SwitchRepainted
              \/ CleanupRelease \/ CleanupText \/ CleanupAuto
Commands   == \/ CmdPaint \/ PaintDone
              \/ CmdSetMode \/ ConsoleActive \/ WaitInterrupted
              \/ CmdSetTtyVerbose \/ CmdSetTtySilent \/ CmdSetEventDev
              \/ MoveRelease \/ MoveText \/ MoveAuto \/ MoveTty \/ MoveProcess
              \/ CmdExit \/ FadeDone \/ ExitKill \/ ExitJoined
MainThread == ReadActiveTty \/ Attach \/ Commands
Others     == \/ AnimPaint \/ AnimPainted \/ AlarmFires
              \/ F2Decide \/ F2Switch \/ F2OnTty
              \/ \E t \in VT : Chvt(t)
              \/ Terminate \/ KernelSwitch

Next == SigThread \/ MainThread \/ Others

Spec == Init /\ [][Next]_vars

(* Fairness.  The kernel runs its console worker, pending signals reach    *)
(* the thread that waits for them, and timers expire.  Every mutex is held *)
(* for one step of computation and its other users sleep between uses, so  *)
(* a thread that asks for one again and again gets it: strong fairness.    *)
(* Nothing is assumed of clients and users.                                *)
Serving == DrainSignals \/ SwitchLock \/ SwitchAck \/ SwitchMode \/ SwitchSilent
           \/ SwitchRepaint \/ SwitchRepainted
           \/ CleanupRelease \/ CleanupText \/ CleanupAuto
Working == ReadActiveTty \/ Attach \/ PaintDone \/ ConsoleActive \/ WaitInterrupted
           \/ MoveRelease \/ MoveText \/ MoveAuto \/ MoveTty \/ MoveProcess
           \/ FadeDone \/ ExitKill \/ ExitJoined

Fairness ==
  /\ \A s \in Signals : SF_vars(SigWait(s))
  /\ SF_vars(Serving)
  /\ WF_vars(Working)
  /\ WF_vars(KernelSwitch)
  /\ WF_vars(AnimPainted)

FairSpec == Spec /\ Fairness

-----------------------------------------------------------------------------
(* Properties                                                              *)

\* The daemon follows the console: attached to its tty, not leaving it.
Following == alive /\ mpc \notin Moving \union {"boot", "attach"} /\ hpc \notin Cleaning

\* No switch of the silent tty is in progress.
Settled == /\ sig \intersect SwitchSigs = {}
           /\ hpc \notin SwitchServe
           /\ newvt[tty_s] = NoVT

ModeIsConsole == (ctty = "silent") <=> (fg = tty_s)

\* Unless one of the named disturbances happened, ctty is the splash mode
\* whenever no switch is in progress (daemon.h:27: ctty "effectively
\* identifies the current splash mode").
ModeFollowsConsole == excused = {} /\ Following /\ Settled => ModeIsConsole

\* A thread paints: it holds mtx_paint and has found ctty = silent.
Painting == ctty = "silent" /\ (mtx_paint \in {"main", "anim"} \/ hpc = "rpaint")

\* The purpose of VT_PROCESS and mtx_paint together: whoever paints the
\* framebuffer, the silent tty is on the screen, and stays there until the
\* paint is over (ChangeLog:68, "chvt requests are not processed during
\* fadeout", is the case mpc = "fade").
PaintsOnlySilentTty == excused = {} /\ Following /\ Painting => fg = tty_s

\* A switch that waits for the release of a VT is the foreground VT's, and a
\* signal that will make the daemon answer it is pending or being served,
\* or the daemon is about to release the tty anyway.
ReleaseIsAnnounced ==
  alive => \A v \in VT : newvt[v] # NoVT =>
    /\ v = fg /\ v = tty_s /\ v \in vtproc
    /\ \/ "USR1" \in sig
       \/ hpc \in {"lock1", "rel1", "lock2", "rel2", "clean1", "clean2", "clean3"}
       \/ mpc \in {"mv1", "mv2", "mv3"}

\* The console is never left in graphics mode without an owner that can
\* release it, unless a move of the silent tty raced a switch to it.
ConsoleNotStuck == "moved" \notin excused => ~Stuck

\* The kernel's question is always answered: a console switch that waits for
\* the release of the silent tty does not wait forever.
ReleaseIsAnswered == \A v \in VT : newvt[v] # NoVT ~> newvt[v] = NoVT

\* 'set mode' returns "in a timely manner" (daemon_cmd.c:115) even when the
\* console it waits for never comes: round after round is ended by a timer that
\* runs, until it gives up.  The exception, a defect, is an alarm that another
\* thread takes: then it waits for the console with no timer left.
SetModeReturns == mpc = "waitact" ~> mpc = "idle" \/ ~alive \/ alarm = "taken"

\* 'exit' ends the daemon: the join with the signal handler thread returns.
ExitTerminates == mpc = "kill" ~> ~alive
=============================================================================
