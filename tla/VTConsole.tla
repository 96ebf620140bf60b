------------------------------ MODULE VTConsole ------------------------------
(***************************************************************************)
(* The Linux virtual terminal layer as the splash daemon uses it through   *)
(* ioctls on /dev/tty0 and on the silent tty.  External to the repository: *)
(* it is the environment of module ConsoleSwitch.                          *)
(*                                                                         *)
(* A VT whose owner asked for VT_PROCESS is not switched away from until   *)
(* the owner acknowledges: the kernel sends relsig (SIGUSR1, daemon.c:238) *)
(* and waits for VT_RELDISP.  Switching to such a VT sends acqsig          *)
(* (SIGUSR2, daemon.c:239).  VT_ACTIVATE only records the wanted console;  *)
(* the switch is made later by the console worker.                         *)
(***************************************************************************)
EXTENDS Naturals

CONSTANTS VT,      \* the virtual terminals
          NoVT     \* "no console", the kernel's -1

ASSUME VTAssumption == NoVT \notin VT

VARIABLES fg,      \* the foreground console
          vtproc,  \* the VTs in VT_PROCESS mode (all owned by the daemon)
          kdgfx,   \* the VTs in KD_GRAPHICS mode
          newvt,   \* per VT: the console that waits for this VT's release
          want,    \* the console requested by the last VT_ACTIVATE
          sig,     \* the signals pending for the daemon
          alive    \* the daemon process exists

vtVars == <<fg, vtproc, kdgfx, newvt, want, sig, alive>>

SwitchSigs == {"USR1", "USR2"}
Signals    == SwitchSigs \union {"INT", "TERM"}

VTTypeOK ==
  /\ fg \in VT
  /\ vtproc \subseteq VT
  /\ kdgfx \subseteq VT
  /\ newvt \in [VT -> VT \union {NoVT}]
  /\ want \in VT \union {NoVT}
  /\ sig \subseteq Signals
  /\ alive \in BOOLEAN

VTInit ==
  /\ fg \in VT
  /\ vtproc = {}
  /\ kdgfx = {}
  /\ newvt = [v \in VT |-> NoVT]
  /\ want = NoVT
  /\ sig = {}
  /\ alive = TRUE

-----------------------------------------------------------------------------
(* ioctls: each is a conjunct of the action of the thread that makes it.   *)

\* A foreground VT in KD_GRAPHICS and VT_AUTO mode refuses to be left.
Stuck == fg \in kdgfx \ vtproc

\* VT_ACTIVATE t; want is all it changes.
Activate(t) == want' = IF Stuck THEN want ELSE t

\* The switch to t is made; an owner in VT_PROCESS mode is told.
CompleteSwitch(t) ==
  /\ fg' = t
  /\ sig' = IF t \in vtproc /\ alive THEN sig \union {"USR2"} ELSE sig

\* VT_RELDISP with a non-zero argument: with a switch waiting, 1 and 2 both
\* release the VT; with none, the call changes nothing.
RelDisp(v) ==
  IF v \in vtproc /\ newvt[v] # NoVT
  THEN /\ newvt' = [newvt EXCEPT ![v] = NoVT]
       /\ CompleteSwitch(newvt[v])
  ELSE UNCHANGED <<newvt, fg, sig>>

\* VT_SETMODE also forgets a switch that waits for the VT.
SetProcess(v) == vtproc' = vtproc \union {v} /\ newvt' = [newvt EXCEPT ![v] = NoVT]
SetAuto(v)    == vtproc' = vtproc \ {v}      /\ newvt' = [newvt EXCEPT ![v] = NoVT]

-----------------------------------------------------------------------------
(* The console worker serves the last VT_ACTIVATE.                         *)

AskRelease ==
  /\ alive /\ fg \in vtproc /\ want # fg
  /\ newvt' = [newvt EXCEPT ![fg] = want]
  /\ sig' = sig \union {"USR1"}
  /\ UNCHANGED <<fg, vtproc, kdgfx>>

\* The owner has died: the VT is reset, then left.
ResetAndSwitch ==
  /\ ~alive /\ fg \in vtproc /\ want # fg
  /\ vtproc' = vtproc \ {fg}
  /\ kdgfx' = kdgfx \ {fg}
  /\ newvt' = [newvt EXCEPT ![fg] = NoVT]
  /\ fg' = want
  /\ UNCHANGED sig

SwitchAway ==
  /\ fg \notin vtproc \union kdgfx /\ want # fg
  /\ CompleteSwitch(want)
  /\ UNCHANGED <<vtproc, kdgfx, newvt>>

DropRequest ==
  /\ want = fg \/ Stuck
  /\ UNCHANGED <<fg, vtproc, kdgfx, newvt, sig>>

ConsoleWorker ==
  /\ want # NoVT
  /\ want' = NoVT
  /\ AskRelease \/ ResetAndSwitch \/ SwitchAway \/ DropRequest
  /\ UNCHANGED alive
=============================================================================
