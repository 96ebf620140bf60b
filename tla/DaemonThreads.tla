---------------------------- MODULE DaemonThreads ----------------------------
(***************************************************************************)
(* The threads of fbsplashd and what they share (core/src/daemon.c and     *)
(* core/src/daemon_cmd.c): the mutexes mtx_paint, mtx_tty and mtx_anim,    *)
(* the theme and the service list, the descriptor of the silent tty, and   *)
(* the key monitor that is cancelled and started again.                    *)
(*                                                                         *)
(* What a thread still has to do is a sequence of steps, prog[t]: take or  *)
(* leave a mutex, access shared data, or a step named in the actions.  An  *)
(* access lasts as long as it is at the head of prog[t].  A signal handler *)
(* runs on top of the thread it interrupts: its steps are put in front.    *)
(* Module ConsoleSwitch says what the steps do to the console.             *)
(***************************************************************************)
EXTENDS Naturals, Sequences, FiniteSets

CONSTANTS Monitors,    \* identities for the key monitor threads
          None,        \* no thread
          Commands,    \* the FIFO commands clients send
          Autoverbose, \* config.autoverbose > 0
          Keys,        \* the keys a user presses: F2, F3
          ExecText     \* a text in the textbox shows the output of a program

ASSUME ThreadsAssumption ==
  /\ Monitors \intersect {"main", "sig", "anim"} = {} /\ None # "dead"
  /\ {None, "dead"} \intersect (Monitors \union {"main", "sig", "anim"}) = {}
  /\ Commands \subseteq {"paint", "repaint", "theme", "progress", "message", "log",
                         "svc", "effects", "mode", "tty", "vtty", "gpm", "evdev",
                         "exit"}
  /\ Autoverbose \in BOOLEAN
  /\ Keys \subseteq {"F2", "F3"}
  /\ ExecText \in BOOLEAN

Threads == Monitors \union {"main", "sig", "anim"}
Mutexes == {"paint", "tty", "anim"}

VARIABLES prog,      \* per thread: the steps before it is idle again
          owner,     \* per mutex: the thread that holds it, "dead" for one that died
          ended,     \* threads that have terminated, or do not exist yet
          monitor,   \* th_switchmon
          onEvdev,   \* the monitors that read the event device
          cancelled, \* monitors with a pthread_cancel pending
          sigint,    \* SIGINT was sent to the signal handler thread
          armed,     \* the autoverbose timer is running
          exited     \* the process is gone

vars == <<prog, owner, ended, monitor, onEvdev, cancelled, sigint, armed, exited>>

-----------------------------------------------------------------------------
(* What the threads do                                                     *)

Lock(m)   == <<[do |-> "lock", on |-> m]>>
Unlock(m) == <<[do |-> "unlock", on |-> m]>>
Access(a) == <<[do |-> "access", on |-> a]>>
Special(s) == <<[do |-> s, on |-> ""]>>

PaintingFault(a) ==  \* Fault: 'set theme' forgets mtx_paint.
  IF a = "reload" THEN Access(a) ELSE Lock("paint") \o Access(a) \o Unlock("paint")
Painting(a) == Lock("paint") \o Access(a) \o Unlock("paint")
ConsoleFault(a) ==  \* Fault: 'set tty verbose' forgets mtx_tty.
  IF a = "vtty" THEN Access(a) ELSE Lock("tty") \o Access(a) \o Unlock("tty")
Console(a) == Lock("tty") \o Access(a) \o Unlock("tty")

\* cmd_exit
ExitProgFault ==  \* Fault: mtx_paint is still held when the thread is joined.
  Special("cancel") \o Lock("paint") \o Access("leave") \o Special("kill")
  \o Special("join") \o Unlock("paint") \o Access("free") \o Special("exit")
ExitProg ==
  Special("cancel") \o Painting("leave") \o Special("kill") \o Special("join")
  \o Access("free") \o Special("exit")

\* 'set theme' changes config.theme before it takes mtx_paint; 'set tty
\* silent' opens its gpm client again after it has left mtx_tty.
CommandProg(c) ==
  CASE c = "paint" -> Painting("render")
    [] c = "repaint" -> Painting("repaint")
    [] c = "theme" -> Access("settheme") \o Painting("reload")
    [] c \in {"progress", "message", "log", "effects"} -> Access(c)
    [] c = "svc" ->
         Access("svcs") \o Lock("paint") \o Access("service")
         \o Lock("anim") \o Unlock("anim") \o Unlock("paint")
    [] c = "mode" -> Access("request") \o Access("arm")
    [] c = "tty" ->
         Lock("tty") \o Special("cancel") \o Access("move") \o Unlock("tty")
         \o Access("gpmclose") \o Console("gpm")
    [] c \in {"vtty", "gpm"} -> Console(c)
    [] c = "evdev" -> Special("cancel") \o Access("reopen") \o Special("start")
    [] c = "exit" -> ExitProg

\* daemon_comm sets the autoverbose timer when a handler has returned.
Arming == IF Autoverbose THEN Access("arm") ELSE <<>>

\* process_switch_sig; a switch to the silent tty may find a new video mode.
SwitchProg == Lock("paint") \o Console("switch") \o Unlock("paint")
SignalProgs ==
  {SwitchProg,
   SwitchProg \o Painting("mode") \o Painting("repaint"),
   SwitchProg \o Lock("paint") \o Access("mode") \o Access("reload")
   \o Unlock("paint") \o Painting("repaint")}

\* do_cleanup tries mtx_tty and does not care.
CleanupProg(end) == Special("trytty") \o Access("cleanup") \o Special(end)

\* One turn of the loop of thf_anim.
AnimProg == Painting("render") \o Lock("anim") \o Special("wait")
            \o Lock("anim") \o Unlock("anim") \o Painting("render")

\* F2 and F3 in thf_switch_evdev, and in thf_switch_ttymon.
KeyProg(key, evdev) ==
  IF key = "F3" THEN Access("textbox") \o Painting("render")
  ELSE IF evdev THEN Painting("choose") \o Access("activate")
  ELSE Console("verbose")

\* handler_alarm; with an alarm that is only to interrupt a wait of 'set mode'
\* it returns before it takes the mutex.
AlarmProg == Painting("autoverbose") \o Special("sigreturn")

-----------------------------------------------------------------------------
(* The data behind the accesses: "theme" is the existence of the theme and *)
(* its objects, "objs" their state, "log" and "text" the strings they      *)
(* show, "fb" the mapping of the framebuffer, "name", "effects" and "tty_v" *)
(* members of config, "fd_tty" config.tty_s and its descriptor.            *)

Reads(a) ==
  CASE a = "render"        -> {"theme", "objs", "log", "text", "fb", "ctty"}
    [] a = "repaint"       -> {"theme", "objs", "log", "text", "fb", "ctty", "effects"}
    [] a = "leave"         -> {"theme", "objs", "log", "text", "fb", "ctty", "effects",
                               "fd_tty0", "tty_v"}
    [] a = "reload"        -> {"svcs", "fb", "name"}
    [] a \in {"progress", "message", "log", "service", "textbox"} -> {"theme"}
    [] a = "request"       -> {"fd_tty0", "tty_v", "fd_tty"}
    [] a = "vtty"          -> {"tty_v"}
    [] a \in {"gpm", "mode", "switch", "activate", "watchtty"} -> {"fd_tty"}
    [] a = "cleanup"       -> {"fd_tty", "fd_gpm"}
    [] a = "gpmclose"      -> {"fd_gpm"}
    [] a = "choose"        -> {"ctty", "tty_v", "fd_tty"}
    [] a = "verbose"       -> {"fd_tty0", "tty_v"}
    [] a = "alarm"         -> {"alarm_type"}
    [] a = "autoverbose"   -> {"ctty", "fd_tty0", "tty_v"}
    [] a = "watchev"       -> {"fd_evdev"}
    [] OTHER               -> {}

Writes(a) ==
  CASE a \in {"render", "leave", "progress", "service", "textbox"} -> {"objs"}
    [] a = "repaint"       -> {"objs", "effects"}
    [] a = "message"       -> {"objs", "text"}
    [] a = "log"           -> {"log"}
    [] a = "settheme"      -> {"name"}
    [] a = "reload"        -> {"theme", "objs", "log", "text"}
    [] a = "svcs"          -> {"svcs"}
    [] a = "effects"       -> {"effects"}
    [] a = "arm"           -> {"alarm_type"}
    [] a = "vtty"          -> {"tty_v"}
    [] a = "move"          -> {"fd_tty", "fb"}
    [] a = "gpm"           -> {"fd_gpm"}
    [] a = "reopen"        -> {"fd_evdev"}
    [] a = "mode"          -> {"fb"}
    [] a = "switch"        -> {"ctty"}
    [] a = "free"          -> {"theme", "objs", "log", "text", "svcs", "fb", "name",
                               "fd_tty", "fd_tty0"}
    [] OTHER               -> {}

-----------------------------------------------------------------------------
Init ==
  /\ \E m \in Monitors :
       /\ monitor = m
       /\ ended = Monitors \ {m}
  /\ prog = [t \in Threads |-> <<>>]
  /\ owner = [m \in Mutexes |-> None]
  /\ onEvdev = {} /\ cancelled = {}
  /\ sigint = FALSE /\ armed = FALSE /\ exited = FALSE

Idle(t) == ~exited /\ t \notin ended /\ prog[t] = <<>>

Begin(t, p) == prog' = [prog EXCEPT ![t] = p]

\* A command of a client, or the next turn of the animation thread.
BeginCommand ==
  /\ Idle("main")
  /\ \E c \in Commands : Begin("main", CommandProg(c) \o Arming)
  /\ UNCHANGED <<owner, ended, monitor, onEvdev, cancelled, sigint, armed, exited>>

BeginAnim ==
  /\ Idle("anim")
  /\ Begin("anim", AnimProg)
  /\ UNCHANGED <<owner, ended, monitor, onEvdev, cancelled, sigint, armed, exited>>

\* The signal handler thread: a console switch, SIGINT of cmd_exit, SIGTERM.
BeginSwitch ==
  /\ Idle("sig")
  /\ \E p \in SignalProgs : Begin("sig", p)
  /\ UNCHANGED <<owner, ended, monitor, onEvdev, cancelled, sigint, armed, exited>>

BeginInt ==
  /\ Idle("sig") /\ sigint
  /\ Begin("sig", CleanupProg("end"))
  /\ UNCHANGED <<owner, ended, monitor, onEvdev, cancelled, sigint, armed, exited>>

BeginTerm ==
  /\ Idle("sig")
  /\ Begin("sig", CleanupProg("exit"))
  /\ UNCHANGED <<owner, ended, monitor, onEvdev, cancelled, sigint, armed, exited>>

\* The key monitor reads a key; a cancelled one dies in the read, or, as F3
\* does not disable cancellation, while it waits for the output of a program
\* that a text shows.
BeginKey(m) ==
  /\ Idle(m)
  /\ \E k \in Keys : Begin(m, KeyProg(k, m \in onEvdev))
  /\ UNCHANGED <<owner, ended, monitor, onEvdev, cancelled, sigint, armed, exited>>

Executing(m) ==
  /\ ExecText /\ ~exited /\ prog[m] # <<>>
  /\ Head(prog[m]) = [do |-> "access", on |-> "render"]

Dies(m) ==
  /\ m \in cancelled
  /\ ended' = ended \union {m}
  /\ cancelled' = cancelled \ {m}
  /\ onEvdev' = onEvdev \ {m}
  /\ prog' = [prog EXCEPT ![m] = <<>>]
  /\ owner' = [x \in Mutexes |-> IF owner[x] = m THEN "dead" ELSE owner[x]]
  /\ UNCHANGED <<monitor, sigint, armed, exited>>

MonitorDiesFault(m) == ~exited /\ Dies(m)  \* Fault: asynchronous cancellation.

MonitorDies(m) == (Idle(m) \/ Executing(m)) /\ Dies(m)

\* SIGALRM in a thread that does not block it; the handler itself does.
Handling(t) == \E i \in DOMAIN prog[t] : prog[t][i].do = "sigreturn"

Alarm(t) ==
  /\ ~exited /\ armed /\ t # "sig" /\ t \notin ended /\ ~Handling(t)
  /\ prog' = [prog EXCEPT ![t] = AlarmProg \o @]
  /\ armed' = FALSE
  /\ UNCHANGED <<owner, ended, monitor, onEvdev, cancelled, sigint, exited>>

-----------------------------------------------------------------------------
At(t, s) == ~exited /\ prog[t] # <<>> /\ Head(prog[t]).do = s
Of(t)    == Head(prog[t]).on

\* The step is done; daemon_comm arms the timer when a handler returns.
Done(t) ==
  /\ prog' = [prog EXCEPT ![t] = Tail(@)]
  /\ armed' = (armed \/ (Autoverbose /\ t = "main" /\ Tail(prog[t]) = <<>>
                        /\ ~At(t, "sigreturn")))

LockStep(t) ==
  /\ At(t, "lock") /\ owner[Of(t)] = None
  /\ owner' = [owner EXCEPT ![Of(t)] = t]
  /\ Done(t)
  /\ UNCHANGED <<ended, monitor, onEvdev, cancelled, sigint, exited>>

UnlockStep(t) ==
  /\ At(t, "unlock")
  /\ owner' = [owner EXCEPT ![Of(t)] = None]
  /\ Done(t)
  /\ UNCHANGED <<ended, monitor, onEvdev, cancelled, sigint, exited>>

AccessStep(t) ==
  /\ At(t, "access")
  /\ Done(t)
  /\ UNCHANGED <<owner, ended, monitor, onEvdev, cancelled, sigint, exited>>

\* pthread_cond_timedwait gives mtx_anim up; its timeout bounds the wait.
WaitStep(t) ==
  /\ At(t, "wait")
  /\ owner' = [owner EXCEPT !["anim"] = None]
  /\ Done(t)
  /\ UNCHANGED <<ended, monitor, onEvdev, cancelled, sigint, exited>>

\* pthread_cancel only marks the thread, which nobody joins.
CancelStepFault(t) ==  \* Fault: the old monitor is left alone.
  /\ At(t, "cancel")
  /\ Done(t)
  /\ UNCHANGED <<owner, ended, monitor, onEvdev, cancelled, sigint, exited>>

CancelStep(t) ==
  /\ At(t, "cancel")
  /\ cancelled' = IF monitor \in ended THEN cancelled ELSE cancelled \union {monitor}
  /\ Done(t)
  /\ UNCHANGED <<owner, ended, monitor, onEvdev, sigint, exited>>

\* The event device may not open: then the silent tty is monitored.
StartStep(t) ==
  /\ At(t, "start")
  /\ \E m \in Monitors \intersect ended :
       /\ monitor' = m
       /\ ended' = ended \ {m}
       /\ onEvdev' \in {onEvdev, onEvdev \union {m}}
  /\ Done(t)
  /\ UNCHANGED <<owner, cancelled, sigint, exited>>

SigReturnStep(t) ==
  /\ At(t, "sigreturn")
  /\ Done(t)
  /\ UNCHANGED <<owner, ended, monitor, onEvdev, cancelled, sigint, exited>>

KillStepFault(t) ==  \* Fault: the signal is not sent.
  /\ At(t, "kill")
  /\ Done(t)
  /\ UNCHANGED <<owner, ended, monitor, onEvdev, cancelled, sigint, exited>>

KillStep(t) ==
  /\ At(t, "kill")
  /\ sigint' = TRUE
  /\ Done(t)
  /\ UNCHANGED <<owner, ended, monitor, onEvdev, cancelled, exited>>

JoinStep(t) ==
  /\ At(t, "join") /\ "sig" \in ended
  /\ Done(t)
  /\ UNCHANGED <<owner, ended, monitor, onEvdev, cancelled, sigint, exited>>

TryTtyStep(t) ==
  /\ At(t, "trytty")
  /\ owner' = IF owner["tty"] = None THEN [owner EXCEPT !["tty"] = t] ELSE owner
  /\ Done(t)
  /\ UNCHANGED <<ended, monitor, onEvdev, cancelled, sigint, exited>>

EndStep(t) ==
  /\ At(t, "end")
  /\ ended' = ended \union {t}
  /\ Done(t)
  /\ UNCHANGED <<owner, monitor, onEvdev, cancelled, sigint, exited>>

ExitStep(t) ==
  /\ At(t, "exit")
  /\ exited' = TRUE
  /\ Done(t)
  /\ UNCHANGED <<owner, ended, monitor, onEvdev, cancelled, sigint>>

Step(t) == \/ LockStep(t) \/ UnlockStep(t) \/ AccessStep(t) \/ WaitStep(t)
           \/ CancelStep(t) \/ StartStep(t) \/ KillStep(t) \/ JoinStep(t)
           \/ SigReturnStep(t) \/ TryTtyStep(t) \/ EndStep(t) \/ ExitStep(t)

Next == \/ BeginCommand \/ BeginAnim \/ BeginSwitch \/ BeginInt \/ BeginTerm
        \/ \E m \in Monitors : BeginKey(m) \/ MonitorDies(m)
        \/ \E t \in Threads : Alarm(t) \/ Step(t)

Spec == Init /\ [][Next]_vars

\* The mutexes are held for a bounded time by threads that run and sleep in
\* between, so a thread that waits for one gets it in the end.  A cancelled
\* monitor dies and SIGINT is delivered, whatever else may arrive.
Fairness ==
  /\ \A t \in Threads : SF_vars(Step(t))
  /\ \A m \in Monitors : SF_vars(MonitorDies(m))
  /\ SF_vars(BeginInt)

FairSpec == Spec /\ Fairness

-----------------------------------------------------------------------------
(* Properties                                                              *)

\* t cannot go on before u does something.
WaitsFor(t, u) ==
  \/ At(t, "lock") /\ owner[Of(t)] = u
  \/ At(t, "join") /\ u = "sig" /\ "sig" \notin ended

\* The SIGALRM handler waits on top of a thread that holds a mutex.
Caught(t) == At(t, "lock") /\ Handling(t) /\ \E m \in Mutexes : owner[m] = t

\* No set of threads waits for each other: "the use of a separate thread for
\* handling signals is required in order to avoid potential deadlocks"
\* (daemon.c:667).  The exception, a defect, is the signal that is not left to
\* that thread: SIGALRM's handler takes mtx_paint on top of any thread, and
\* the deadlocks there are all begin with a thread that held a mutex then.
NoDeadlock ==
  LET waiting == {t \in Threads : ~Caught(t) /\ \E u \in Threads : WaitsFor(t, u)}
  IN  ~ \E S \in (SUBSET waiting) \ {{}} : \A t \in S : \E u \in S : WaitsFor(t, u)

\* A mutex is unlocked by the thread that holds it (POSIX leaves anything
\* else undefined), also when a handler runs on top of a thread.  A thread
\* that has ended holds no mutex others may want, except the signal handler
\* thread, which only ends when the process does, and, a defect, a key monitor
\* cancelled while F3's paint waits for a program.
MutexDiscipline ==
  /\ \A t \in Threads : At(t, "unlock") => owner[Of(t)] = t
  /\ \A m \in Mutexes :
       /\ owner[m] \in ended => owner[m] = "sig" /\ sigint
       /\ owner[m] = "dead" => ExecText /\ m = "paint"

\* The accesses of each datum that are made without the mutex for it: mtx_tty
\* for the descriptors of the ttys, the verbose tty and gpm, mtx_paint for the
\* others.  'exit' frees whatever the threads it leaves running still use.
Unguarded(d) ==
  {"free"} \union
  CASE d = "theme"      -> {"progress", "message", "log", "textbox"}
    [] d = "objs"       -> {"progress", "message", "textbox"}
    [] d = "text"       -> {"message"}
    [] d = "log"        -> {"log"}
    [] d = "svcs"       -> {"svcs"}
    [] d = "name"       -> {"settheme"}
    [] d = "effects"    -> {"effects"}
    [] d = "fb"         -> {"move"}
    [] d = "fd_tty"     -> {"request", "mode", "cleanup", "choose", "activate", "watchtty"}
    [] d = "tty_v"      -> {"request", "leave", "choose", "autoverbose"}
    [] d = "fd_gpm"     -> {"gpmclose", "cleanup"}
    [] d = "alarm_type" -> {"arm", "alarm"}
    [] d = "fd_evdev"   -> {"reopen", "watchev"}
    [] OTHER            -> {}

\* The accesses t is making: a monitor that is not acting on a key is in the
\* read of its device, and the handler of SIGALRM has looked at alarm_type when
\* it comes to mtx_paint.
Making(t) ==
  CASE At(t, "access")               -> {Of(t)}
    [] At(t, "lock") /\ Handling(t)  -> {"alarm"}
    [] t \in Monitors /\ Idle(t)     -> {IF t \in onEvdev THEN "watchev" ELSE "watchtty"}
    [] OTHER                         -> {}

\* Each data race involves an access that is listed above with the datum.
\* There are no others: painting, reloading the theme and service updates
\* never overlap, so no paint uses a freed theme; ctty only changes while
\* nobody looks at it; a console switch never meets a moving silent tty.
OnlyKnownRaces ==
  \A t, u \in Threads : t # u =>
    \A a \in Making(t), b \in Making(u) :
      \A d \in Writes(a) \intersect (Reads(b) \union Writes(b)) :
        {a, b} \intersect Unguarded(d) # {}

\* There is one key monitor: any other that still runs is about to die, so
\* that no key press is acted on twice for long.
OneMonitor ==
  \A m, n \in Monitors \ (ended \union cancelled) : m = n

\* Every command returns, 'exit' included: it joins a thread that may queue
\* for the same mutexes.
CommandReturns == prog["main"] # <<>> ~> (prog["main"] = <<>> \/ exited)
=============================================================================
