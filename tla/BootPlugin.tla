------------------------------ MODULE BootPlugin ------------------------------
(***************************************************************************)
(* The OpenRC plugin (gentoo/splash.c) with the client library it uses     *)
(* (core/src/libfbsplash.c), while the system boots or shuts down: the     *)
(* hooks that start and stop fbsplashd, and those that report services.    *)
(*                                                                         *)
(* OpenRC runs each hook in a process of its own, so that nothing the      *)
(* plugin keeps in static variables outlives a hook: what hooks share is   *)
(* the state of the services, the mounted cache with the service list, the *)
(* pid file and the FIFO in it, and the console.  A hook of a service      *)
(* reads the states of the services one list after the other.  Theme       *)
(* scripts and repainting are left out; fbsplashd is seen as the reader of *)
(* the FIFO.                                                               *)
(***************************************************************************)
EXTENDS Integers, Sequences, FiniteSets

CONSTANTS Services, \* the services of the system
          Rank,     \* their order by dependencies
          Listed,   \* those rc_deptree_order names
          Waiters,  \* services that may start without becoming active
          XService, \* config->xservice, or None
          None,
          Max,      \* FBSPL_PROGRESS_MAX
          VonErr,   \* config->vonerr
          Lag       \* bound: hooks write to the FIFO while it holds no more messages

ASSUME BootAssumption ==
  /\ IsFiniteSet(Services)
  /\ Listed \subseteq Services /\ Waiters \subseteq Services
  /\ \A s \in Services : Rank[s] \in Nat
  /\ XService \in Services \union {None}
  /\ Max \in Nat \ {0} /\ Lag \in Nat
  /\ VonErr \in BOOLEAN

VARIABLES
  phase,    \* "boot" or "shutdown"
  level,    \* how far rc is
  left,     \* services rc has still to start, or to stop
  st,       \* per service: its state
  sched,    \* services that are scheduled to start after another one
  waking,   \* services that were inactive and are started again
  bg,       \* services whose init script rc does not wait for
  proc,     \* per service: its init script, and the hook it runs
  cache,    \* file systems mounted on FBSPLASH_CACHEDIR
  listed,   \* the services in svcs_start or svcs_stop
  daemon,   \* fbsplashd
  pipe,     \* what was written to the FIFO and not read
  tty,      \* the console in front: verbose, silent, or the one of X
  bar,      \* the progress fbsplashd shows
  shown,    \* per service: the state fbsplashd shows
  handled,  \* history: how often splash_svc_handle has reported a service
  overlap   \* history: two init scripts have run at the same time

rcVars     == <<phase, level, left>>
svcVars    == <<st, sched, waking, bg>>
splashVars == <<cache, listed, daemon>>
vars == <<rcVars, svcVars, proc, splashVars, pipe, tty, bar, shown, handled,
                 overlap>>

-----------------------------------------------------------------------------
(* libfbsplash                                                             *)

\* fbsplash_check_daemon: the pid file is in the cache, and names a process.
CheckDaemon == cache > 0 /\ daemon \in {"running", "leaving"}

\* fbsplash_send: no FIFO, or no reader, and the message is dropped.
Send(msgs) == pipe' = IF CheckDaemon THEN pipe \o msgs ELSE pipe

Room == Len(pipe) <= Lag

SetVerbose == tty' = "verbose"

\* fbsplash_cache_cleanup, with or without profiling, ends with an umount.
CacheCleanup == cache' = IF cache > 0 THEN cache - 1 ELSE 0

SvcMsg(s, state) == <<[cmd |-> "update_svc", svc |-> s, arg |-> state]>>
ProgressMsg(n)   == <<[cmd |-> "progress", svc |-> None, arg |-> n]>>
Msg(c)           == <<[cmd |-> c, svc |-> None, arg |-> None]>>

-----------------------------------------------------------------------------
(* An init script, as far as its hooks go: "pc" is the hook it runs or     *)
(* what the service itself does ("run").  In a hook that counts services,  *)
(* "todo" are the lists to read, "found" and "n" what they held so far,    *)
(* "cnt" is svcs_cnt, and "skip" the variable of rc_plugin_hook.           *)

NoHook == [pc |-> "idle", todo |-> <<>>, found |-> {}, n |-> 0, cnt |-> 0, skip |-> FALSE]

Idle(s)   == proc[s].pc = "idle"
Goto(s, l) == proc' = [proc EXCEPT ![s] = [NoHook EXCEPT !.pc = l]]
Leave(s)   == Goto(s, "idle") /\ bg' = bg \ {s}

\* At boot nothing runs but what sysinit has started; at shutdown services are
\* up, and the daemon of the boot has exited.
Init ==
  /\ phase \in {"boot", "shutdown"}
  /\ \E up \in SUBSET Services :
       /\ phase = "boot" => up \intersect Listed = {}
       /\ st = [s \in Services |-> IF s \in up THEN "started" ELSE "stopped"]
       /\ left = IF phase = "boot" THEN Services \ up ELSE up \intersect Listed
  /\ level = "before"
  /\ sched = {} /\ waking = {} /\ bg = {}
  /\ proc = [s \in Services |-> NoHook]
  /\ cache = 0 /\ listed = {} /\ daemon = "none" /\ pipe = <<>>
  /\ tty = "verbose" /\ bar = 0
  /\ shown = [s \in Services |-> "none"]
  /\ handled = [s \in Services |-> 0] /\ overlap = FALSE

-----------------------------------------------------------------------------
(* The hooks of rc                                                         *)

\* RUNLEVEL_START_IN of the boot level, RUNLEVEL_STOP_IN of "shutdown":
\* splash_start mounts the cache, writes the service list (nothing, when the
\* dependencies cannot be loaded), starts fbsplashd, and tells it about the
\* services and to become silent.  After a failure the console is verbose.
SvcList == IF phase = "boot" THEN Listed ELSE left

StartFails ==
  /\ cache' \in {cache, cache + 1}
  /\ listed' \in {{}, SvcList}
  /\ SetVerbose
  /\ UNCHANGED <<daemon, pipe>>

StartSucceeds ==
  /\ cache' = cache + 1
  /\ listed' \in {{}, SvcList}
  /\ daemon' = "running"
  /\ pipe' = Msg("services") \o Msg("silent")
  /\ UNCHANGED tty

SplashStart ==
  /\ level = "before"
  /\ level' = phase
  /\ StartFails \/ StartSucceeds
  /\ UNCHANGED <<phase, left, svcVars, proc, bar, shown, handled, overlap>>

\* rc waits for the init scripts it has not put into the background.
Waits == \E s \in Services \ bg : ~Idle(s)

\* RUNLEVEL_START_IN of the default level runs theme scripts only.
EnterDefault ==
  /\ level = "boot" /\ ~Waits
  /\ level' = "default"
  /\ UNCHANGED <<phase, left, svcVars, proc, splashVars, pipe, tty, bar,
                 shown, handled, overlap>>

\* splash_stop: what 'exit' says depends on whether X was started.
XStarted == XService # None /\ st[XService] = "started"

ExitMsgFault == Msg("staysilent")  \* Fault: X is taken for started.
ExitMsg      == Msg(IF XStarted THEN "staysilent" ELSE "exit")

\* RUNLEVEL_START_OUT of the default level.
EndBoot ==
  /\ level = "default" /\ left = {} /\ ~Waits /\ Room
  /\ Send(ProgressMsg(Max) \o ExitMsg)
  /\ level' = IF CheckDaemon THEN "exit" ELSE "over"
  /\ UNCHANGED <<phase, left, svcVars, proc, splashVars, tty, bar, shown,
                 handled, overlap>>

\* ABORT: splash_stop, whatever runs.
Abort ==
  /\ level \in {"boot", "default"} /\ Room
  /\ Send(ExitMsg)
  /\ level' = "exit"
  /\ UNCHANGED <<phase, left, svcVars, proc, splashVars, tty, bar, shown,
                 handled, overlap>>

\* The rest of splash_stop, when fbsplashd has gone or a second later, or at
\* once in an ABORT, which does not know its pid.
StopFinish ==
  /\ level = "exit"
  /\ level' = "over"
  /\ IF tty = "silent" /\ ~XStarted THEN SetVerbose ELSE UNCHANGED tty
  /\ CacheCleanup
  /\ UNCHANGED <<phase, left, svcVars, proc, listed, daemon, pipe, bar,
                 shown, handled, overlap>>

\* RUNLEVEL_STOP_OUT of "shutdown".
EndShutdown ==
  /\ level = "shutdown" /\ left = {} /\ ~Waits /\ Room
  /\ level' = "over"
  /\ Send(ProgressMsg(Max))
  /\ IF CheckDaemon THEN CacheCleanup ELSE UNCHANGED cache
  /\ UNCHANGED <<phase, left, svcVars, proc, listed, daemon, tty, bar,
                 shown, handled, overlap>>

-----------------------------------------------------------------------------
(* Init scripts, and the hooks they run                                    *)

\* What precedes the switch in rc_plugin_hook: a runlevel is being started or
\* stopped, and in the default level fbsplashd runs.
Acts == level \notin {"before", "over"} /\ (level = "default" => CheckDaemon)

\* Some service started as far as possible and waits to become active.
Awaited == \E t \in Services : st[t] = "inactive" \/ t \in waking

\* Another init script runs: rc starts services in parallel, or one is woken.
Overlap == overlap' = (overlap \/ \E s \in Services : ~Idle(s))

\* Services stop in the opposite order.
InTurn(s, t) == IF phase = "boot" THEN Rank[s] <= Rank[t] ELSE Rank[t] <= Rank[s]

\* rc starts or stops the next service, without waiting for the one before it
\* if rc_parallel is set.  One that needs a service that is
\* inactive is scheduled instead of started.
Begin(s) ==
  /\ s \in left /\ Idle(s) /\ \A t \in left : InTurn(s, t)
  /\ left' = left \ {s}
  /\ \/ /\ level \in {"boot", "default"}
        /\ st' = [st EXCEPT ![s] = "starting"] /\ Goto(s, "now")
        /\ UNCHANGED sched
     \/ /\ level \in {"boot", "default"} /\ Awaited
        /\ sched' = sched \union {s} /\ Goto(s, "out")
        /\ UNCHANGED st
     \/ /\ level = "shutdown"
        /\ st' = [st EXCEPT ![s] = "stopping"] /\ Goto(s, "now")
        /\ UNCHANGED sched
  /\ Overlap
  /\ UNCHANGED <<phase, level, waking, bg, splashVars, pipe, tty, bar,
                 shown, handled>>

\* An inactive service is started again, a scheduled one at last.
Wake(s) ==
  /\ phase = "boot" /\ Idle(s)
  /\ \/ /\ st[s] = "inactive"
        /\ waking' = waking \union {s}
     \/ /\ s \in sched /\ ~Awaited
        /\ UNCHANGED waking
  /\ st' = [st EXCEPT ![s] = "starting"]
  /\ bg' = bg \union {s}
  /\ Goto(s, "now")
  /\ Overlap
  /\ UNCHANGED <<rcVars, sched, splashVars, pipe, tty, bar, shown, handled>>

InState(c) == IF c = "scheduled" THEN sched ELSE {s \in Services : st[s] = c}

\* The lists splash_init reads into svcs_done.
ListsFault == IF phase = "boot" THEN <<"started", "inactive", "scheduled">>
              ELSE <<"started", "starting", "inactive">>  \* Fault: none that failed.
Lists == IF phase = "boot" THEN <<"started", "inactive", "failed", "scheduled">>
         ELSE <<"started", "starting", "inactive">>

\* splash_init starts with the service list, and reads the states next.
ReadFrom(skip) == [NoHook EXCEPT !.pc = "read", !.todo = Lists, !.skip = skip,
                                 !.cnt = Cardinality(listed)]

\* SERVICE_START_NOW and SERVICE_STOP_NOW.
HookNow(s) ==
  /\ proc[s].pc = "now"
  /\ IF Acts /\ s \notin waking /\ CheckDaemon
     THEN proc' = [proc EXCEPT ![s] = ReadFrom(FALSE)]
     ELSE Goto(s, "run")
  /\ UNCHANGED <<rcVars, svcVars, splashVars, pipe, tty, bar, shown, handled, overlap>>

ReadState(s) ==
  /\ proc[s].pc = "read" /\ proc[s].todo # <<>>
  /\ LET in == InState(Head(proc[s].todo))
     IN proc' = [proc EXCEPT ![s].todo = Tail(@), ![s].found = @ \union in,
                             ![s].n = @ + Cardinality(in)]
  /\ UNCHANGED <<rcVars, svcVars, splashVars, pipe, tty, bar, shown, handled, overlap>>

\* splash_svc_handle.  Without a service list it gives up; with "skip" it
\* divides by zero, which ends the hook as well.
DoneCount(p) == IF phase = "boot" THEN p.n ELSE p.cnt - p.n
ProgressOf(p) == ((DoneCount(p) + (IF p.skip THEN 0 ELSE 1)) * Max) \div p.cnt

ReportsFault(s) == proc[s].cnt > 0  \* Fault: svcs_done is not looked at.
Reports(s) == proc[s].cnt > 0 /\ (proc[s].skip \/ s \notin proc[s].found)

SvcHandle(s) ==
  /\ proc[s].pc = "read" /\ proc[s].todo = <<>> /\ Room
  /\ IF Reports(s)
     THEN /\ Send(SvcMsg(s, IF phase = "boot" THEN "svc_start" ELSE "svc_stop")
                  \o ProgressMsg(ProgressOf(proc[s])))
          /\ handled' = [handled EXCEPT ![s] = @ + 1]
     ELSE UNCHANGED <<pipe, handled>>
  /\ IF proc[s].skip THEN Leave(s) ELSE Goto(s, "run") /\ UNCHANGED bg
  /\ UNCHANGED <<rcVars, st, sched, waking, splashVars, tty, bar, shown, overlap>>

\* The service is started or stopped, or that fails; a service that failed to
\* stop is still up.
RunService(s) ==
  /\ proc[s].pc = "run"
  /\ \/ /\ phase = "boot"
        /\ st' \in {[st EXCEPT ![s] = r] : r \in {"started", "failed"}}
     \/ /\ phase = "boot" /\ s \in Waiters \ waking
        /\ st' = [st EXCEPT ![s] = "inactive"]
     \/ /\ phase = "shutdown"
        /\ st' \in {[st EXCEPT ![s] = r] : r \in {"started", "stopped"}}
  /\ sched' = sched \ {s} /\ waking' = waking \ {s}
  /\ Goto(s, "done")
  /\ UNCHANGED <<rcVars, bg, splashVars, pipe, tty, bar, shown, handled, overlap>>

\* SERVICE_START_DONE and SERVICE_STOP_DONE.
Outcome(s) ==
  IF phase = "boot"
  THEN IF st[s] \in {"failed", "stopped"} THEN "svc_start_failed" ELSE "svc_started"
  ELSE IF st[s] = "stopped" THEN "svc_stopped" ELSE "svc_stop_failed"

HookDoneFault(s) ==  \* Fault: a failure is not told to fbsplashd.
  /\ proc[s].pc = "done"
  /\ IF ~Acts \/ ~CheckDaemon THEN UNCHANGED <<pipe, tty>>
     ELSE IF VonErr /\ Outcome(s) \in {"svc_start_failed", "svc_stop_failed"}
          THEN SetVerbose /\ UNCHANGED pipe
          ELSE Send(SvcMsg(s, Outcome(s))) /\ UNCHANGED tty
  /\ Goto(s, "out")
  /\ UNCHANGED <<rcVars, svcVars, splashVars, bar, shown, handled, overlap>>
HookDone(s) ==
  /\ proc[s].pc = "done" /\ Room
  /\ IF Acts /\ CheckDaemon
     THEN /\ Send(SvcMsg(s, Outcome(s)))
          /\ IF VonErr /\ Outcome(s) \in {"svc_start_failed", "svc_stop_failed"}
             THEN SetVerbose ELSE UNCHANGED tty
     ELSE UNCHANGED <<pipe, tty>>
  /\ Goto(s, "out")
  /\ UNCHANGED <<rcVars, svcVars, splashVars, bar, shown, handled, overlap>>

\* SERVICE_START_OUT: a service that is scheduled no longer holds the boot up.
HookOut(s) ==
  /\ proc[s].pc = "out"
  /\ IF Acts /\ phase = "boot" /\ s \in sched /\ st[s] # "starting" /\ CheckDaemon
     THEN /\ proc' = [proc EXCEPT ![s] = ReadFrom(TRUE)]
          /\ UNCHANGED bg
     ELSE Leave(s)
  /\ UNCHANGED <<rcVars, st, sched, waking, splashVars, pipe, tty, bar, shown, handled,
                 overlap>>

-----------------------------------------------------------------------------
(* fbsplashd, the user, X                                                  *)

Clamp(n) == IF n < 0 THEN 0 ELSE IF n > Max THEN Max ELSE n

Obey(m) ==
  CASE m.cmd = "services" ->
         /\ shown' = [s \in Services |-> IF s \in listed THEN "svc_inactive" ELSE shown[s]]
         /\ UNCHANGED <<daemon, tty, bar>>
    [] m.cmd = "update_svc" ->
         /\ shown' = [shown EXCEPT ![m.svc] = m.arg]
         /\ UNCHANGED <<daemon, tty, bar>>
    [] m.cmd = "progress" ->
         /\ bar' = Clamp(m.arg)
         /\ UNCHANGED <<daemon, tty, shown>>
    [] m.cmd = "silent" ->
         /\ tty' = "silent"
         /\ UNCHANGED <<daemon, bar, shown>>
    [] m.cmd \in {"exit", "staysilent"} ->
         /\ daemon' = "leaving"
         /\ tty' = IF tty = "silent" /\ m.cmd = "exit" THEN "verbose" ELSE tty
         /\ UNCHANGED <<bar, shown>>

\* daemon_comm reads the next command.
Command ==
  /\ daemon = "running" /\ pipe # <<>>
  /\ pipe' = Tail(pipe)
  /\ Obey(Head(pipe))
  /\ UNCHANGED <<rcVars, svcVars, proc, cache, listed, handled, overlap>>

\* fbsplashd ends, after 'exit' or killed; what it showed and what is in the FIFO is lost.
DaemonEnds ==
  /\ daemon' = CASE daemon = "leaving" -> "gone"
                 [] daemon = "running" -> "killed"
                 [] OTHER -> "same"
  /\ daemon' # "same"
  /\ pipe' = <<>> /\ bar' = 0 /\ shown' = [s \in Services |-> "none"]
  /\ UNCHANGED <<rcVars, svcVars, proc, cache, listed, tty, handled, overlap>>

\* F2, while fbsplashd watches the keyboard, and X.
ConsoleSwitched ==
  /\ \/ /\ daemon = "running" /\ tty' \in {"verbose", "silent"}
     \/ XStarted /\ tty' = "x"
  /\ UNCHANGED <<rcVars, svcVars, proc, splashVars, pipe, bar, shown, handled, overlap>>

Next ==
  \/ SplashStart \/ EnterDefault \/ EndBoot \/ Abort \/ StopFinish \/ EndShutdown
  \/ \E s \in Services :
       \/ Begin(s) \/ Wake(s) \/ HookNow(s) \/ ReadState(s)
       \/ SvcHandle(s) \/ RunService(s) \/ HookDone(s) \/ HookOut(s)
  \/ Command \/ DaemonEnds \/ ConsoleSwitched

Spec == Init /\ [][Next]_vars

-----------------------------------------------------------------------------
(* Properties                                                              *)

Quiet == daemon = "running" /\ pipe = <<>> /\ \A s \in Services : Idle(s)

\* Once all hooks have run and fbsplashd has caught up, it shows of each
\* service that was reported what became of it, in whatever order the hooks of
\* different services ran.
ServiceShown ==
  Quiet /\ level # "over" => \A s \in Services :
    handled[s] > 0 =>
      shown[s] = CASE s \in sched -> "svc_start"
                   [] s \notin sched -> Outcome(s)

\* "Don't process services twice": a service is counted when it is scheduled
\* or when it starts, and not again when it starts in the end or becomes active.
HandledOnce == \A s \in Services : handled[s] <= 1

\* While init scripts run one at a time the progress bar does not go back,
\* whether services fail, wait, are scheduled or are woken: what the lists of a
\* later hook hold is never less than what an earlier one counted and reported.
\* It never goes past the end, although a service being stopped counts twice.
ProgressForward ==
  [][daemon' = "running" => bar' <= Max /\ (~overlap => bar' >= bar)]_vars

\* The boot does not leave the user on a silent tty nobody draws on: "just to
\* be sure we aren't stuck in a black ex-silent tty".  A daemon that was killed
\* before is the exception, the hook then returns early.  The cache is
\* unmounted if fbsplashd was started, even if the boot is aborted.
BootEndsClean ==
  level = "over" =>
    /\ phase = "boot" /\ daemon \in {"none", "gone"} /\ ~XStarted => tty # "silent"
    /\ daemon \in {"running", "leaving", "gone"} => cache = 0
=============================================================================
