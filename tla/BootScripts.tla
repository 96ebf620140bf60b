------------------------------ MODULE BootScripts ------------------------------
(***************************************************************************)
(* The shell functions of the boot scripts (splash-functions.sh with the   *)
(* functions that splash-functions-bl1.sh overrides) during a boot: rc and *)
(* the init scripts of services, which may run side by side, every message *)
(* written to the FIFO by a background job of its own, fbsplashd at the    *)
(* other end, the file in which the progress is kept, prompts for input,   *)
(* and the clean-up at the end.                                            *)
(*                                                                         *)
(* Messages that change nothing here (log, set autoverbose, set event dev, *)
(* set gpm) are left out.  A message is in "sent" until fbsplashd reads    *)
(* it, whether its job still waits for the FIFO or the line is in it: both *)
(* are in no order.                                                        *)
(***************************************************************************)
EXTENDS Naturals, SequencesExt

CONSTANTS Services,        \* the init scripts, those of the service list
          MaxWaiting,      \* bound: messages not yet read
          Settings         \* of SPLASH_TTY and SPLASH_VERBOSE_ON_ERRORS

\* "rc" and "bar" stand for rc and the progress bar where services are named.
ASSUME ScriptsAssumption ==
  /\ IsFiniteSet(Services) /\ "rc" \notin Services /\ "bar" \notin Services
  /\ MaxWaiting \in Nat \ {0}
  /\ Settings \subseteq [tty : STRING, verboseOnErrors : BOOLEAN]

VARIABLES
  rc,         \* rc: how far it is, what its clean-up left undone and why, whether X
              \*  was started
  script,     \* init scripts: how far they are, the state told last, and whether an
              \*  outcome was ever reported
  todo,       \* the messages a process is about to send
  sent,       \* the messages not yet read, oldest first
  daemon,     \* fbsplashd: its consoles, the signals of their switches it has not
              \*  served, and what it was told; "missed" is a history, see ToFront
  screen,     \* what was painted last
  front,      \* the console in front
  conf,       \* the configuration in force
  mounted,    \* the cache is mounted
  file,       \* the progress file in it
  env,        \* the variables rc exported, which every script starts with
  loaded,     \* the variables of a script between load and save
  own,        \* services with SPL_SVC_INPUT_SILENT set to their name
  \* What the properties except:
  behind,     \* services, or the bar, whose messages were overtaken
  overlapped, \* two scripts updated the progress at the same time
  garbled,    \* a progress file was written over a longer one
  excused,    \* prompts that began while a switch to silent was to come, see Opens
  killed      \* fbsplashd was killed

progressVars == <<mounted, file, env, loaded, overlapped, garbled>>
consoleVars  == <<daemon, screen, front, behind>>
promptVars   == <<own, excused>>
vars == <<rc, script, todo, sent, consoleVars, conf, progressVars, promptVars, killed>>

TtySilent == "tty16"   \* TTY_SILENT, what fbsplashd and splash_util start with
Verbose   == "tty1"
Processes == Services \union {"rc"}
States    == {"inactive", "busy", "ok", "failed"}  \* svc_inactive_start, svc_start, ...

Svc(s, st)  == <<"update_svc", s, st>>
Progress(n) == <<"progress", n>>
Paint       == <<"paint">>
Repaint     == <<"repaint">>
ModeSilent  == <<"set mode silent">>
SetTty      == <<"set tty silent">>
Exit(stay)  == <<"exit", stay>>

Zero   == [count |-> 0, execed |-> {}]

Nothing == [svc |-> [s \in Services |-> "inactive"], bar |-> 0]  \* a blank screen

Quiet(p) == todo[p] = <<>>
At(s, pc) == script[s].pc = pc /\ Quiet(s)

Init ==
  /\ rc = [pc |-> "off", left |-> "", stay |-> FALSE]
  /\ script = [s \in Services |-> [pc |-> "idle", told |-> "inactive", reported |-> FALSE]]
  /\ todo = [p \in Processes |-> <<>>] /\ sent = <<>>
  /\ front \in {Verbose, TtySilent}   \* the initrd may show the splash already
  /\ conf \in Settings
  /\ daemon = [alive |-> FALSE, tty |-> TtySilent, ctty |-> "verbose", sig |-> {},
               missed |-> FALSE, svc |-> [s \in Services |-> "inactive"], bar |-> 0]
  /\ screen = Nothing
  /\ mounted = FALSE /\ file = [state |-> "none", vars |-> Zero]
  /\ env = Zero /\ loaded = [s \in Services |-> Zero]
  /\ own = {} /\ excused = {} /\ behind = {}
  /\ overlapped = FALSE /\ garbled = FALSE /\ killed = FALSE

-----------------------------------------------------------------------------
(* Consoles and fbsplashd's end                                            *)

Picture(d) == [svc |-> d.svc, bar |-> d.bar]

\* The states of fbsplashd, in state d, once console v has come to the front.
\* A switch to its silent tty sends SIGUSR2 ("come").  One away waits for it to
\* serve SIGUSR1 ("leave"), which sets ctty; but an acquisition not yet served
\* may be served before it, which releases the tty as well.
Told(d, v) ==
  LET e == [d EXCEPT !.missed = @ \/ d.sig # {}]
  IN  IF v = front \/ ~d.alive \/ d.tty \notin {front, v} THEN {d}
      ELSE IF v = d.tty THEN {[e EXCEPT !.sig = @ \union {"come"}]}
      ELSE {[e EXCEPT !.ctty = "verbose", !.sig = @ \ {"leave"}]} \union
           (IF "come" \in d.sig THEN {[e EXCEPT !.ctty = "silent", !.sig = {"leave"}]} ELSE {})

ToFront(d, v) ==
  /\ front' = v
  /\ daemon' \in Told(d, v)
  /\ screen' = IF v = front THEN screen ELSE Nothing

\* The signal handler thread serves a signal; it paints on the silent tty.
Notice(x) ==
  /\ daemon.alive /\ x \in daemon.sig
  /\ daemon' = [daemon EXCEPT !.sig = @ \ {x},
                              !.ctty = IF x = "come" THEN "silent" ELSE "verbose"]
  /\ screen' = IF x = "come" THEN Picture(daemon) ELSE screen
  /\ UNCHANGED <<rc, script, todo, sent, front, behind, conf, progressVars, promptVars, killed>>

\* What a message is about.
About(m) == IF m[1] = "update_svc" THEN {m[2]}
            ELSE IF m[1] = "progress" THEN {"bar"} ELSE {}

\* A message that overtakes another about the same thing, or a paint that
\* overtakes what it was to show.
Overtaken(n) ==
  UNION {About(sent[j]) : j \in {j \in 1..n-1 :
            \/ sent[n] = Paint /\ ~ \E k \in (j+1)..Len(sent) : k # n /\ sent[k] = Paint
            \/ About(sent[n]) \intersect About(sent[j]) # {}}}

\* cmd_exit asks for the verbose tty if it finds ctty silent; its clean-up may
\* forget the switch while it waits for the tty to be released.
ObeyExit(stay) ==
  LET asks == daemon.ctty = "silent" /\ ~stay
  IN  \E forgotten \in IF asks /\ front = daemon.tty THEN BOOLEAN ELSE {FALSE} :
        /\ front' = IF asks /\ ~forgotten THEN Verbose ELSE front
        /\ daemon' = [daemon EXCEPT !.alive = FALSE, !.sig = {},
                                    !.missed = @ \/ daemon.sig # {} \/ forgotten]
        /\ screen' = IF front' = front THEN screen ELSE Nothing

Obey(m) ==
  \/ /\ m[1] = "update_svc"
     /\ daemon' = [daemon EXCEPT !.svc[m[2]] = m[3]]
     /\ UNCHANGED <<screen, front>>
  \/ /\ m[1] = "progress"
     /\ daemon' = [daemon EXCEPT !.bar = m[2]]
     /\ UNCHANGED <<screen, front>>
  \/ /\ m[1] \in {"paint", "repaint"}
     /\ screen' = IF daemon.ctty = "silent" THEN Picture(daemon) ELSE screen
     /\ UNCHANGED <<daemon, front>>
  \/ m[1] = "set mode silent" /\ ToFront(daemon, daemon.tty)
  \/ /\ m[1] = "set tty silent"
     /\ daemon' = [daemon EXCEPT !.tty = conf.tty]
     /\ UNCHANGED <<screen, front>>
  \/ m[1] = "exit" /\ ObeyExit(m[2])

\* daemon_comm reads a line, whichever background job was the next to write.
\* What is not read when the daemon ends is lost.
Deliver(n) ==
  /\ daemon.alive
  /\ Obey(sent[n])
  /\ behind' = behind \union Overtaken(n)
  /\ sent' = IF daemon'.alive THEN RemoveAt(sent, n) ELSE <<>>
  /\ UNCHANGED <<rc, script, todo, conf, progressVars, promptVars, killed>>

\* splash_comm_send: pidof, then a background job.
Say(p) ==
  /\ ~Quiet(p) /\ Len(sent) < MaxWaiting
  /\ sent' = IF daemon.alive THEN Append(sent, Head(todo[p])) ELSE sent
  /\ todo' = [todo EXCEPT ![p] = Tail(@)]
  /\ UNCHANGED <<rc, script, consoleVars, conf, progressVars, promptVars, killed>>

-----------------------------------------------------------------------------
(* rc                                                                      *)

Running == {s \in Services : script[s].pc \notin {"idle", "done"} \/ ~Quiet(s)}
RcAt(pc) == rc.pc = pc /\ Quiet("rc") /\ Running = {}
RcGoes(pc) == rc' = [rc EXCEPT !.pc = pc]

Inactive == LET l == SetToSeq(Services) IN [i \in DOMAIN l |-> Svc(l[i], "inactive")]

\* splash rc_init sysinit, with a cache that cannot be mounted (splash_cache_prep).
NoCache ==
  /\ RcAt("off") /\ RcGoes("sysinit")
  /\ ToFront(daemon, Verbose)
  /\ UNCHANGED <<script, todo, sent, behind, conf, progressVars, promptVars, killed>>

\* splash rc_init sysinit: splash_init, without a daemon (verbose mode asked
\* for, no console=tty1, no theme) or with one.
Sysinit(starts) ==
  /\ RcAt("off") /\ RcGoes("sysinit")
  /\ mounted' = TRUE /\ file' = [state |-> "full", vars |-> Zero] /\ env' = Zero
  /\ daemon' = [daemon EXCEPT !.alive = starts,
                              !.ctty = IF front = TtySilent THEN "silent" ELSE "verbose"]
  /\ todo' = [todo EXCEPT !["rc"] = (IF starts THEN <<SetTty, ModeSilent, Repaint>> ELSE <<>>)
                                      \o Inactive]
  /\ UNCHANGED <<script, sent, screen, front, behind, conf, loaded, overlapped,
                 garbled, promptVars, killed>>

\* splash rc_init in the runlevels boot and default, one of which stands for
\* both: splash_load_vars, and the same values are saved again.  Services that
\* failed before are started again.
RcInit ==
  /\ RcAt("sysinit") /\ RcGoes("default")
  /\ env' = IF file.state = "full" THEN file.vars ELSE env
  /\ script' = [s \in Services |-> IF script[s].told # "ok" THEN [script[s] EXCEPT !.pc = "idle"]
                                  ELSE script[s]]
  /\ UNCHANGED <<todo, sent, consoleVars, conf, mounted, file, loaded, overlapped,
                 garbled, promptVars, killed>>

\* splash rc_exit: splash_exit.
SplashExit(stay) ==
  /\ RcAt("default") /\ \A s \in Services : script[s].pc = "done"
  /\ rc' = [rc EXCEPT !.pc = "exit", !.stay = stay]
  /\ todo' = [todo EXCEPT !["rc"] = <<Exit(stay)>>]
  /\ UNCHANGED <<script, sent, consoleVars, conf, progressVars, promptVars, killed>>

Unmounted == mounted' = FALSE /\ file' = [file EXCEPT !.state = "none"]

\* splash_cache_destroy on a live CD: no care is taken of fbsplashd.
DestroyCD ==
  /\ RcAt("exit") /\ rc' = [rc EXCEPT !.pc = "ended", !.left = "CDBOOT"]
  /\ Unmounted
  /\ UNCHANGED <<script, todo, sent, consoleVars, conf, env, loaded, overlapped, garbled,
                 promptVars, killed>>

\* spl_tmpdir does not exist and cannot be made: splash_cache_cleanup returns.
NoTmpdir ==
  /\ RcAt("exit") /\ mounted /\ rc' = [rc EXCEPT !.pc = "ended", !.left = "tmpdir"]
  /\ UNCHANGED <<script, todo, sent, consoleVars, conf, progressVars, promptVars, killed>>

CleanupFault ==  \* Fault: pgrep's answer is read the wrong way round.
  /\ RcAt("exit")
  /\ RcGoes(IF ~mounted THEN "ended" ELSE IF ~daemon.alive THEN "kill" ELSE "unmount")
  /\ UNCHANGED <<script, todo, sent, consoleVars, conf, progressVars, promptVars, killed>>

\* splash_cache_cleanup up to the sleep: only a live daemon is waited for.
Cleanup ==
  /\ RcAt("exit")
  /\ RcGoes(IF ~mounted THEN "ended" ELSE IF daemon.alive THEN "kill" ELSE "unmount")
  /\ UNCHANGED <<script, todo, sent, consoleVars, conf, progressVars, promptVars, killed>>

\* killall -9 after a second, which may have been enough or not.
Kill ==
  /\ RcAt("kill") /\ RcGoes("unmount")
  /\ daemon' = [daemon EXCEPT !.alive = FALSE] /\ killed' = daemon.alive
  /\ sent' = <<>>
  /\ UNCHANGED <<script, todo, screen, front, behind, conf, progressVars, promptVars>>

\* mount --move to spl_tmpdir, and umount -l.  Where the directory under the
\* cache cannot be written, the cache stays mounted at spl_tmpdir.
Unmount(writable) ==
  /\ RcAt("unmount")
  /\ rc' = [rc EXCEPT !.pc = "ended", !.left = IF writable THEN @ ELSE "cache"]
  /\ Unmounted
  /\ UNCHANGED <<script, todo, sent, consoleVars, conf, env, loaded, overlapped, garbled,
                 promptVars, killed>>

\* A job that opens the FIFO's name after the cache was unmounted does not
\* reach fbsplashd.
Miss(n) ==
  /\ ~mounted /\ rc.pc = "ended"
  /\ sent' = RemoveAt(sent, n)
  /\ UNCHANGED <<rc, script, todo, consoleVars, conf, progressVars, promptVars, killed>>

-----------------------------------------------------------------------------
(* Init scripts                                                            *)

Goes(s, pc, told) ==
  script' = [script EXCEPT ![s] = [pc |-> pc, told |-> told,
                                   reported |-> @.reported \/ told \in {"ok", "failed"}]]

\* splash svc_start
SvcStart(s) ==
  /\ rc.pc \in {"sysinit", "default"} /\ Quiet("rc") /\ At(s, "idle")
  /\ Goes(s, "run", "busy")
  /\ todo' = [todo EXCEPT ![s] = <<Svc(s, "busy"), Paint>>]
  /\ UNCHANGED <<rc, sent, consoleVars, conf, progressVars, promptVars, killed>>

\* splash svc_started and svc_start_failed: splash_svc, splash_svc_fail.
Report(s, result) ==
  /\ At(s, "run") /\ Goes(s, "load", result)
  /\ todo' = [todo EXCEPT ![s] = <<Svc(s, result)>>]
  /\ UNCHANGED <<rc, sent, consoleVars, conf, progressVars, promptVars, killed>>

\* splash_svc_fail with SPLASH_VERBOSE_ON_ERRORS: nothing is reported.
FailVerbose(s) ==
  /\ conf.verboseOnErrors
  /\ At(s, "run") /\ Goes(s, "done", "busy")
  /\ ToFront(daemon, Verbose)
  /\ UNCHANGED <<rc, todo, sent, behind, conf, progressVars, promptVars, killed>>

\* A switch to the silent tty that may be read at any time.
SilentToCome == ModeSilent \in Range(sent) \/ \E p \in Processes : ModeSilent \in Range(todo[p])

\* The prompt of s opens.  It may be hidden by a switch to silent that is still
\* to come, or by the end of the prompt of another script that has found the
\* screen silent; splash_util knows nothing of SPLASH_TTY.
Opens(s) ==
  excused' = IF SilentToCome \/ own # {} \/ conf.tty # TtySilent
                \/ \E t \in Services \ {s} : script[t].pc = "leave"
             THEN excused \union {s} ELSE excused

\* splash svc_input_begin: splash_get_mode asks which console is in front.
InputBegin(s) ==
  /\ At(s, "run") /\ Goes(s, IF front = TtySilent THEN "leave" ELSE "prompt", "busy")
  /\ IF front = TtySilent THEN UNCHANGED excused ELSE Opens(s)
  /\ UNCHANGED <<rc, todo, sent, consoleVars, conf, progressVars, own, killed>>

\* It was silent: splash_verbose, and the export.
InputLeave(s) ==
  /\ At(s, "leave") /\ Goes(s, "prompt", "busy")
  /\ ToFront(daemon, Verbose) /\ own' = own \union {s}
  /\ Opens(s)
  /\ UNCHANGED <<rc, todo, sent, behind, conf, progressVars, killed>>

\* Fault: the name in SPL_SVC_INPUT_SILENT is not compared.
InputEndFault(s) ==
  /\ At(s, "prompt") /\ Goes(s, "run", "busy")
  /\ todo' = [todo EXCEPT ![s] = <<ModeSilent>>]
  /\ own' = own \ {s} /\ excused' = excused \ {s}
  /\ UNCHANGED <<rc, sent, consoleVars, conf, progressVars, killed>>

\* splash svc_input_end: back to silent, if this script left it.
InputEnd(s) ==
  /\ At(s, "prompt") /\ Goes(s, "run", "busy")
  /\ todo' = [todo EXCEPT ![s] = IF s \in own THEN <<ModeSilent>> ELSE <<>>]
  /\ own' = own \ {s} /\ excused' = excused \ {s}
  /\ UNCHANGED <<rc, sent, consoleVars, conf, progressVars, killed>>

-----------------------------------------------------------------------------
(* splash_update_progress                                                  *)

ReadFault == env  \* Fault: the file is not read again.

\* splash_load_vars; a file that was truncated and not yet written sets nothing.
Read == IF file.state = "full" THEN file.vars ELSE env

CountedFault(s) == FALSE  \* Fault: a service is counted whenever it is reported.

\* A service is counted once.
Counted(s) == s \in Read.execed

\* Of a service counted before not even a paint is sent.
Load(s) ==
  LET next == [count |-> Read.count + 1, execed |-> Read.execed \union {s}]
  IN  /\ At(s, "load")
      /\ overlapped' = (overlapped \/ \E t \in Services : script[t].pc \in {"save", "write"})
      /\ IF Counted(s)
         THEN /\ Goes(s, "done", script[s].told) /\ behind' = behind \union {s}
              /\ UNCHANGED <<todo, loaded>>
         ELSE /\ Goes(s, "save", script[s].told)
              /\ todo' = [todo EXCEPT ![s] = <<Progress(next.count)>>]
              /\ loaded' = [loaded EXCEPT ![s] = next]
              /\ UNCHANGED behind
      /\ UNCHANGED <<rc, sent, daemon, screen, front, conf, mounted, file, env,
                     garbled, promptVars, killed>>

\* splash_save_vars: the shell truncates the file, then echo writes it.
Truncate(s) ==
  /\ At(s, "save") /\ Goes(s, "write", script[s].told)
  /\ file' = IF mounted THEN [file EXCEPT !.state = "empty"] ELSE file
  /\ UNCHANGED <<rc, todo, sent, consoleVars, conf, mounted, env, loaded, overlapped, garbled,
                 promptVars, killed>>

\* What a script wrote in the meantime stays where it is longer; the line
\* with the count may be in what is left of it.
CountsLeft(s) ==
  {loaded[s].count} \union
    (IF file.state = "full" /\ Cardinality(file.vars.execed) > Cardinality(loaded[s].execed)
     THEN {file.vars.count} ELSE {})

AfterSaveFault == <<>>  \* Fault: nothing is painted after the progress was sent.
AfterSave == <<Paint>>

Write(s) ==
  /\ At(s, "write") /\ Goes(s, "done", script[s].told)
  /\ \E n \in CountsLeft(s) :
       /\ file' = IF mounted THEN [state |-> "full", vars |-> [loaded[s] EXCEPT !.count = n]]
                  ELSE file
       /\ garbled' = (garbled \/ n # loaded[s].count)
  /\ loaded' = [loaded EXCEPT ![s] = Zero]
  /\ todo' = [todo EXCEPT ![s] = AfterSave]
  /\ UNCHANGED <<rc, sent, consoleVars, conf, mounted, env, overlapped, promptVars, killed>>

-----------------------------------------------------------------------------
Script(s) ==
  \/ SvcStart(s)
  \/ Report(s, "ok") \/ (~conf.verboseOnErrors /\ Report(s, "failed")) \/ FailVerbose(s)
  \/ InputBegin(s) \/ InputLeave(s) \/ InputEnd(s)
  \/ Load(s) \/ Truncate(s) \/ Write(s)

Rc ==
  \/ NoCache \/ Sysinit(TRUE) \/ Sysinit(FALSE) \/ RcInit
  \/ SplashExit(TRUE) \/ SplashExit(FALSE)
  \/ DestroyCD \/ NoTmpdir \/ Cleanup \/ Kill \/ Unmount(TRUE) \/ Unmount(FALSE)

Ended == rc.pc = "ended" /\ sent = <<>> /\ UNCHANGED vars

Next ==
  \/ \E n \in DOMAIN sent : Deliver(n) \/ Miss(n)
  \/ \E x \in {"come", "leave"} : Notice(x)
  \/ \E p \in Processes : Say(p)
  \/ \E s \in Services : Script(s)
  \/ Rc
  \/ Ended

Spec == Init /\ [][Next]_vars

-----------------------------------------------------------------------------
(* Properties                                                              *)

Still == sent = <<>> /\ daemon.sig = {} /\ Running = {} /\ Quiet("rc") /\ rc.pc # "ended"

\* When all is quiet the silent screen shows each service as its script told
\* it last, and the bar at the progress saved last.  What may be out of date
\* are services and a bar whose messages were overtaken on their way, a
\* service reported a second time (splash_update_progress then sends no paint),
\* and the bar when scripts updated it at the same time.
ScreenUpToDate ==
  Still /\ daemon.alive /\ daemon.ctty = "silent" /\ front # Verbose =>
    /\ \A s \in Services \ behind : screen.svc[s] = script[s].told
    /\ ~overlapped /\ "bar" \notin behind => screen.bar = file.vars.count

\* While scripts update the progress one at a time, the file counts every
\* service once that has reported an outcome; and it never counts one that has
\* not, however they get in each other's way.
CountsEachOnce ==
  /\ ~overlapped /\ mounted /\ Running = {} =>
       /\ file.vars.count = Cardinality(file.vars.execed)
       /\ \A s \in Services : script[s].told \in {"ok", "failed"} => s \in file.vars.execed
  /\ \A s \in file.vars.execed : script[s].reported

\* However scripts get in each other's way, no more progress is sent than
\* services have reported, as long as the file is not a mix of two.
NeverAhead ==
  ~garbled => \A m \in Range(sent) :
                m[1] = "progress" => m[2] <= Cardinality({s \in Services : script[s].reported})

\* A prompt stays visible until it is answered, whatever other scripts do;
\* except one that begins while a switch to the silent tty is still to come, or
\* while another script has found the screen silent for a prompt of its own, be
\* it open or about to open, and except with a SPLASH_TTY of one's own, which
\* splash_util does not know.
PromptVisible ==
  \A s \in Services \ excused : script[s].pc = "prompt" /\ daemon.alive => front = Verbose

\* At the end of the boot fbsplashd is gone, the cache no longer in its place
\* and the verbose tty in front, unless X is to take over; except after a kill,
\* on a live CD or where spl_tmpdir cannot be made, if fbsplashd never took over
\* the screen the initrd left, and if a signal of a console switch was overtaken
\* or not yet served when it read the exit, or the exit's switch was forgotten.
LeftVisible ==
  rc.pc = "ended" /\ rc.left \notin {"CDBOOT", "tmpdir"} =>
    /\ ~daemon.alive /\ ~mounted
    /\ front # Verbose => \/ killed \/ rc.stay \/ daemon.missed
                          \/ front = TtySilent /\ daemon.ctty = "silent"
=============================================================================
