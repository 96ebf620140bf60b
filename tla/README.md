# Verification of splashutils (fbsplash)

TLA+ models of the boot splash daemon `fbsplashd`, its rendering library and
the programs around it, checked with TLC and, for the core, proved with TLAPS.
Every definition follows the source under `core/` and `gentoo/`; the file and
the lines it models are listed in `PROJECT.json` under `map`.

Contents: 1 inventory of the system, 2 the modules at a glance, 3 the modules,
4 the runs, 5 fairness, 6 proofs, 7 what was found, 8 what is not modelled.

## 1. Inventory

`fbsplashd` paints a picture on a virtual console (the *silent* tty) while the
system boots or shuts down, and lets the user switch to the *verbose* tty with
the messages of the init scripts. Clients write one command per line into a
FIFO. Other programs of the package paint the first picture from an initrd,
control the kernel patch fbcondecor, or drive the daemon from init scripts.

### Parts, their state and their operations

| part | state | operations | interacts with |
|---|---|---|---|
| console switching (`daemon.c`, `daemon_cmd.c`) | `ctty`, `tty_s`, `tty_v`, `VT_PROCESS`/`KD_GRAPHICS` of the silent tty, pending signals | serve SIGUSR1/2, SIGINT, SIGTERM; `set mode`, `set tty`, `exit`; F2; autoverbose timer | the kernel's console code by ioctls and signals; painting by `mtx_paint` |
| threads (`daemon.c`, `daemon_cmd.c`) | `mtx_paint`, `mtx_tty`, `mtx_anim`, four threads, the interval timer | lock, unlock, wait, cancel, create, join, kill | everything in the daemon |
| screen (`render.c`, `libfbsplashrender.c`, `effects.c`, `thf_anim`) | theme: objects with visibility, opacity, effect, invalid mark; `fxobjs`, `blit`, `textbox` lists; buffer and framebuffer | visibility, invalidation, paint, repaint, step of an effect, theme load | commands, F3, the animation thread |
| re-blit list (`render.c`) | rectangles to copy, cursors of `blit_normalize` | add, normalise, empty | screen |
| text (`ttf.c`) | cached string, progress and log counter of the last rendering | prerender, render | screen |
| animations (`mng_*.c`) | frame clock, status | next frame, proportional frame | screen, animation thread |
| message log, lists (`list.c`, `cmd_log`) | the last lines, a counter | add, ring-add, delete | text, screen |
| dispatch (`daemon_comm`) | none between lines | match a command, split arguments | all handlers |
| theme parser (`parse.c`) | sections open, the pending `inter` box | one line at a time | theme load |
| client library (`libfbsplash.c`, `common.c`) | configuration, cache directory, pid file | parse kernel command line, prepare and clean the cache, check the daemon, send | scripts, plugin |
| kernel helper (`kernel.c`), fbcondecor (`fbcon_decor*.c`) | none between calls | init, switch mode, paint | kernel |
| boot scripts (`splash-functions.sh.in`, `splash-functions-bl1.sh`) | exported variables, the progress file in the cache, background jobs | start, send, service events, input begin/end, exit, cache clean-up | FIFO |
| OpenRC plugin (`gentoo/splash.c`) | the service lists in the cache; within a hook: services, those done, progress | hooks of runlevels and services | OpenRC's service states, client library, FIFO |

### What is hard

* *Console switches* are a protocol of three parties: somebody asks for
  another console, the kernel signals the owner of the present one and waits,
  and a thread of the daemon answers while other threads paint. Signals are
  not ordered, ioctls in sequence are not atomic, and what the kernel does with
  a late answer depends on its state.
* *Threads* share the theme and the descriptor of the silent tty under mutexes
  that some commands do not take; one thread is cancelled while it runs;
  SIGALRM is served on top of any thread; `exit` joins a thread that takes
  mutexes.
* *Effects* run for seconds while requests keep changing what they should end
  with. Their end is the overflow of a byte. Objects may be listed twice.
* *Painting* relies on marks: an object, or an area, that is not marked is not
  brought up to date until the next repaint.
* *Hooks* of the init system run in processes of their own, several at a time,
  and compute progress from service states that change while they read them.
  The daemon they talk to may be behind, gone, or not started.
* *Clients* write to the FIFO from background jobs, so that their order is not
  the order of the calls, and keep their count in a file without a lock.
* *Statics* of the parser and of the key handling outlive the theme or the
  thread they were set for.

### What would make each part correct

* Console switching: `ctty` says which console is in front; nobody paints
  another console; every switch is answered; the console is never stuck in
  graphics mode; `set mode` and `exit` come to an end.
* Threads: no deadlock, no mutex left behind by a dead thread, only the data
  races one has decided to live with, one key monitor.
* Screen: what differs from its object is marked; objects end up as wanted
  however requests interrupt effects; effects are smooth; the screen catches up
  once requests stop.
* Re-blit list: normalising ends and does not change the area covered. Painting:
  a paint brings what is marked up to date, and what is wrong is marked.
* Animations: each frame is seen for its time, and they go on.
* Parser: the objects are those of the file, none disappears without an error.
  Log: the last lines in order.
* Plugin and scripts: progress stays in range and does not go back, each
  service counts once and is shown as it ended, prompts stay visible, the
  console and the cache are given back.

## 2. The modules at a glance

| module | models | builds on | proofs |
|---|---|---|---|
| `VTConsole` | the kernel's consoles (external) | | |
| `ConsoleSwitch` | fbsplashd's side of console switches | extends `VTConsole` | `ConsoleSwitchProofs` |
| `DaemonThreads` | locks, accesses and signals of all threads and commands | | `DaemonThreadsProofs` |
| `SplashScreen` | objects, effects, texts, rounds of the animation thread | | `SplashScreenProofs` |
| `BlitList` | rectangles and `blit_normalize` | | in `PaintingProofs` |
| `Painting` | painting overlapping objects in parts | extends `BlitList`, implements `ScreenContract` | `PaintingProofs` |
| `ScreenContract` | abstract: what a client may expect of a paint | | |
| `Animation` | frames, time and the animation thread | | `AnimationProofs` |
| `ThemeFile` | the parser's state from line to line and file to file, the log | | `ThemeFileProofs` |
| `BootPlugin` | OpenRC's hooks, the FIFO, fbsplashd as its reader | | `BootPluginProofs` |
| `BootScripts` | baselayout's scripts, background jobs, the progress file, prompts | | `BootScriptsProofs` |

Each `MC` module of the same name gives the constants of its runs. Parameters
are constants with named assumptions, each operation is an action, and no
module declares a recursive operator. The daemon is cut into several modules by
what its parts share: `ConsoleSwitch` and `DaemonThreads` interleave single
statements, while `SplashScreen`, `Painting` and `Animation` take what happens
under `mtx_paint` as one step, which `DaemonThreads` justifies but for the
accesses it names as unguarded; `Painting` interleaves the one of them that
touches its state, `progress`, with every step of a paint.

## 3. The modules

### VTConsole: the kernel's consoles (external)

Modelled from how the daemon uses it: the console in front (`fg`), the
consoles in `VT_PROCESS` and in `KD_GRAPHICS` mode, the console to which a
release is pending (`newvt`), the request for a switch (`want`), and the
signals pending for the daemon (`sig`). A switch away from a `VT_PROCESS`
console raises SIGUSR1 and waits for `VT_RELDISP`; reaching one raises
SIGUSR2; `VT_SETMODE` forgets a waiting switch; a console in automatic mode
and graphics refuses to be left.

### ConsoleSwitch: the daemon and the console

Program counters `hpc` (signal handler thread) and `mpc` (main thread) name
the next statement that touches shared state. `mtx_paint` and `mtx_tty` name
their holder. Correspondence:

* `SigWait`, `SwitchLock`, `SwitchAck`, `SwitchMode`, `SwitchSilent`,
  `SwitchRepaint`: `thf_sighandler`, `process_switch_sig`, `switch_silent`;
  `DrainSignals` and the `Cleanup` actions: the end of the thread.
* `CmdSetMode`, `ConsoleActive`, `WaitInterrupted`: `cmd_set_mode`, its
  `VT_WAITACTIVE` loop with the 250 ms alarm, bounded by `MaxTries`. The alarm
  interrupts the wait if the main thread takes it (`WaitInterrupted`); if another
  thread does (`AlarmFires`, `alarm` is `"taken"`) the wait goes on.
* `CmdSetTtySilent` and the `Move` actions: `cmd_set_tty`, `switchmon_start`,
  `vt_silent_cleanup`, `fbsplashr_tty_silent_set`, `vt_silent_init`, one ioctl
  per action.
* `CmdExit` to `ExitJoined`: `cmd_exit`; `ReadActiveTty`, `Attach`:
  `daemon_start`; `AnimPaint`: `thf_anim` as far as `mtx_paint` goes;
  `AlarmFires`: the timer, which a thread other than the main one may serve; `F2Decide`, `F2Switch`, `F2OnTty`: the
  key monitors.

The history variable `excused` names three disturbances after which `ctty` is
known to be wrong: a switch during startup, a signal overtaking the one before
it, and a switch racing `set tty silent`. The safety properties hold outside
them. What the alarm
handler does to the thread it interrupts is `DaemonThreads`'s subject.

### DaemonThreads: threads, mutexes and data

What a thread still has to do is a sequence of steps, taken from the code of
the command or loop: take or leave a mutex, access shared data, or a special
step (cancel, create, join, kill, wait, exit). An access lasts as long as it is
at the head of the sequence, so two conflicting accesses of two threads at
their heads are a data race. `Reads` and `Writes` say what data each access
touches. A signal handler's steps are put in front of the interrupted
thread's. `SignalProgs` holds a switch away, a switch to the silent tty, and
one that finds a changed video mode. `ExecText` says that a text shows the
output of a program, which makes a paint contain cancellation points.

Shared data are the theme with its objects, texts and log, the list of services,
`config.theme`, `config.effects`, the descriptors of the ttys, of the framebuffer, of
the event device and of gpm, `config.tty_v`, `ctty` and `alarm_type`. A monitor that is
not acting on a key is in the read of its device, an access that lasts. Commands
that access the consoles do so under `mtx_tty` (`Console`) or under nothing; those
that arm the timer write `alarm_type` (`Arming`).

`Unguarded` lists, datum by datum, the accesses the daemon makes without the mutex
the others use: to the theme those of `progress`, `set message`, `log` and F3, to
`config.theme` the one of `set theme` before it takes `mtx_paint`, to
`config.effects` the one of `set effects`, to `config.tty_v` those of F2, `set mode`
and the switch to the verbose tty, to the event device its reopening while the
monitor reads it, to the silent tty's descriptor those of `set mode`, F2, the
monitor and the clean-up. `OnlyKnownRaces` says that each data race involves one of these on
that datum: there is none between two paints, a paint and a reload, a reload and a
service update, a console switch and a move of the silent tty.

### SplashScreen: what is on the screen

Per object: visible, opacity, step, waiting or not, invalid. `fx` is the list
`fxobjs`, entries may repeat. `fb` says what the framebuffer shows of each object, as a pair
of opacity and content; the buffer, which only `paint rect` shows unrendered, is
`Painting`'s. Objects do not overlap, so a region is an object; contents are small
numbers; opacity is an 8-bit number with its wrap. `Alpha` says what becomes of it:
icons fade, boxes are drawn in full at any opacity, texts only at full opacity. `Visibility` and `Step` are
`obj_visibility_set` and the body of the loop in `thf_anim`; `RepaintFrom` and
`PaintFrom` the two ways of `fbsplashr_render_screen`; `Unchanged` the tests
by which prerendering skips an object. Requests are the commands, F3 and
console switches; each is one step, as races are the previous module's. Which
effects are due in a round is any subset of those that wait. A freed list item
that is read after the removal of the last one ends the daemon or does not
(`FreedReads`).

A theme that is loaded leaves the old theme's picture on the screen (`Garbage`)
until its objects are drawn over it, or all is repainted (`reloaded`).

`lost` is a history variable: objects whose last request did not reach them,
because they were fading out or the theme was reloaded. `Regular` objects have
no effects, blend in, or both, with at least ten milliseconds; the others
misbehave by themselves (section 7).

### BootPlugin: hooks while the system boots or shuts down

OpenRC is external: `Begin`, `Wake`, `RunService` and the end of an init script
are what `rc` and `runscript` do to a service between its hooks. What is taken
for granted of them: each hook runs in a process of its own, so that the static
variables of the plugin start fresh; a service has one init script at a time; a
change of a service's state is atomic; services start in the order of
dependencies, each after the other or, with `rc_parallel`, side by side; one
that needs an inactive service is scheduled and started when that service is
up. `SERVICE_START_DONE` runs for services that became inactive as well.

`proc[s]` is the init script of `s`: in a hook that counts services, `todo` are
the lists of service states it has still to read (`splash_init`), `found` and
`n` what it has read. `SplashStart`, `EndBoot`, `EndShutdown`, `Abort` and
`StopFinish` are the hooks of runlevels, with `splash_start` and `splash_stop`;
`StopFinish` is what `splash_stop` does after its wait of at most a second.
`pipe` is the FIFO; `Command` is fbsplashd reading it; `DaemonEnds` its exit or
its being killed. A daemon that has ended shows nothing. Theme scripts, `log`
and `paint` are left out.

Two history variables: `handled` counts how often `splash_svc_handle` reports a
service, `overlap` says that two init scripts have run at the same time.
`ProgressForward` holds only before that: a service woken in the background is
`starting`, in none of the lists, and the bar goes back when another service is
counted meanwhile.

### BlitList and Painting: overlapping objects, painted in parts

`BlitList` is the rectangle arithmetic of `render.c` (`rect_bnd`,
`rect_contains`, `rect_sanitize`) and the list `theme->blit` as a sequence, with
`blit_normalize`'s pointers `i` and `j` as positions. One action is one round of
one of its loops: `DropContained`, `ReplaceContained` (which sets `j` back to the
one after `i`), `NextInner`, `NextOuter`.

`Painting` adds the objects: fixed boxes, interpolated boxes by the gradient that
decides which strips they mark when they grow (`MarkedBy`, `blit_add` in
`box_prerender`), cropped icons, texts. `FirstPass` is the first loop of
`render_objs`, an object at a time, with the removal of its mark (`Validate`) as
a step of its own, since `progress` sets marks without a mutex; `Render` is the
second loop; `PaintImg` empties the list after it was copied, `PutImg` does not.
`Garbage` is a buffer that was never drawn. `curr` is what was prerendered last,
with the part of a box's `attr` that `memcmp` sees: the parser copies it before it
adds the gradient (`parse.c:1259`, `1276`), so the first prerendering of such a bar
always finds it changed and takes the new bounding rectangle (`NewCurr`).
`TakenForNew` is the choice that `memcmp` leaves when it compares pointers and
padding that were never set. `Place` is where an object belongs: `rect_sanitize`
brings fixed objects and texts onto the screen, bars and cropped icons are cut off
at its edge when they are drawn.

`ScreenContract` says what `docs/daemon` promises of `paint` and `repaint`: each
is one change, of marked cells, and brings them up to date; a cell that is wrong
is marked, or asked for during the paint, or one of those overlooked.
`PaintsAsAsked` is the refinement: the picture is the framebuffer, the image what
theme, progress and user want, the marks the area of the list together with that
of the invalid objects the first pass has not reached. All steps between two
copies map to `Ask`. `Overlooked` names the cells the code really overlooks
(section 7): those of the objects in `missed` and `unseen`.

### Animation: frames and time

`pc` is where `thf_anim` is in its round; `delay` and `elapsed` are its wait, in
which alone time passes (`Tick`), as everything else takes no time against
frames of tens of milliseconds. `Rdelay` is what the code takes for the time
since the last round. Commands happen at any point at which the thread does not
hold `mtx_paint`; one that comes between its unlocking and its wait does not wake
it (`unheard`). libmng is external: a number of frames, each with a timer, and an
end. `blit` is the list of areas that wait to be painted, here one area for each
animation, as they do not overlap: hiding puts one on it, and so does prerendering; a
`paint` paints all that are on it, also one whose animation `anim_prerender` passed
over, and empties it, while a repaint leaves it (`Render`). Four histories name what
the properties except: `unheard`, `hurried` (loaded while the thread slept), `frozen`
(passed over by a round) and `undrawn` (hidden before it was ever drawn).

### ThemeFile: from line to line, from file to file

One action per kind of line, with what `parse_cfg` keeps: the `<type>` section,
the `inter` box that waits for its other half (`bprev`), the static `is_textbox`,
`log_lines`; an object is the set of lines that made it. `reported` collects the
errors. After a file the theme is loaded and takes `log` commands, with
`list_ringadd` as it treats head and tail; a null pointer it follows ends the
daemon (`"crashed"`). `SetTheme` starts the next file, with the statics as they
are.

### BootScripts: shell functions, background jobs, the progress file

The functions of `splash-functions.sh` with those that `splash-functions-bl1.sh`
overrides, as `rc` and init scripts side by side call them. `todo[p]` are the
messages a process has still to send, `sent` those that a background job, or the
FIFO, holds: `Deliver` reads any of them. A switch of consoles changes `front` at once
and `ctty` by signals that fbsplashd serves later (`ToFront`, `Notice`), in either
order; `daemon.missed` says that one was overtaken or not served, and that the exit's
own switch was forgotten (`ObeyExit`). `NoCache` to `Unmount` are rc's steps through a
boot (`splash_init`, `splash_exit`, `splash_cache_cleanup` with its early returns
`NoTmpdir` and, where the cache cannot be moved back, `Unmount(FALSE)`),
`SvcStart` to `Write` a script's: `Load`, `Truncate` and `Write` are
`splash_update_progress`, split where another script can come between; a file
written over a longer one keeps its tail (`CountsLeft`). `InputBegin`, `InputLeave` and
`InputEnd` are prompts: the script asks which console is in front, leaves the
silent one, and goes back to it if its variable `SPL_SVC_INPUT_SILENT` (`own`) is set.
Others may come between the question and the switch, and then own it too.

What the properties except is named: `behind` by messages that were overtaken,
`overlapped` and `garbled` by scripts that used the file at the same time, `excused`
prompts, `killed`, `rc.left` by an early return. `reported` is a history of the
services that ever reported an outcome.

## 4. The runs

| run | instance | what it checks |
|---|---|---|
| `console` | 3 consoles, the silent tty moved between 2 of them, autoverbose off, F2, `exit`, graphics mode | mode follows console, painting only in front, releases announced, console not stuck |
| `console_live` | 2 consoles, F2, `set mode`, `exit`, SIGTERM | every switch is answered, `set mode` returns, `exit` ends the daemon; types |
| `threads` | `repaint`, `set theme`, `set message`, `update_svc`, `set tty`, `exit`, F3, one monitor, alarm handler | unlocks by owners, no orphaned mutex, no other races, no deadlock but the handler's |
| `key_monitor` | the commands about consoles, event device, gpm and effects, `repaint`, `update_svc`, `exit`, F2 and F3, two monitor identities, texts that show a program's output | one monitor, no other races |
| `threads_live` | commands that cancel or wait, F2 | commands return |
| `screen` | an icon that fades both ways, a textbox with a panel that fades in and the log, bar, message; 3 requests | staleness marked, objects settle as wanted, no flicker |
| `screen_live` | the icon fades; 3 requests | the screen becomes what was asked for |
| `painting` | 3 by 2 cells; a bar that is hidden and shown, a cropped icon that leaves the screen, a panel over both; 3 requests | refinement of `ScreenContract`, pairs compared, area kept, buffer shown, a paint ends; types |
| `animation` | a looped animation of a service, one to be displayed once, one by progress of a service; 4 commands | frames in turn, not too early, not too late, the looped one going on |
| `theme` | all files of up to 4 lines, one after another; `log_lines` 0, 1, 2 or the default; up to 6 messages | objects as written, losses reported, log holds the last lines |
| `boot` | a network service that may wait, a service that may need it, X; boot and shutdown; `Lag` 0 | reported once and shown as it ended, bar not going back, console and cache given back |
| `scripts` | two scripts, two messages on their way; defaults, or a silent tty of one's own with `SPLASH_VERBOSE_ON_ERRORS` | the final screen, the counting, prompts visible, the end of the boot |

Every property has a mutant: a plausible fault in a definition that makes the
run fail (definitions named `...Fault` or `...Endless`; they are not used
otherwise).

Bounds. Three consoles are the silent tty, the verbose tty and a third that is
neither, or the old and the new silent tty; more are all alike to the daemon.
`MaxTries` is 2 instead of 9: the loop is left after success, after the first
failure and after the last. Two monitor identities let a cancelled monitor run
next to its successor; the alarm handler interrupts each thread once at a time,
as its timer is armed again only by the next command. The commands are divided
between `threads`, with those that change the theme, and `key_monitor`, with those
about consoles and devices; `progress` and `log`, which access the theme without a mutex
as `set message` does, and `paint`, which does less than `repaint`, are in neither, but
in the proof. Three requests let an object be shown, hidden and shown again at any step
of the effects that are running, those of the theme's load included, or be hidden
between a paint and a console switch. An effect of 400 ms has ten steps, the
least the code makes, and 600 ms twelve. Two values of a content tell the old
from the new.

In `painting` progress is 0, 1 or 2, so that a bar which was hidden before it was
ever prerendered has a bounding rectangle larger than what its strips take in. The
bar and the panel reach above the screen, which `parse_box` accepts (it only checks
the far edges), the icon beyond it. Three objects that
overlap in pairs and all at once put lists on `blit_normalize` in which a rectangle
contains another, is contained, or is replaced. Three requests besides paints let
the bar be hidden and shown and the progress change, in any order and within a
paint. The kinds of objects that are not in it (gradients, changes of colour, texts)
are in the proof, which is for any theme.

In `animation` frames take 1 to 3 units, the longest wait is 4, so that a round may
begin for each reason; four commands load a theme, show, hide and show again, or
show, hide, show and paint. Four lines let an `inter` box be followed by another
line and its box inside or behind a section that is left open, six messages go
round a log of two or five lines. Three services in `boot` are the least with
which a third one is counted while a second is scheduled because of a first;
`Lag`, the messages a hook may leave unread when the next one writes, is 0 (the two or
three messages of one hook may be unread while others go on). In `scripts`
two messages are the least of which one overtakes the other; its `VIEW` leaves out
what no property looks at any more: how a service or the bar is shown that is in
`behind`, the bar after an overlap, and the picture once rc has asked for the exit.

`console_live` has no user who switches consoles for ever: the signal thread
serves every switch before it ends (`DrainSignals`), so such a user could keep
`exit` from ending.

Deadlock is not checked where the system may stop: `exit` and SIGTERM end the
daemon, a boot ends, and requests are bounded. It is checked in `console`,
`theme`, `animation` and `scripts`.

## 5. Fairness

Nothing is assumed of users and clients.

* `ConsoleSwitch`: the kernel's worker runs, pending signals are delivered in the
  end, the alarm goes off (weak, or strong per signal). Taking a mutex is strongly
  fair, as its other users sleep between uses.
* `DaemonThreads`: the same of each thread's next step and of the death of a
  cancelled thread in its blocking read, a cancellation point.
* `SplashScreen`: a round of the animation thread begins at most ten seconds after
  the last, since the condition wait has a timeout, and each effect is due after
  finitely many rounds, since every round subtracts the time spent.
* `Painting`: a thread that paints goes on painting (weak fairness of `Painter`);
  nothing is assumed of when paints begin.
* `Animation`: the animation thread runs and time passes (weak fairness of
  `Thread`, whose wait is left by its timeout).

`BootPlugin`, `BootScripts` and `ThemeFile` state safety only.

## 6. Proofs

TLAPS proves, for every value of the constants and from the named assumptions of
the modules alone:

| module | theorem | states |
|---|---|---|
| `ConsoleSwitchProofs` | `TypeCorrect` | `Spec => []TypeOK` |
| | `ModeTheorem` | `Spec => []ModeFollowsConsole` |
| | `PaintTheorem` | `Spec => []PaintsOnlySilentTty` |
| | `ReleaseTheorem` | `Spec => []ReleaseIsAnnounced` |
| | `NotStuckTheorem` | `Spec => []ConsoleNotStuck` |
| `DaemonThreadsProofs` | `DisciplineTheorem` | `Spec => []MutexDiscipline` |
| | `RacesTheorem` | `Spec => []OnlyKnownRaces` |
| | `DeadlockTheorem` | `Spec => []NoDeadlock` |
| | `MonitorTheorem` | `Spec => []OneMonitor` |
| `SplashScreenProofs` | `StaleTheorem` | `Spec => []StaleIsMarked` |
| | `SettledTheorem` | `Spec => []SettledAsWanted` |
| | `FlickerTheorem` | `Spec => NoFlicker` |
| `PaintingProofs` | `PaintingTypes` | `Spec => []TypeOK` |
| | `PassedTheorem` | `Spec => []PassedApart` |
| | `CoverageTheorem` | `Spec => CoverageKept` |
| | `BufferTheorem` | `Spec => []ScreenShowsBuffer` |
| | `PaintsTheorem` | `Spec => PaintsAsAsked`, the refinement of `ScreenContract` |
| `AnimationProofs` | `TimeTheorem` | `Spec => NotTooEarly` |
| | `CurrentTheorem` | `Spec => []ShownIsCurrent` |
| `ThemeFileProofs` | `LostTheorem` | `Spec => []LostAreReported` |
| | `LogTheorem` | `Spec => []LogShowsLastLines` |
| | `ObjectsTheorem` | `Spec => []ObjectsAsWritten` |
| `BootPluginProofs` | `OnceTheorem` | `Spec => []HandledOnce` |
| | `ShownTheorem` | `Spec => []ServiceShown` |
| | `CleanTheorem` | `Spec => []BootEndsClean` |
| | `ForwardTheorem` | `Spec => ProgressForward` |
| `BootScriptsProofs` | `PromptTheorem` | `Spec => []PromptVisible` |
| | `ProgressTheorem` | `Spec => []NeverAhead` |
| | `LeftTheorem` | `Spec => []LeftVisible` |
| | `CountsTheorem` | `Spec => []CountsEachOnce` |
| | `UpToDateTheorem` | `Spec => []ScreenUpToDate` |

Each module proves an inductive invariant first (`Invariance`,
`ThreadsInvariance`, `ScreenInvariance`, `PaintingInvariance`, `AnimationInvariance`,
`ThemeInvariance`, `BootInvariance`, `ScriptsInvariance`), with a lemma per part and in it a step
per action; later parts use the earlier ones as hypotheses.

**Console switching.** `IInv` is `TypeOK` with

* `Locks`: the holder of a mutex is determined by the program counters;
* `Attached`: exactly the silent tty is in `VT_PROCESS` mode, except before it
  is attached, while it moves and after cleanup;
* `Waiting`: a waiting switch is for the console in front and a signal or a
  thread is on its way to answer it;
* `Graphics`: graphics mode is left before `VT_PROCESS` mode;
* `Mode`: how `ctty` lags behind the console. Silent and not in front only
  between the release and the assignment; verbose and in front only while the
  acquisition is unserved; an unserved acquisition excludes a release.

`ModeFollowsConsole` alone is not inductive: it speaks of settled states only,
and `Mode` is what remains true between the ioctl, the signal and the
assignment.

**Threads.** For any number of key monitors and any commands. A program `p` run by a
thread that holds the mutexes `H` is `Covered` if each step that needs a mutex comes
when it is held, `Ordered` if mutexes are taken `mtx_paint` first and no thread is
joined with one, and `Ends` says what is held behind it. These compose (`Concat`) and
carry over to what is left after a step (`Advance`), so they are shown once of
each program. `IInv` says of every thread that what it has still to do keeps them
from what it holds now (`Disciplined`), of threads that ended or are about to that
they leave nothing (`Endings`), and that a program which starts a monitor cancels the
last one first (`OneStarts`). The handler of SIGALRM breaks the order, as it comes on
top of anything: a thread is either `Covered` or `Stuck` in it, and that is the
exception `Caught` of `NoDeadlock`.

**Screen.** For any objects, effects and icons, and any number of entries in
`fxobjs`. `SettledAsWanted` looks only at objects without an effect, so an effect
that ends must end on the right side. `ScreenInvariant` therefore says where each
object is going: the step is that of its blend-in or blend-out, an object on
the list moves, one that is visible and not on the list is opaque (`EffectSound`),
and the sign of the step agrees with what was asked for last unless that was `lost`
(`Heading`). `StaleIsMarked` is not inductive either. A box or an icon that is wrong
on the screen is marked in one of two ways, by its area on the re-blit list or by
`invalid` while it is visible (`BoxMarked`), and rendering turns the second into the
first; a bar is wrong exactly by the progress it was rendered with
(`PaintedObject`). `NoFlicker` compares the brightness on the screen before and
after a step, so the invariant also says that the screen shows the brightness the
object has. A round of the animation thread walks `fxobjs`, from which it removes
entries on the way, in one step of the model: `LoopTurn` is one turn of that loop,
`LoopFacts` what holds after any number of them.

**Painting.** For any theme, any screen and any number of requests. `IInv` is
`TypeOK`, `WhenNormalizing` (the pointers of `blit_normalize` are set exactly
while it runs, so nothing else adds to the list), `PassedApart` and
`UnshownIsCovered`: what the screen lacks of the buffer while a paint is about to
copy lies where the list covers it. That
rectangles on the list lie on the screen rests on `rect_sanitize`
(`SanitizeOnScreen`), although interpolation may leave it; that dropping and
replacing keeps the area, on containment being containment of cells. Removing an
item moves those behind it: `PassedApart` survives because the pairs passed are
of positions before `i`, or `i` and before `j`, and a replacement sets `j` back.

The refinement `PaintsAsAsked` rests on a second invariant, `DInv` (`DrawnInvariance`),
that speaks of each cell by what the second pass would draw in it now (`Drawn`)
rather than by what is wanted (`Wanted`). Once repainted, a cell of the screen is as
it would be drawn, on the list, or under an object shown since (`ScreenIsDrawn`),
but for bars that were never prerendered: their bounding rectangle shrinks without
a mark when they are, so it is needed that they were drawn nowhere, because they are
prerendered before anything is (`Fresh`, `FreshIsTodo`, `Known`); the buffer that a repaint has cleared is so as far as the objects
were marked (`BufferIsDrawn`); what is about to be copied is so (`ListIsRendered`).
The other half is about each object: it is drawn where it was prerendered last
(`BoxIsCurrent`), and if it was prerendered as it should not be now, its mark is
seen by this paint or the next (`ChangesAreMarked`, `InvalidIsPending`,
`ShownIsMarked`). The two halves meet in `MarksSuffice`: whatever object disagrees
with what is wanted in a cell marks that cell when it is prerendered, as a whole
(`WholeMarks`) or by the strips between two rectangles of which a point lies in one
only (`StripMarks`, `StripsCover`). So a cell that is wrong is accounted for
(`AccountedFor`), which makes every step an `Ask` but the copies: `PaintImgPaints`,
`PutImgRepaints` and `PaintRectExposes`.

**Animations.** For any number of animations, frames and times. `NotTooEarly`
compares the age of a frame with its delay, but the code keeps neither: it
subtracts what it has slept from what is left. `IInv` therefore says `Earned` of
each animation that is played by time: the age of its frame with what is left of
it is at least the delay with what the thread has slept and not yet subtracted,
unless the frame was loaded meanwhile (`hurried`). `AnimStep` sorts the steps into
four kinds (kept, drawn, counted, loaded), and both the invariant and the theorem
follow from these. The other direction has an invariant of its own (`SeenInv`): age
and what is left are together no more than the delay and what was slept (`Spent`), the
thread sleeps no longer than any animation it knows of waits (`Heard`, from the least
of a set of waits, `SleepBound`), a silent screen keeps no empty canvas
(`CanvasSound`), and the canvas of a proportional animation fits the progress it
was drawn with, while its area is not on the list before it is drawn unless it was
hidden (`BarSound`). `ShownIsCurrent` speaks of none of these but follows from
them together. `ProportionalFrame` shows that the code's quotient is the number of
frames whose share of the progress is reached.

**Themes and the log.** For files of any length and any number of messages.
`IInv` has three parts beside the types. `LostInv`: the `inter` box that waits is in
no object, has no error, and has only comments behind it; any other is reported,
in an object, or superseded by another. What reading one more line changes
(`LineEffects`) comes down to four cases. `AskedInv`: `log_lines` is that of
the last line that sets it outside an ignored section. `LogInv`: for two lines or
more the chain of the log is the window of the last messages, and its tail the
newest; that it is never empty when the ring is full is what keeps
`list_ringadd` from following a null head.

That the objects are those the file asks for (`ObjInv`) is proved by what one more line
does to both sides. What is written in a file with one more line is what was
written before and at most one object (`WrittenGrows`), since the lines behind a line
decide only whether it is followed by a box, and only the `inter` box that waits still
has comments alone behind it (`Waits`); no `<textbox>` comes between the two halves
(`WaitsWithin`). The parser appends exactly that object (`Lists`), whose last line is
the new one, so none is there twice and they are in the order of the file.

**Hooks.** For any finite set of services, however they depend on and wait for
each other, with hooks of different services in any order and any number of
unread messages. `IInv` has three parts. `Counted`: a service that was counted and
whose hook is about to count is among those the hook finds scheduled, or was woken
by rc; that it reads the scheduled ones last is why none slips through.
`ConsoleInv`: the cache is mounted as long as a living daemon is needed; the
daemon leaves the console verbose, or to X, which once started stays
(`XStays`). `ShownInv`: of the messages about a service the last one in the FIFO, or
what fbsplashd shows if there is none, says what became of it (`Latest`), whenever
its script is not between two hooks.

That the bar does not go back compares reports that hooks of different services
compute at different times, each from lists it reads one after the other. `Ceil` is
a potential: what a hook would report that counted everything now, at boot the
services that are up, failed, waiting or scheduled (`Up`), at shutdown those not yet
stopping (`StillUp`). No step lowers it (`UpStep`, `CeilStep`): a service that is woken or
becomes active moves between the states that count. While scripts run one at a time
no list changes under a hook (`Reading`), so that its report is the potential after it
(`ReportedValue`), and what is in the FIFO rises from what the bar shows to at most
`Ceil` (`Fits`). What is sent behind an exit no longer matters, since fbsplashd leaves
when it reads that.

**Boot scripts.** For any number of services, and messages read in any order.
`IInv` is the types with three parts. A prompt is
visible because, as long as it is open and not excused, no switch to the silent
tty is on its way or about to be sent, and no other script owns one or is about to
(`PromptsUndisturbed`). No more progress is sent than services reported because
whatever is counted anywhere, in the file, in rc's environment, in a script
between load and save, or in a message, is at most the number of a set of
services that reported (`ReportsCounted`), and that set only grows; two scripts
that overwrite each other's count lose counts but do not invent any.

What holds once all is quiet rests on a second invariant (`WholeInv`), which adds
to `IInv` what each process is about to send at the place it is at (`Stages`). At the
end of the boot, an exit that is read, however late, is the one rc asked for
(`ExitAsRc`), and as long as fbsplashd runs and missed no signal a console other than
the verbose one is in front only with `ctty` silent (`Leaving`): so whichever of the exit, the kill and the
unmounting comes first, the same console is left. While no two scripts update the
file at a time, it is truncated only by the script that has loaded it, which adds
itself (`CountedOnce`); that none is in it which has not reported (`OnlyReporters`) holds
of scripts side by side too. That the screen is up to date rests on the order of the messages
alone (`Followed`): of the messages about a service, or about the bar, the last says
what was told last (`LastSays`), and behind each there is a `paint` (`PaintFollows`).
Reading any message keeps both (`ReadSays`, `ReadPaints`) unless it overtakes, which is
what `behind` records; what is not behind is therefore shown.

**Only model-checked.** Liveness (`ReleaseIsAnswered`, `SetModeReturns`,
`ExitTerminates`, `CommandReturns`, `EventuallyAsAsked`, `PaintEnds`,
`AnimationsGoOn`), which is out of the prover's reach.

## 7. What was found

No run ends in a violation. Where the code does not keep what it promises, the
model contains the defect, and a property excludes exactly that case, by a
history variable or a named operator.

Console and threads:

* The alarm handler of the verbose timer takes `mtx_paint` on top of a thread
  that may hold it, or keep its holder from going on, against "in order to avoid
  potential deadlocks" (`daemon.c:667`, handler set at `679`): `NoDeadlock` except `Caught`.
* "Ensure that the VT_WAITACTIVE command returns in a timely manner"
  (`daemon_cmd.c:115`): the alarm that is to interrupt the wait may be taken by any
  thread (`daemon.c:679`), and then the wait goes on with no timer left
  (`SetModeReturns` except `"taken"`).
* `set theme` changes `config.theme`, `set effects` `config.effects` and
  `set tty verbose` `config.tty_v` while other threads may read them, and
  `set event dev` closes and reopens the device a monitor reads (`Unguarded`).
* `exit` switches to the verbose tty (`daemon_cmd.c:42`), but the switch is
  forgotten if the kernel's question comes within the cleanup, whose `VT_SETMODE`
  drops it.
* `ctty` identifies the splash mode (`daemon.h:27`): not after a release was
  served before the acquisition it follows, nor after a switch between
  `VT_GETSTATE` and `VT_SETMODE` at startup, nor after one that races
  `set tty silent` (`excused`).
* There is always a key monitor (`ChangeLog:67`): none after
  `set tty silent`, which only cancels it (`daemon_cmd.c:208`).
* The monitor is killed before the silent tty changes (`daemon.c:438`):
  it is only marked, and may be using the descriptor (`cancelled`).
* `exit` ends the daemon (`docs/daemon:90`): F3 paints without disabling
  cancellation, and a text that shows a program's output waits for it with
  `mtx_paint` held; a monitor cancelled there keeps the mutex, and `exit` waits
  for it for ever (`MutexDiscipline`, `"dead"`).
* `set tty` admits the number `MAX_NR_CONSOLES`, one past the end of the table
  of descriptors (`daemon_cmd.c:194`).

Screen:

* An icon shows the current state (`docs/theme_format:203`): a request to show
  it while it fades out is ignored, and it disappears (`lost`).
* blendout is for becoming invisible, blendin ends at full opacity
  (`docs/theme_format:272`): an icon with blendout alone stays transparent when
  it is shown again, and effects below 10 ms never start (`Regular`).
* The textbox is shown on request (`docs/theme_format:55`): it is also shown
  after `set theme` (`lost`).
* The alpha of boxes and texts changes smoothly (`docs/theme_format:273`): a box is
  there in full at the first step of its blendin and to the last of its blendout, as
  `if (opacity == 0xff, 1)` is always true (`render.c:571`); a text appears at the
  last step, as `opacity / 255` is an integer division (`ttf.c:775`). So only icons
  fade (`Alpha`), and `NoFlicker` speaks of icons.
* `set theme` followed by `paint` leaves the old theme's picture where the new one
  has hidden objects or only a background, until a repaint (`reloaded`).
* `paint` updates the image (`docs/daemon:65`): after `set message` it leaves
  the old message, which is compared by progress (`Unchanged`).
* `progress` marks an object between its prerendering and the removal of its
  mark (`render.c:738`): the mark is lost, the object stays as it was (`missed`).
* A bar that is shown again at the progress at which it was hidden stays
  invisible, and then appears strip by strip (`unseen`).
* A cropped icon is drawn within its bounding rectangle, which until it is
  prerendered for the first time takes in all it may become. One that was hidden
  before the first repaint and is shown again at that progress is taken for
  unchanged (`render.c:613`) and appears with that extent where something else is
  painted, until the progress changes (`unseen`).
* A box that lies wholly above the screen is drawn on its first row: `parse_box`
  lets it pass, and `rect_sanitize` (`render.c:222`) moves the rectangle instead of
  cutting it off (`Place`).
* Removing the last item of `fxobjs` frees it before its `next` is read
  (`daemon.c:169`): the daemon ends or does not (`FreedReads`).
* Interpolated boxes are compared with `memcmp` including pointers and padding that
  were never set: they may be painted although nothing has changed (`TakenForNew`).
* `paint rect` is matched by `paint` too, and runs both (`daemon_cmd.c:619`).

Animations:

* `once` animations (`docs/theme_format:244`) are repeated: `F_ANIM_ONCE` is 0 and
  tested as a bit (`mng_render.c:275`). The model does the same (`IsOnce`);
  `AnimationsGoOn` speaks of looped ones only, and would hold after a repair.
* A signal sent between the unlocking of `mtx_paint` and the wait is lost, for up
  to ten seconds (`unheard`); a canvas that was never drawn is painted meanwhile.
* `anim_prerender` compares `curr_progress` with the progress (`mng_render.c:207`), not
  what is on the screen. Until the progress changes or all is repainted, a
  proportional animation that is shown again with the progress it had is not painted
  if a `paint` came while it was hidden; one loaded by `set theme` before progress 0
  leaves the old theme's picture; and one hidden before it was drawn and shown again
  is painted as a canvas that was never drawn, because hiding has put its area on the
  list (`render.c:339`, `undrawn`). `ShownIsCurrent` excludes these three; the second
  takes six commands, more than the four of `animation`, and was seen with six.
* The time the thread has slept is subtracted from animations that were loaded in
  the meantime, whose first frame ends early (`hurried`), and not from those
  that are hidden, which continue where they were (`frozen`).

Theme and log:

* An `inter` box without its other half is an error (`docs/theme_format:82`),
  which is not reported if another `inter` box or the end of the file follows
  (`LostAreReported`).
* `is_textbox`, like `text_x` and other static settings, is kept from one theme to
  the next (`carried`).
* With `log_lines` 0 or 1 the first or third message makes `list_ringadd` follow a
  null pointer (`LogShowsLastLines`).
* `set theme` of a directory that does not exist leaves a null theme, which
  `reload_theme` uses.

Boot:

* The argument of `progress` is at most 65535 (`docs/daemon:71`): at shutdown the
  service being stopped is counted twice (`gentoo/splash.c:504`), and the last one
  is sent with more, which `fbsplashr_progress_set` cuts off.
* Without services `splash_svc_handle` bails out (`gentoo/splash.c:490`): not
  for a scheduled service, where it divides by zero (`Reports`).
* With scripts side by side the bar of the plugin goes back (`overlap`).
* One is not "stuck in a black ex-silent tty" at the end of the boot
  (`gentoo/splash.c:712`): unless fbsplashd was killed, when the hook returns
  before it looks (`BootEndsClean`). Likewise the cache stays mounted, as it
  does after a `splash_start` that failed.
* The wait "for the GPM socket to appear" (`gentoo/splash.c:936`) waits while
  it exists; not modelled.
* The messages of the shell functions may overtake each other: a `paint` before
  what it is to show, or `set mode` before `set tty` (`behind`).
* A service that is reported a second time is not painted
  (`splash_update_progress` returns before, `behind`).
* A prompt is hidden by a switch to silent still on its way when it began, or by
  the end of another prompt that found the screen silent (`excused`): two scripts may
  ask `splash_get_mode` before either switches (`splash-functions.sh.in:484`), and both own
  `SPL_SVC_INPUT_SILENT`;
  `splash_get_mode` ignores `SPLASH_TTY`, so with a tty of one's own prompts appear
  behind the splash.
* On a live CD the cache is destroyed without stopping fbsplashd (`DestroyCD`); it
  stays mounted where `spl_tmpdir` cannot be made (`splash-functions.sh.in:297`), and at
  `spl_tmpdir` where the directory under it is read-only (`313`) (`rc.left`).
* The switch to the verbose tty at `exit` may be forgotten (above), and no script looks
  again: the boot then ends with the silent console in front (`daemon.missed`).

## 8. What is not modelled

Pixels: blending, gradients, image and font decoding, colour maps, glyphs and
layout, and the fade of the whole screen (64 or 256 paints under `mtx_paint`, one
step here). `SplashScreen` redraws a whole object where the code redraws a part of
it; parts are `Painting`'s subject, which in turn has no effects.
Failures of system calls such as `fork`, `malloc` or `open` (with one
exception: the event device that does not open). GPM, which pauses switching
on the mouse's behalf. The syntax of theme lines, messages and the kernel command
line. Theme scripts, coldplugging in sysinit, and profiling.
Shutdown with baselayout 1, whose functions are those of the boot in another
order.

Whole components are left out because a model would have nothing to interleave
or to accumulate: the kernel helper, which serves one event per process; the
fbcondecor interface, which marshals one ioctl; image loading; the options of
`fbsplashctl` and of `splash_util`, of which only the mode it reports matters
(`InputBegin`); tools that convert or download themes; the stand-alone console
programs; packaging, theme data and release scripts.

More than nine tenths of the C lines in the repository are vendored: freetype,
libjpeg, libpng and zlib under `core/libs`, and font tables of `fbtruetype`. They
are called in `image.c`, `ttf.c` and `mng_*.c`, and keep no state that the daemon's
protocols depend on; libmng, which is not in the repository, is modelled from its
use. The definitions here therefore stand for a small share of all lines, and for
most of the control of `core/src/daemon*.c`, `render.c`, `effects.c`, `list.c`,
`gentoo/splash.c` and the shell functions.
