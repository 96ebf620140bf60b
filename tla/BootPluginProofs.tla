--------------------------- MODULE BootPluginProofs ---------------------------
(***************************************************************************)
(* Proofs about BootPlugin for any set of services, however they depend    *)
(* on and wait for each other, and any number of unread messages: no       *)
(* service is counted twice, the boot does not leave the user on a silent  *)
(* tty nobody draws on, and the progress bar does not go back.             *)
(***************************************************************************)
EXTENDS BootPlugin, FiniteSetTheorems, TLAPS

\* What is left of the lists a hook reads.
Boot4 == <<"started", "inactive", "failed", "scheduled">>
Boot3 == <<"inactive", "failed", "scheduled">>
Boot2 == <<"failed", "scheduled">>
Boot1 == <<"scheduled">>
Down3 == <<"started", "starting", "inactive">>
Down2 == <<"starting", "inactive">>
Down1 == <<"inactive">>

Todos == IF phase = "boot" THEN {Boot4, Boot3, Boot2, Boot1, <<>>} ELSE {Down3, Down2, Down1, <<>>}

Scripts == [pc : {"idle", "now", "read", "run", "done", "out"}, todo : Todos,
            found : SUBSET Services, n : Nat, cnt : Nat, skip : BOOLEAN]

Types ==
  /\ phase \in {"boot", "shutdown"}
  /\ level \in {"before", phase, "exit", "over"} \/ (level = "default" /\ phase = "boot")
  /\ left \subseteq Services /\ sched \subseteq Services /\ listed \subseteq Services
  /\ st \in [Services -> {"stopped", "starting", "started", "inactive", "failed", "stopping"}]
  /\ proc \in [Services -> Scripts]
  /\ handled \in [Services -> Nat]

\* Where a service stands that is counted already, or never was.  One that is
\* counted is not counted again: when it starts, since the hook finds it among
\* the scheduled ones or rc has woken it.
Counted(s) ==
  /\ handled[s] <= 1
  /\ s \in left => Idle(s) /\ handled[s] = 0 /\ st[s] \in {"stopped", "started"}
  /\ s \in left /\ phase = "boot" => st[s] = "stopped"
  /\ s \in sched => phase = "boot" /\ proc[s].pc # "done" /\ s \notin left
  /\ s \in sched /\ proc[s].pc = "out" => handled[s] = 0
  /\ handled[s] = 1 /\ proc[s].pc = "now" => s \in waking \union sched
  /\ handled[s] = 1 /\ proc[s].pc = "read" =>
       ~proc[s].skip /\ s \in sched /\ (proc[s].todo = <<>> => s \in proc[s].found)

\* During the boot a service that has started has nothing more to start.
StartedStays(s) ==
  phase = "boot" /\ st[s] = "started" =>
    proc[s].pc \in {"idle", "done", "out"} /\ s \notin sched /\ s \notin left

ScriptsInv == Types /\ \A s \in Services : Counted(s) /\ StartedStays(s)

-----------------------------------------------------------------------------
(* Init scripts                                                            *)

\* A hook that was not begun fits the types.
LEMMA NoHookType == Types => \A l \in {"idle", "now", "run", "done", "out"} :
                      [NoHook EXCEPT !.pc = l] \in Scripts /\ NoHook \in Scripts
  BY DEF Types, Scripts, NoHook, Todos

\* Before anything happened.
LEMMA InitScripts == Init => ScriptsInv
  <1> SUFFICES ASSUME Init PROVE ScriptsInv
    OBVIOUS
  <1>1. phase \in {"boot", "shutdown"} /\ sched = {} /\ waking = {} /\ listed = {}
        /\ level = "before" /\ proc = [s \in Services |-> NoHook] /\ handled = [s \in Services |-> 0]
    BY DEF Init
  <1>2. PICK up \in SUBSET Services :
          /\ phase = "boot" => up \intersect Listed = {}
          /\ st = [s \in Services |-> IF s \in up THEN "started" ELSE "stopped"]
          /\ left = IF phase = "boot" THEN Services \ up ELSE up \intersect Listed
    BY DEF Init
  <1>3. NoHook \in Scripts /\ NoHook.pc = "idle"
    BY <1>1 DEF Scripts, NoHook, Todos
  <1>4. Types
    BY <1>1, <1>2, <1>3 DEF Types
  <1>5. ASSUME NEW s \in Services PROVE Counted(s) /\ StartedStays(s)
    BY <1>1, <1>2, <1>3 DEF Counted, StartedStays, Idle
  <1> QED BY <1>4, <1>5 DEF ScriptsInv

\* What concerns service s and nothing else stays as it is.
Untouched(s) ==
  /\ phase' = phase /\ proc'[s] = proc[s] /\ handled'[s] = handled[s] /\ st'[s] = st[s]
  /\ (s \in left' => s \in left) /\ (s \in sched' <=> s \in sched) /\ (s \in waking' <=> s \in waking)

\* Then nothing changes for it.
LEMMA UntouchedKeeps ==
  ASSUME NEW s \in Services, Counted(s), StartedStays(s), Untouched(s)
  PROVE  Counted(s)' /\ StartedStays(s)'
  BY DEF Untouched, Counted, StartedStays, Idle

\* The services: what a step of a script leaves to the others.
OneScript(s) == Begin(s) \/ Wake(s) \/ HookNow(s) \/ ReadState(s)
                  \/ SvcHandle(s) \/ RunService(s) \/ HookDone(s) \/ HookOut(s)

LEMMA OthersUntouched ==
  ASSUME Types, NEW t \in Services, OneScript(t), NEW s \in Services, s # t
  PROVE  Untouched(s)
  <1> USE DEF Types, Untouched, Goto, Leave, rcVars, svcVars
  <1>1. CASE Begin(t)
    BY <1>1 DEF Begin
  <1>2. CASE Wake(t)
    BY <1>2 DEF Wake
  <1>3. CASE HookNow(t)
    BY <1>3 DEF HookNow
  <1>4. CASE ReadState(t)
    BY <1>4 DEF ReadState
  <1>5. CASE SvcHandle(t)
    BY <1>5 DEF SvcHandle
  <1>6. CASE RunService(t)
    BY <1>6 DEF RunService
  <1>7. CASE HookDone(t)
    BY <1>7 DEF HookDone
  <1>8. CASE HookOut(t)
    BY <1>8 DEF HookOut
  <1> QED BY <1>1, <1>2, <1>3, <1>4, <1>5, <1>6, <1>7, <1>8 DEF OneScript

\* What rc, fbsplashd and the user do concerns no script.
LEMMA RestUntouched ==
  ASSUME Types, SplashStart \/ EnterDefault \/ EndBoot \/ Abort \/ StopFinish \/ EndShutdown
                  \/ Command \/ DaemonEnds \/ ConsoleSwitched \/ UNCHANGED vars
  PROVE  /\ \A s \in Services : Untouched(s)
         /\ UNCHANGED <<phase, left, svcVars, proc, handled>> /\ listed' \in {listed, {}, SvcList}
         /\ level' \in {level, phase, "exit", "over"} \/ (level' = "default" /\ level = "boot")
  BY DEF SplashStart, StartFails, StartSucceeds, EnterDefault, EndBoot, Abort, StopFinish,
         EndShutdown, Command, DaemonEnds, ConsoleSwitched, vars, rcVars, svcVars, splashVars, Untouched

\* Only its own script changes where a hook is.
LEMMA GotoType ==
  ASSUME Types, NEW s \in Services, NEW l \in {"idle", "now", "run", "done", "out"}, Goto(s, l)
  PROVE  /\ proc' \in [Services -> Scripts] /\ proc'[s].pc = l
         /\ \A t \in Services \ {s} : proc'[t] = proc[t]
  BY NoHookType DEF Goto, NoHook, Types

\* The lists one after the other.
LEMMA ListTails ==
  /\ Tail(Boot4) = Boot3 /\ Tail(Boot3) = Boot2 /\ Tail(Boot2) = Boot1
  /\ Tail(Boot1) = <<>> /\ Head(Boot1) = "scheduled"
  /\ Tail(Down3) = Down2 /\ Tail(Down2) = Down1 /\ Tail(Down1) = <<>>
  /\ <<>> \notin {Boot4, Boot3, Boot2, Boot1, Down3, Down2, Down1}
  BY DEF Boot4, Boot3, Boot2, Boot1, Down3, Down2, Down1

\* A hook that begins to count services.
LEMMA ReadFromType ==
  ASSUME Types, NEW skip \in BOOLEAN
  PROVE  /\ ReadFrom(skip) \in Scripts /\ ReadFrom(skip).pc = "read"
         /\ ReadFrom(skip).todo # <<>> /\ ReadFrom(skip).skip = skip
  <1>1. Cardinality(listed) \in Nat
    BY BootAssumption, FS_Subset, FS_CardinalityType DEF Types
  <1>2. Lists \in Todos /\ Lists # <<>>
    BY ListTails DEF Lists, Todos, Boot4, Down3
  <1> QED BY <1>1, <1>2 DEF ReadFrom, NoHook, Scripts

\* A hook that reads one list more: the last one during the boot holds what
\* is scheduled.
LEMMA ReadStateEffect ==
  ASSUME Types, NEW s \in Services, ReadState(s)
  PROVE  /\ proc' \in [Services -> Scripts]
         /\ proc'[s].pc = "read" /\ proc'[s].skip = proc[s].skip
         /\ phase = "boot" /\ proc'[s].todo = <<>> => proc'[s].found = proc[s].found \union sched
  <1> DEFINE in == InState(Head(proc[s].todo))
             p == [proc[s] EXCEPT !.todo = Tail(@), !.found = @ \union in, !.n = @ + Cardinality(in)]
  <1>1. proc' = [proc EXCEPT ![s] = p] /\ proc[s].todo # <<>> /\ proc[s].pc = "read"
        /\ proc[s] \in Scripts
    BY DEF ReadState, Types
  <1>2. in \subseteq Services /\ Cardinality(in) \in Nat
    <2>1. in \subseteq Services
      BY DEF InState, Types
    <2> QED BY <2>1, BootAssumption, FS_Subset, FS_CardinalityType
  <1>3. /\ Tail(proc[s].todo) \in Todos
        /\ phase = "boot" /\ Tail(proc[s].todo) = <<>> => Head(proc[s].todo) = "scheduled"
    <2>1. proc[s].todo \in Todos \ {<<>>}
      BY <1>1 DEF Scripts
    <2> QED BY <2>1, ListTails DEF Todos
  <1>4. phase = "boot" /\ Tail(proc[s].todo) = <<>> => in = sched
    BY <1>3 DEF InState
  <1> HIDE DEF in
  <1>5. p \in Scripts /\ p.pc = "read" /\ p.skip = proc[s].skip /\ p.todo = Tail(proc[s].todo)
        /\ p.found = proc[s].found \union in
    <2>1. /\ proc[s].found \union in \in SUBSET Services
          /\ proc[s].n + Cardinality(in) \in Nat
      BY <1>1, <1>2 DEF Scripts
    <2> DEFINE found == proc[s].found \union in
               n == proc[s].n + Cardinality(in)
               todo == Tail(proc[s].todo)
    <2>2. p = [proc[s] EXCEPT !.todo = todo, !.found = found, !.n = n]
      OBVIOUS
    <2> HIDE DEF found, n, todo, p
    <2> QED BY <1>1, <1>3, <2>1, <2>2 DEF Scripts, found, n, todo
  <1> HIDE DEF p
  <1>6. proc'[s] = p /\ proc' \in [Services -> Scripts]
    BY <1>1, <1>5 DEF Types
  <1> QED BY <1>4, <1>5, <1>6

\* A service counted is not counted again by its own script.
LEMMA OwnScript ==
  ASSUME Types, NEW s \in Services, Counted(s), StartedStays(s), OneScript(s)
  PROVE  Types' /\ Counted(s)' /\ StartedStays(s)'
  <1> USE DEF Types, Counted, StartedStays, Idle
  <1>1. phase' = phase /\ level' = level /\ listed' = listed /\ Todos' = Todos
    BY DEF OneScript, Begin, Wake, HookNow, ReadState, SvcHandle, RunService, HookDone, HookOut,
           rcVars, splashVars, Todos
  <1>2. proc[s] \in Scripts /\ Scripts' = Scripts
    BY <1>1 DEF Scripts
  <1>3. CASE Begin(s)
    <2>1. PICK l \in {"now", "out"} : Goto(s, l)
      BY <1>3 DEF Begin
    <2>2. proc' \in [Services -> Scripts] /\ proc'[s].pc = l
      BY <2>1, GotoType
    <2>3. left' = left \ {s} /\ s \in left /\ handled' = handled
      BY <1>3 DEF Begin
    <2>4. \/ l = "now" /\ sched' = sched /\ st' = [st EXCEPT ![s] = "starting"]
          \/ phase = "boot" /\ l = "out" /\ sched' = sched \union {s} /\ st' = st
          \/ l = "now" /\ sched' = sched /\ st' = [st EXCEPT ![s] = "stopping"]
      BY <1>3, <2>2 DEF Begin, Goto, NoHook
    <2> QED BY <1>1, <1>2, <2>2, <2>3, <2>4
  <1>4. CASE Wake(s)
    <2>1. proc' \in [Services -> Scripts] /\ proc'[s].pc = "now"
      BY <1>4, GotoType DEF Wake
    <2>2. /\ left' = left /\ sched' = sched /\ handled' = handled /\ phase = "boot"
          /\ st' = [st EXCEPT ![s] = "starting"] /\ Idle(s)
          /\ (st[s] = "inactive" /\ s \in waking') \/ s \in sched
      BY <1>4 DEF Wake, rcVars
    <2> QED BY <1>1, <1>2, <2>1, <2>2
  <1>5. CASE HookNow(s)
    <2>1. UNCHANGED <<left, sched, waking, st, handled>> /\ proc[s].pc = "now"
      BY <1>5 DEF HookNow, rcVars, svcVars
    <2>2. CASE proc' = [proc EXCEPT ![s] = ReadFrom(FALSE)] /\ s \notin waking
      BY <1>1, <1>2, <2>1, <2>2, ReadFromType
    <2>3. CASE Goto(s, "run")
      BY <1>1, <1>2, <2>1, <2>3, GotoType
    <2> QED BY <1>5, <2>2, <2>3 DEF HookNow
  <1>6. CASE ReadState(s)
    <2>1. UNCHANGED <<left, sched, waking, st, handled>> /\ proc[s].pc = "read"
      BY <1>6 DEF ReadState, rcVars, svcVars
    <2> QED BY <1>1, <1>2, <1>6, <2>1, ReadStateEffect
  <1>7. CASE SvcHandle(s)
    <2>1. UNCHANGED <<left, sched, waking, st>> /\ proc[s].pc = "read" /\ proc[s].todo = <<>>
      BY <1>7 DEF SvcHandle, rcVars
    <2>2. PICK l \in {"idle", "run"} : Goto(s, l)
      BY <1>7 DEF SvcHandle, Leave
    <2>3. proc' \in [Services -> Scripts] /\ proc'[s].pc = l
      BY <2>2, GotoType
    <2>4. handled' = handled \/ (handled' = [handled EXCEPT ![s] = @ + 1] /\ Reports(s))
      BY <1>7 DEF SvcHandle
    <2>5. handled'[s] \in {0, 1} /\ handled' \in [Services -> Nat]
      BY <2>1, <2>4 DEF Reports
    <2> QED BY <1>1, <1>2, <2>1, <2>3, <2>5
  <1>8. CASE RunService(s)
    <2>1. proc' \in [Services -> Scripts] /\ proc'[s].pc = "done"
      BY <1>8, GotoType DEF RunService
    <2>2. left' = left /\ sched' = sched \ {s} /\ handled' = handled /\ proc[s].pc = "run"
      BY <1>8 DEF RunService, rcVars
    <2>3. PICK r \in {"started", "stopped", "inactive", "failed"} : st' = [st EXCEPT ![s] = r]
      BY <1>8 DEF RunService
    <2> QED BY <1>1, <1>2, <2>1, <2>2, <2>3
  <1>9. CASE HookDone(s)
    <2>1. proc' \in [Services -> Scripts] /\ proc'[s].pc = "out"
      BY <1>9, GotoType DEF HookDone
    <2>2. UNCHANGED <<left, sched, waking, st, handled>> /\ proc[s].pc = "done"
      BY <1>9 DEF HookDone, rcVars, svcVars
    <2> QED BY <1>1, <1>2, <2>1, <2>2
  <1>10. CASE HookOut(s)
    <2>1. UNCHANGED <<left, sched, waking, st, handled>> /\ proc[s].pc = "out"
      BY <1>10 DEF HookOut, rcVars
    <2>2. CASE proc' = [proc EXCEPT ![s] = ReadFrom(TRUE)] /\ s \in sched
      <3>1. ReadFrom(TRUE) \in Scripts /\ ReadFrom(TRUE).pc = "read"
        BY ReadFromType
      <3>2. proc'[s].pc = "read" /\ proc' \in [Services -> Scripts] /\ handled[s] = 0
        BY <2>1, <2>2, <3>1
      <3>3. Types'
        BY <1>1, <1>2, <2>1, <3>2
      <3>4. Counted(s)'
        <4>1. s \notin left /\ phase = "boot"
          BY <2>1, <2>2
        <4>2. handled'[s] = 0 /\ s \notin left' /\ phase' = "boot"
          BY <1>1, <2>1, <3>2, <4>1
        <4> QED BY <3>2, <4>2
      <3>5. StartedStays(s)'
        BY <1>1, <2>1, <2>2, <3>2
      <3> QED BY <3>3, <3>4, <3>5
    <2>3. CASE Goto(s, "idle")
      BY <1>1, <1>2, <2>1, <2>3, GotoType
    <2> QED BY <1>10, <2>2, <2>3 DEF HookOut, Leave
  <1> QED BY <1>3, <1>4, <1>5, <1>6, <1>7, <1>8, <1>9, <1>10 DEF OneScript

\* Every step keeps the services' part.
LEMMA ScriptsStep == ScriptsInv /\ [Next]_vars => ScriptsInv'
  <1> SUFFICES ASSUME ScriptsInv, [Next]_vars PROVE ScriptsInv'
    OBVIOUS
  <1> USE DEF ScriptsInv
  <1>1. ASSUME NEW t \in Services, OneScript(t) PROVE ScriptsInv'
    <2>1. ASSUME NEW s \in Services, s # t PROVE Counted(s)' /\ StartedStays(s)'
      BY <1>1, <2>1, OthersUntouched, UntouchedKeeps
    <2> QED BY <1>1, <2>1, OwnScript
  <1>2. CASE SplashStart \/ EnterDefault \/ EndBoot \/ Abort \/ StopFinish \/ EndShutdown
               \/ Command \/ DaemonEnds \/ ConsoleSwitched \/ UNCHANGED vars
    <2>1. /\ \A s \in Services : Untouched(s)
          /\ UNCHANGED <<phase, left, svcVars, proc, handled>> /\ listed' \in {listed, {}, SvcList}
          /\ level' \in {level, phase, "exit", "over"} \/ (level' = "default" /\ level = "boot")
      BY <1>2, RestUntouched
    <2>2. SvcList \subseteq Services
      BY BootAssumption DEF SvcList, Types
    <2>3. Types'
      BY <2>1, <2>2 DEF Types, svcVars, Scripts, Todos
    <2> QED BY <2>1, <2>3, UntouchedKeeps
  <1> QED BY <1>1, <1>2 DEF Next, OneScript

-----------------------------------------------------------------------------
(* The console, the cache and the FIFO                                     *)

\* What fbsplashd is told of services.
Told == {"svc_start", "svc_stop", "svc_start_failed", "svc_started", "svc_stopped", "svc_stop_failed"}

\* Messages the FIFO may hold: 'exit' is said when the boot ends, and that X
\* took the console only if it has started.
Messages ==
  {m \in [cmd : {"services", "silent", "update_svc", "progress", "exit", "staysilent"},
          svc : Services \union {None}, arg : Int \union Told \union {None}] :
     m.cmd \in {"exit", "staysilent"} =>
       /\ level \in {"exit", "over"}
       /\ m.cmd = "staysilent" => phase = "boot" /\ XStarted}

Alive == daemon \in {"running", "leaving", "gone"}

ConsoleInv ==
  /\ cache \in {0, 1} /\ pipe \in Seq(Messages)
  /\ daemon \in {"none", "running", "leaving", "gone", "killed"}
  /\ level = "before" => cache = 0 /\ ~Alive
  /\ level = "exit" => phase = "boot"
  /\ Alive => cache = (IF level = "over" THEN 0 ELSE 1)
  /\ daemon \in {"leaving", "gone"} => level \in {"exit", "over"}
  /\ phase = "boot" /\ daemon \in {"none", "leaving", "gone"} /\ ~XStarted => tty # "silent"

\* Before anything happened.
LEMMA InitConsole == Init => ConsoleInv
  BY DEF Init, ConsoleInv, Alive

\* X that has started during the boot stays.
LEMMA XStays ==
  ASSUME ScriptsInv, [Next]_vars, phase = "boot", XStarted
  PROVE  XStarted'
  <1>1. XService \in Services /\ st[XService] = "started" /\ StartedStays(XService)
        /\ Counted(XService) /\ st \in [Services -> {"stopped", "starting", "started", "inactive",
                                                     "failed", "stopping"}]
    BY BootAssumption DEF XStarted, ScriptsInv, Types
  <1>2. ASSUME NEW t \in Services, OneScript(t) PROVE st'[XService] = st[XService]
    <2>1. CASE t # XService
      BY <1>1, <1>2, <2>1, OthersUntouched DEF ScriptsInv, Untouched
    <2>2. CASE t = XService
      <3>1. ~Begin(t) /\ ~Wake(t) /\ ~RunService(t)
        BY <1>1, <2>2 DEF Begin, Wake, RunService, StartedStays
      <3>2. st' = st
        BY <1>2, <3>1 DEF OneScript, HookNow, ReadState, SvcHandle, HookDone, HookOut, svcVars
      <3> QED BY <3>2
    <2> QED BY <2>1, <2>2
  <1>3. CASE ~\E t \in Services : OneScript(t)
    <2>1. SplashStart \/ EnterDefault \/ EndBoot \/ Abort \/ StopFinish \/ EndShutdown
            \/ Command \/ DaemonEnds \/ ConsoleSwitched \/ UNCHANGED vars
      BY <1>3 DEF Next, OneScript
    <2>2. st' = st
      BY <2>1, RestUntouched DEF ScriptsInv, svcVars
    <2> QED BY <1>1, <2>2 DEF XStarted
  <1> QED BY <1>1, <1>2, <1>3 DEF XStarted

\* What may be in the FIFO may stay there.
LEMMA MessagesStay ==
  ASSUME ScriptsInv, [Next]_vars, level \in {"exit", "over"} => level' \in {"exit", "over"}
  PROVE  Messages \subseteq Messages' /\ Seq(Messages) \subseteq Seq(Messages')
  <1>1. phase' = phase
    <2>1. ASSUME NEW t \in Services, OneScript(t) PROVE phase' = phase
      BY <2>1 DEF OneScript, Begin, Wake, HookNow, ReadState, SvcHandle, RunService, HookDone, HookOut,
                  rcVars
    <2> QED BY <2>1, RestUntouched DEF Next, OneScript, ScriptsInv
  <1>2. Messages \subseteq Messages'
    BY <1>1, XStays DEF Messages
  <1> HIDE DEF Messages
  <1>3. ASSUME NEW q \in Seq(Messages) PROVE q \in Seq(Messages')
    BY <1>2, <1>3
  <1> QED BY <1>2, <1>3

\* Sending something that may be sent.
LEMMA SendKeeps ==
  ASSUME NEW M, pipe \in Seq(M), NEW msgs \in Seq(M), Send(msgs)
  PROVE  pipe' \in Seq(M)
  BY DEF Send

\* What the hooks send about services.
LEMMA ServiceMessages ==
  ASSUME Types, NEW s \in Services
  PROVE  /\ \A state \in Told : SvcMsg(s, state) \in Seq(Messages')
         /\ \A n \in Int : ProgressMsg(n) \in Seq(Messages')
         /\ Reports(s) => ProgressOf(proc[s]) \in Int
  <1>1. /\ \A state \in Told : [cmd |-> "update_svc", svc |-> s, arg |-> state] \in Messages'
        /\ \A n \in Int : [cmd |-> "progress", svc |-> None, arg |-> n] \in Messages'
    BY DEF Messages
  <1>2. Reports(s) => ProgressOf(proc[s]) \in Int
    <2>1. proc[s].n \in Nat /\ proc[s].cnt \in Nat
      BY DEF Types, Scripts
    <2>2. DoneCount(proc[s]) + (IF proc[s].skip THEN 0 ELSE 1) \in Int
      BY <2>1 DEF DoneCount
    <2>3. (DoneCount(proc[s]) + (IF proc[s].skip THEN 0 ELSE 1)) * Max \in Int
      BY <2>2, BootAssumption
    <2> QED BY <2>1, <2>3 DEF Reports, ProgressOf
  <1> HIDE DEF Messages
  <1> QED BY <1>1, <1>2 DEF SvcMsg, ProgressMsg

\* The init scripts leave fbsplashd and the cache alone; a failure may make the
\* console verbose.
LEMMA ScriptConsole ==
  ASSUME ScriptsInv, ConsoleInv, NEW s \in Services, OneScript(s)
  PROVE  ConsoleInv'
  <1> USE DEF ScriptsInv
  <1>1. UNCHANGED <<phase, level, cache, daemon>> /\ tty' \in {tty, "verbose"}
    BY DEF OneScript, Begin, Wake, HookNow, ReadState, SvcHandle, RunService, HookDone, HookOut,
           rcVars, splashVars, SetVerbose
  <1>2. [Next]_vars
    BY DEF Next, OneScript
  <1>3. pipe \in Seq(Messages')
    BY <1>1, <1>2, MessagesStay DEF ConsoleInv
  <1>4. pipe' \in Seq(Messages')
    <2>1. CASE pipe' = pipe
      BY <1>3, <2>1
    <2>2. CASE SvcHandle(s) /\ pipe' # pipe
      <3>1. PICK state \in {"svc_start", "svc_stop"} :
              Reports(s) /\ Send(SvcMsg(s, state) \o ProgressMsg(ProgressOf(proc[s])))
        BY <2>2 DEF SvcHandle
      <3>2. SvcMsg(s, state) \o ProgressMsg(ProgressOf(proc[s])) \in Seq(Messages')
        <4>1. SvcMsg(s, state) \in Seq(Messages') /\ ProgressMsg(ProgressOf(proc[s])) \in Seq(Messages')
          <5>1. ProgressOf(proc[s]) \in Int
            BY <3>1, ServiceMessages
          <5>2. \A n \in Int : ProgressMsg(n) \in Seq(Messages')
            BY ServiceMessages
          <5>3. \A o \in Told : SvcMsg(s, o) \in Seq(Messages')
            BY ServiceMessages
          <5>4. state \in Told
            BY DEF Told
          <5> QED BY <5>1, <5>2, <5>3, <5>4
        <4> QED BY <4>1
      <3> QED BY <1>3, <3>1, <3>2, SendKeeps
    <2>3. CASE HookDone(s) /\ pipe' # pipe
      <3>1. Send(SvcMsg(s, Outcome(s)))
        BY <2>3 DEF HookDone
      <3>2. SvcMsg(s, Outcome(s)) \in Seq(Messages')
        <4>1. Outcome(s) \in Told
          BY DEF Outcome, Told
        <4>2. \A o \in Told : SvcMsg(s, o) \in Seq(Messages')
          BY ServiceMessages
        <4> QED BY <4>1, <4>2
      <3> QED BY <1>3, <3>1, <3>2, SendKeeps
    <2> QED BY <2>1, <2>2, <2>3 DEF OneScript, Begin, Wake, HookNow, ReadState, RunService, HookOut
  <1>5. phase = "boot" /\ XStarted => XStarted'
    BY <1>2, XStays
  <1> QED BY <1>1, <1>4, <1>5 DEF ConsoleInv, Alive

\* What splash_stop sends is said when rc is about to leave the boot.
LEMMA ExitMessages ==
  ASSUME phase' = "boot", level' \in {"exit", "over"}, XStarted' = XStarted
  PROVE  ExitMsg \in Seq(Messages') /\ ProgressMsg(Max) \o ExitMsg \in Seq(Messages')
  <1>1. /\ [cmd |-> IF XStarted THEN "staysilent" ELSE "exit", svc |-> None, arg |-> None] \in Messages'
        /\ [cmd |-> "progress", svc |-> None, arg |-> Max] \in Messages'
    BY BootAssumption DEF Messages
  <1> HIDE DEF Messages
  <1>2. ExitMsg \in Seq(Messages') /\ ProgressMsg(Max) \in Seq(Messages')
    BY <1>1 DEF ExitMsg, Msg, ProgressMsg
  <1> QED BY <1>2

\* The hooks of rc: cache, daemon and console fit together.
LEMMA RcConsole ==
  ASSUME ScriptsInv, ConsoleInv,
         SplashStart \/ EnterDefault \/ EndBoot \/ Abort \/ StopFinish \/ EndShutdown
  PROVE  ConsoleInv'
  <1> USE DEF ScriptsInv, ConsoleInv, Alive, CheckDaemon
  <1>1. [Next]_vars /\ phase' = phase /\ XStarted' = XStarted
    BY RestUntouched DEF Next, svcVars, XStarted
  <1>2. level \in {"exit", "over"} => level' \in {"exit", "over"}
    BY DEF SplashStart, EnterDefault, EndBoot, Abort, StopFinish, EndShutdown
  <1>3. pipe \in Seq(Messages')
    BY <1>1, <1>2, MessagesStay
  <1>4. CASE SplashStart
    <2>1. CASE StartFails
      <3>1. pipe' = pipe /\ daemon' = daemon /\ tty' = "verbose" /\ cache' \in {0, 1}
            /\ level' = phase /\ level = "before"
        BY <1>4, <2>1 DEF SplashStart, StartFails, SetVerbose
      <3> QED BY <1>1, <1>3, <3>1 DEF Types
    <2>2. CASE StartSucceeds
      <3>1. /\ [cmd |-> "services", svc |-> None, arg |-> None] \in Messages'
            /\ [cmd |-> "silent", svc |-> None, arg |-> None] \in Messages'
        BY DEF Messages
      <3>2. pipe' \in Seq(Messages')
        BY <2>2, <3>1 DEF StartSucceeds, Msg
      <3>3. daemon' = "running" /\ cache' = 1 /\ level' = phase
        BY <1>4, <2>2 DEF SplashStart, StartSucceeds
      <3> QED BY <1>1, <3>2, <3>3 DEF Types
    <2> QED BY <1>4, <2>1, <2>2 DEF SplashStart
  <1>5. CASE EnterDefault
    <2>1. UNCHANGED <<pipe, cache, daemon, tty>> /\ level' = "default" /\ level = "boot"
      BY <1>5 DEF EnterDefault, splashVars
    <2> QED BY <1>1, <1>3, <2>1
  <1>6. CASE EndBoot
    <2>1. /\ UNCHANGED <<cache, daemon, tty>> /\ level = "default"
          /\ level' = IF CheckDaemon THEN "exit" ELSE "over"
      BY <1>6 DEF EndBoot, splashVars
    <2>2. phase = "boot"
      BY <2>1 DEF Types
    <2>3. ProgressMsg(Max) \o ExitMsg \in Seq(Messages')
      BY <1>1, <2>1, <2>2, ExitMessages
    <2>4. pipe' \in Seq(Messages')
      BY <1>3, <1>6, <2>3, SendKeeps DEF EndBoot
    <2> QED BY <1>1, <2>1, <2>2, <2>4
  <1>7. CASE Abort
    <2>1. UNCHANGED <<cache, daemon, tty>> /\ level \in {"boot", "default"} /\ level' = "exit"
      BY <1>7 DEF Abort, splashVars
    <2>2. phase = "boot"
      BY <2>1 DEF Types
    <2>3. pipe' \in Seq(Messages')
      BY <1>1, <1>3, <1>7, <2>1, <2>2, ExitMessages, SendKeeps DEF Abort
    <2> QED BY <1>1, <2>1, <2>2, <2>3
  <1>8. CASE StopFinish
    <2>1. /\ pipe' = pipe /\ daemon' = daemon /\ level = "exit" /\ level' = "over"
          /\ tty' \in {tty, "verbose"} /\ cache' = 0
      BY <1>8 DEF StopFinish, SetVerbose, CacheCleanup
    <2> QED BY <1>1, <1>3, <2>1
  <1>9. CASE EndShutdown
    <2>1. /\ UNCHANGED <<daemon, tty>> /\ level = "shutdown" /\ level' = "over"
          /\ cache' = IF CheckDaemon THEN 0 ELSE cache
      BY <1>9 DEF EndShutdown, CacheCleanup
    <2>2. [cmd |-> "progress", svc |-> None, arg |-> Max] \in Messages'
      BY BootAssumption DEF Messages
    <2>3. ProgressMsg(Max) \in Seq(Messages')
      BY <2>2 DEF ProgressMsg
    <2>4. pipe' \in Seq(Messages')
      BY <1>3, <1>9, <2>3, SendKeeps DEF EndShutdown
    <2> QED BY <1>1, <2>1, <2>4
  <1> QED BY <1>4, <1>5, <1>6, <1>7, <1>8, <1>9

\* fbsplashd, F2 and X: the daemon leaves the console verbose, or to X.
LEMMA DaemonConsole ==
  ASSUME ScriptsInv, ConsoleInv, Command \/ DaemonEnds \/ ConsoleSwitched \/ UNCHANGED vars
  PROVE  ConsoleInv'
  <1> USE DEF ScriptsInv, ConsoleInv, Alive
  <1>1. [Next]_vars /\ UNCHANGED <<phase, level, cache>> /\ XStarted' = XStarted
    BY RestUntouched DEF Next, svcVars, XStarted, Command, DaemonEnds, ConsoleSwitched, vars, rcVars,
                         splashVars
  <1>2. pipe \in Seq(Messages')
    BY <1>1, MessagesStay
  <1>3. CASE Command
    <2> DEFINE m == Head(pipe)
    <2>1. pipe # <<>> /\ pipe' = Tail(pipe) /\ daemon = "running" /\ Obey(m)
      BY <1>3 DEF Command
    <2>2. m \in Messages /\ pipe' \in Seq(Messages')
      <3> HIDE DEF Messages
      <3> QED BY <1>2, <2>1
    <2>3. CASE m.cmd \in {"services", "silent", "update_svc", "progress"}
      <3>1. daemon' = daemon
        BY <2>1, <2>3 DEF Obey
      <3> QED BY <1>1, <2>1, <2>2, <3>1
    <2>4. CASE m.cmd \in {"exit", "staysilent"}
      <3>1. daemon' = "leaving" /\ tty' = IF tty = "silent" /\ m.cmd = "exit" THEN "verbose" ELSE tty
        BY <2>1, <2>4 DEF Obey
      <3>2. level \in {"exit", "over"} /\ (m.cmd = "staysilent" => XStarted)
        BY <2>2, <2>4 DEF Messages
      <3> QED BY <1>1, <2>1, <2>2, <2>4, <3>1, <3>2
    <2> QED BY <2>2, <2>3, <2>4 DEF Messages
  <1>4. CASE DaemonEnds
    <2>1. /\ pipe' = <<>> /\ tty' = tty
          /\ (daemon = "leaving" /\ daemon' = "gone") \/ (daemon = "running" /\ daemon' = "killed")
      BY <1>4 DEF DaemonEnds
    <2> QED BY <1>1, <2>1
  <1>5. CASE ConsoleSwitched
    <2>1. /\ pipe' = pipe /\ daemon' = daemon
          /\ daemon = "running" \/ tty' = "x"
      BY <1>5 DEF ConsoleSwitched, splashVars
    <2> QED BY <1>1, <1>2, <2>1
  <1>6. CASE UNCHANGED vars
    BY <1>1, <1>2, <1>6 DEF vars, splashVars
  <1> QED BY <1>3, <1>4, <1>5, <1>6

-----------------------------------------------------------------------------
(* What fbsplashd shows                                                    *)

SvcRec(s, e) == [cmd |-> "update_svc", svc |-> s, arg |-> e]

\* A message after which something else is shown of service s.
About(m, s) == m.cmd = "services" \/ (m.cmd = "update_svc" /\ m.svc = s)

\* When fbsplashd has read all messages it shows e of service s.
Latest(s, e) ==
  \/ shown[s] = e /\ \A j \in 1..Len(pipe) : ~About(pipe[j], s)
  \/ \E i \in 1..Len(pipe) : pipe[i] = SvcRec(s, e) /\ \A j \in i+1..Len(pipe) : ~About(pipe[j], s)

Expected(s) == IF s \in sched THEN "svc_start" ELSE Outcome(s)

Reported(s) == daemon = "running" /\ level # "over" /\ handled[s] = 1 /\ proc[s].pc \in {"idle", "out"}

ShownInv ==
  /\ DOMAIN shown = Services /\ shown = [s \in Services |-> shown[s]]
  /\ \A s \in Services :
       /\ level = "before" => handled[s] = 0 /\ proc[s].pc # "read"
       /\ proc[s].pc = "read" /\ proc[s].skip => s \in sched
       /\ Reported(s) => Latest(s, Expected(s))

\* Messages about other things change nothing for a service.
LEMMA LatestBehind ==
  ASSUME NEW M, pipe \in Seq(M), NEW msgs \in Seq(M), NEW s, NEW e,
         \A j \in 1..Len(msgs) : ~About(msgs[j], s),
         Send(msgs), shown' = shown, Latest(s, e)
  PROVE  Latest(s, e)'
  <1>1. CASE pipe' = pipe
    BY <1>1 DEF Latest
  <1>2. CASE pipe' = pipe \o msgs
    <2>1. /\ Len(pipe) \in Nat /\ Len(msgs) \in Nat /\ Len(pipe') = Len(pipe) + Len(msgs)
          /\ \A j \in 1..Len(pipe) : pipe'[j] = pipe[j]
          /\ \A j \in Len(pipe)+1..Len(pipe') : pipe'[j] = msgs[j - Len(pipe)]
      BY <1>2
    <2>2. \A j \in Len(pipe)+1..Len(pipe') : ~About(pipe'[j], s)
      BY <2>1
    <2> HIDE DEF About
    <2>3. \A k \in 0..Len(pipe) : (\A j \in k+1..Len(pipe) : ~About(pipe[j], s))
                                    => \A j \in k+1..Len(pipe') : ~About(pipe'[j], s)
      BY <2>1, <2>2
    <2>4. CASE shown[s] = e /\ \A j \in 1..Len(pipe) : ~About(pipe[j], s)
      <3>1. 0 \in 0..Len(pipe) /\ 0 + 1 = 1
        BY <2>1
      <3>2. \A j \in 1..Len(pipe') : ~About(pipe'[j], s)
        BY <2>3, <2>4, <3>1
      <3> QED BY <2>4, <3>2 DEF Latest
    <2>5. CASE \E i \in 1..Len(pipe) : pipe[i] = SvcRec(s, e)
                                         /\ \A j \in i+1..Len(pipe) : ~About(pipe[j], s)
      <3>1. PICK i \in 1..Len(pipe) : pipe[i] = SvcRec(s, e)
                                        /\ \A j \in i+1..Len(pipe) : ~About(pipe[j], s)
        BY <2>5
      <3>2. i \in 0..Len(pipe) /\ i \in 1..Len(pipe') /\ pipe'[i] = SvcRec(s, e)
        BY <2>1, <3>1
      <3>3. \A j \in i+1..Len(pipe') : ~About(pipe'[j], s)
        BY <2>3, <3>1, <3>2
      <3> QED BY <3>2, <3>3 DEF Latest, SvcRec
    <2> QED BY <2>4, <2>5 DEF Latest
  <1> QED BY <1>1, <1>2 DEF Send

\* A message about a service, with others behind it, is what counts.
LEMMA LatestSent ==
  ASSUME NEW M, pipe \in Seq(M), NEW msgs \in Seq(M), NEW s, NEW e,
         msgs # <<>>, msgs[1] = SvcRec(s, e), \A j \in 2..Len(msgs) : ~About(msgs[j], s),
         Send(msgs), CheckDaemon
  PROVE  Latest(s, e)'
  <1> DEFINE i == Len(pipe) + 1
  <1>1. /\ Len(pipe) \in Nat /\ Len(msgs) \in Nat \ {0} /\ Len(pipe') = Len(pipe) + Len(msgs)
        /\ \A j \in Len(pipe)+1..Len(pipe') : pipe'[j] = msgs[j - Len(pipe)]
    BY DEF Send
  <1>2. i \in 1..Len(pipe') /\ pipe'[i] = SvcRec(s, e)
    BY <1>1
  <1>3. \A j \in i+1..Len(pipe') : ~About(pipe'[j], s)
    <2>1. \A j \in i+1..Len(pipe') : pipe'[j] = msgs[j - Len(pipe)] /\ j - Len(pipe) \in 2..Len(msgs)
      BY <1>1
    <2> QED BY <2>1
  <1> QED BY <1>2, <1>3 DEF Latest, SvcRec

\* Reading a message brings fbsplashd nearer to what it will show.
LEMMA LatestRead ==
  ASSUME NEW M, pipe \in Seq(M), ShownInv, NEW s \in Services, NEW e, Command, Latest(s, e),
         Head(pipe).cmd \in {"services", "silent", "update_svc", "progress", "exit", "staysilent"}
  PROVE  Latest(s, e)'
  <1> DEFINE m == Head(pipe)
  <1>1. pipe # <<>> /\ pipe' = Tail(pipe) /\ Obey(m)
    BY DEF Command
  <1>2. /\ Len(pipe) \in Nat \ {0} /\ Len(pipe') = Len(pipe) - 1 /\ m = pipe[1]
        /\ \A j \in 1..Len(pipe') : pipe'[j] = pipe[j + 1]
    BY <1>1
  <1>3. ~About(m, s) => shown'[s] = shown[s]
    BY <1>1 DEF About, Obey, ShownInv
  <1>4. m = SvcRec(s, e) => shown'[s] = e
    <2> HAVE m = SvcRec(s, e)
    <2>1. m.cmd = "update_svc" /\ m.svc = s /\ m.arg = e
      BY DEF SvcRec
    <2>2. shown' = [shown EXCEPT ![m.svc] = m.arg]
      BY <1>1, <2>1 DEF Obey
    <2> HIDE DEF m
    <2> QED BY <2>1, <2>2 DEF ShownInv
  <1> HIDE DEF m
  <1>5. CASE shown[s] = e /\ \A j \in 1..Len(pipe) : ~About(pipe[j], s)
    <2>1. ~About(m, s) /\ \A j \in 1..Len(pipe') : ~About(pipe'[j], s)
      <3> HIDE DEF About
      <3>1. 1 \in 1..Len(pipe) /\ \A j \in 1..Len(pipe') : j + 1 \in 1..Len(pipe)
        BY <1>2
      <3> QED BY <1>2, <1>5, <3>1
    <2> QED BY <1>3, <1>5, <2>1 DEF Latest
  <1>6. ASSUME NEW i \in 1..Len(pipe), pipe[i] = SvcRec(s, e),
               \A j \in i+1..Len(pipe) : ~About(pipe[j], s)
        PROVE  Latest(s, e)'
    <2>1. \A j \in i..Len(pipe') : ~About(pipe'[j], s)
      <3>1. \A j \in i..Len(pipe') : j \in 1..Len(pipe') /\ j + 1 \in i+1..Len(pipe)
        BY <1>2
      <3> QED BY <1>2, <1>6, <3>1
    <2>2. CASE i = 1
      BY <1>2, <1>4, <1>6, <2>1, <2>2 DEF Latest
    <2>3. CASE i > 1
      <3> DEFINE k == i - 1
      <3>1. k \in 1..Len(pipe') /\ k + 1 = i
        BY <1>2, <2>3
      <3>2. pipe'[k] = SvcRec(s, e)
        BY <1>2, <1>6, <3>1
      <3> HIDE DEF k
      <3> QED BY <2>1, <3>1, <3>2 DEF Latest, SvcRec
    <2> QED BY <2>2, <2>3
  <1> QED BY <1>5, <1>6 DEF Latest

\* What is to be shown may be named.
LEMMA LatestNamed ==
  ASSUME NEW s \in Services, NEW c
  PROVE  /\ c = Expected(s) => (Latest(s, Expected(s)) <=> Latest(s, c))
         /\ c = Expected(s)' => (Latest(s, Expected(s))' <=> Latest(s, c)')
  BY DEF Latest, SvcRec

\* Messages behind others.
LEMMA ConcatElements ==
  ASSUME NEW M, NEW x \in Seq(M), NEW y \in Seq(M)
  PROVE  /\ x \o y \in Seq(M) /\ Len(x \o y) = Len(x) + Len(y)
         /\ \A j \in 1..Len(x) : (x \o y)[j] = x[j]
         /\ \A j \in 1..Len(y) : (x \o y)[Len(x) + j] = y[j]
  OBVIOUS

\* One message behind another.
LEMMA ConcatTwo ==
  ASSUME NEW M, NEW x \in Seq(M), NEW y \in Seq(M), Len(x) = 1, Len(y) = 1
  PROVE  /\ x \o y \in Seq(M) /\ Len(x \o y) = 2 /\ x \o y # <<>>
         /\ (x \o y)[1] = x[1] /\ (x \o y)[2] = y[1]
         /\ \A j \in 1..Len(x \o y) : j = 1 \/ j = 2
  <1> DEFINE q == x \o y
  <1>1. /\ q \in Seq(M) /\ Len(q) = Len(x) + Len(y)
        /\ \A j \in 1..Len(x) : q[j] = x[j]
        /\ \A j \in 1..Len(y) : q[Len(x) + j] = y[j]
    BY ConcatElements
  <1> HIDE DEF q
  <1>2. 1 \in 1..Len(x) /\ 1 \in 1..Len(y) /\ Len(x) + 1 = 2
    OBVIOUS
  <1>3. q \in Seq(M) /\ Len(q) = 2 /\ q[1] = x[1] /\ q[2] = y[1]
    BY <1>1, <1>2
  <1>4. Len(<<>>) = 0 /\ 0 # 2 /\ \A j \in 1..2 : j = 1 \/ j = 2
    OBVIOUS
  <1>5. q # <<>>
    BY <1>3, <1>4
  <1>6. 1..Len(q) = 1..2
    BY <1>3
  <1> QED BY <1>3, <1>4, <1>5, <1>6 DEF q

\* The two messages of splash_svc_handle.
LEMMA TwoMessages ==
  ASSUME NEW M, NEW t, NEW state, NEW n,
         SvcMsg(t, state) \in Seq(M), ProgressMsg(n) \in Seq(M)
  PROVE  LET msgs == SvcMsg(t, state) \o ProgressMsg(n)
         IN  /\ msgs \in Seq(M) /\ msgs # <<>> /\ Len(msgs) = 2 /\ msgs[1] = SvcRec(t, state)
             /\ \A j \in 1..Len(msgs) :
                  msgs[j].cmd \in {"update_svc", "progress"} /\ msgs[j].svc \in {t, None}
                    /\ (msgs[j].cmd = "update_svc" => msgs[j].svc = t)
             /\ msgs[2].cmd = "progress"
  <1> DEFINE x == SvcMsg(t, state)
             y == ProgressMsg(n)
             msgs == x \o y
  <1>1. Len(x) = 1 /\ x[1] = SvcRec(t, state) /\ Len(y) = 1 /\ y[1].cmd = "progress" /\ y[1].svc = None
    BY DEF SvcMsg, ProgressMsg, SvcRec
  <1> HIDE DEF x, y
  <1>2. x \in Seq(M) /\ y \in Seq(M)
    BY DEF x, y
  <1>3. /\ msgs \in Seq(M) /\ Len(msgs) = 2 /\ msgs[1] = x[1] /\ msgs[2] = y[1] /\ msgs # <<>>
        /\ \A j \in 1..Len(msgs) : j = 1 \/ j = 2
    BY <1>1, <1>2, ConcatTwo
  <1> HIDE DEF msgs
  <1>4. msgs[1].cmd = "update_svc" /\ msgs[1].svc = t
    BY <1>1, <1>3 DEF SvcRec
  <1>5. \A j \in 1..Len(msgs) :
          msgs[j].cmd \in {"update_svc", "progress"} /\ msgs[j].svc \in {t, None}
            /\ (msgs[j].cmd = "update_svc" => msgs[j].svc = t)
    BY <1>1, <1>3, <1>4
  <1> QED BY <1>1, <1>3, <1>5 DEF msgs, x, y

\* A script sends messages about its own service only.
LEMMA ScriptSends ==
  ASSUME ScriptsInv, NEW t \in Services, OneScript(t), pipe' # pipe
  PROVE  \E msgs \in Seq(Messages') :
           Send(msgs) /\ \A j \in 1..Len(msgs) :
             msgs[j].cmd \in {"update_svc", "progress"} /\ msgs[j].svc \in {t, None}
               /\ (msgs[j].cmd = "update_svc" => msgs[j].svc = t)
  <1> USE DEF ScriptsInv
  <1>1. CASE SvcHandle(t)
    <2>1. PICK state \in Told :
            Reports(t) /\ Send(SvcMsg(t, state) \o ProgressMsg(ProgressOf(proc[t])))
      BY <1>1 DEF SvcHandle, Told
    <2>2. SvcMsg(t, state) \in Seq(Messages') /\ ProgressMsg(ProgressOf(proc[t])) \in Seq(Messages')
      <3>1. ProgressOf(proc[t]) \in Int
        BY <2>1, ServiceMessages
      <3>2. \A n \in Int : ProgressMsg(n) \in Seq(Messages')
        BY ServiceMessages
      <3>3. \A o \in Told : SvcMsg(t, o) \in Seq(Messages')
        BY ServiceMessages
      <3> QED BY <3>1, <3>2, <3>3
    <2> DEFINE msgs == SvcMsg(t, state) \o ProgressMsg(ProgressOf(proc[t]))
    <2>3. /\ msgs \in Seq(Messages')
          /\ \A j \in 1..Len(msgs) :
               msgs[j].cmd \in {"update_svc", "progress"} /\ msgs[j].svc \in {t, None}
                 /\ (msgs[j].cmd = "update_svc" => msgs[j].svc = t)
      BY <2>2, TwoMessages
    <2>4. Send(msgs)
      BY <2>1
    <2> HIDE DEF msgs
    <2> QED BY <2>3, <2>4
  <1>2. CASE HookDone(t)
    <2>1. Send(SvcMsg(t, Outcome(t))) /\ Outcome(t) \in Told
      BY <1>2 DEF HookDone, Outcome, Told
    <2>2. SvcMsg(t, Outcome(t)) \in Seq(Messages')
      BY <2>1, ServiceMessages
    <2>3. Len(SvcMsg(t, Outcome(t))) = 1 /\ SvcMsg(t, Outcome(t))[1].cmd = "update_svc"
          /\ SvcMsg(t, Outcome(t))[1].svc = t
      BY DEF SvcMsg
    <2> QED BY <2>1, <2>2, <2>3
  <1> QED BY <1>1, <1>2 DEF OneScript, Begin, Wake, HookNow, ReadState, RunService, HookOut

\* What fbsplashd is to show of the services a step does not touch.
LEMMA OthersShown ==
  ASSUME ShownInv, NEW s \in Services, Untouched(s), UNCHANGED shown, Reported(s)' => Reported(s),
         pipe \in Seq(Messages'),
         \/ pipe' = pipe
         \/ \E msgs \in Seq(Messages') : Send(msgs) /\ \A j \in 1..Len(msgs) : ~About(msgs[j], s)
  PROVE  Reported(s)' => Latest(s, Expected(s))'
  <1> SUFFICES ASSUME Reported(s)' PROVE Latest(s, Expected(s))'
    OBVIOUS
  <1>1. PICK c : c = Expected(s)
    OBVIOUS
  <1>2. Expected(s)' = c
    BY <1>1 DEF Untouched, Expected, Outcome
  <1>3. Latest(s, c)
    BY <1>1, LatestNamed DEF ShownInv
  <1>4. Latest(s, c)'
    <2>1. CASE pipe' = pipe
      BY <1>3, <2>1 DEF Latest
    <2>2. ASSUME NEW msgs \in Seq(Messages'), Send(msgs), \A j \in 1..Len(msgs) : ~About(msgs[j], s)
          PROVE  Latest(s, c)'
      BY <1>3, <2>2, LatestBehind
    <2> QED BY <2>1, <2>2
  <1> QED BY <1>2, <1>4, LatestNamed

\* What the script of one service sends says nothing of the others, and the
\* last that it said of its own is what became of it.
LEMMA ScriptShown ==
  ASSUME ScriptsInv, ConsoleInv, ShownInv, NEW t \in Services, OneScript(t), ScriptsInv'
  PROVE  ShownInv'
  <1>1. UNCHANGED <<phase, level, cache, daemon, shown>>
    BY DEF OneScript, Begin, Wake, HookNow, ReadState, SvcHandle, RunService, HookDone, HookOut,
           rcVars, splashVars
  <1>2. pipe \in Seq(Messages')
    <2>1. [Next]_vars
      BY DEF Next, OneScript
    <2> QED BY <1>1, <2>1, MessagesStay DEF ConsoleInv
  <1>3. ASSUME NEW s \in Services, s # t
        PROVE  /\ level' = "before" => handled'[s] = 0 /\ proc'[s].pc # "read"
               /\ proc'[s].pc = "read" /\ proc'[s].skip => s \in sched'
               /\ Reported(s)' => Latest(s, Expected(s))'
    <2>1. Untouched(s)
      BY <1>3, OthersUntouched DEF ScriptsInv
    <2>2. Reported(s)' => Reported(s)
      BY <1>1, <2>1 DEF Reported, Untouched
    <2>3. \/ pipe' = pipe
          \/ \E msgs \in Seq(Messages') : Send(msgs) /\ \A j \in 1..Len(msgs) : ~About(msgs[j], s)
      BY <1>3, ScriptSends DEF About
    <2>4. Reported(s)' => Latest(s, Expected(s))'
      BY <1>1, <1>2, <2>1, <2>2, <2>3, OthersShown
    <2> QED BY <1>1, <2>1, <2>4 DEF ShownInv, Untouched
  <1>4. /\ level' = "before" => handled'[t] = 0 /\ proc'[t].pc # "read"
        /\ proc'[t].pc = "read" /\ proc'[t].skip => t \in sched'
        /\ Reported(t)' => Latest(t, Expected(t))'
    <2> USE DEF ScriptsInv, ShownInv
    <2>1. Counted(t) /\ Types /\ proc \in [Services -> Scripts] /\ handled \in [Services -> Nat]
      BY DEF Types
    <2>2. CASE Begin(t)
      <3>1. proc'[t].pc \in {"now", "out"} /\ handled' = handled /\ handled[t] = 0
        BY <2>1, <2>2, GotoType DEF Begin, Counted
      <3> QED BY <1>1, <3>1 DEF Reported
    <2>3. CASE Wake(t)
      <3>1. proc'[t].pc = "now" /\ handled' = handled
        BY <2>1, <2>3, GotoType DEF Wake
      <3> QED BY <1>1, <3>1 DEF Reported
    <2>4. CASE HookNow(t)
      <3>1. handled' = handled
        BY <2>4 DEF HookNow
      <3>2. CASE Goto(t, "run")
        <4>1. proc'[t].pc = "run"
          BY <2>1, <3>2, GotoType
        <4> QED BY <1>1, <3>1, <4>1 DEF Reported
      <3>3. CASE Acts /\ proc' = [proc EXCEPT ![t] = ReadFrom(FALSE)]
        <4>1. proc'[t].pc = "read" /\ ~proc'[t].skip
          BY <2>1, <3>3, ReadFromType
        <4>2. level # "before"
          BY <3>3 DEF Acts
        <4> QED BY <1>1, <4>1, <4>2 DEF Reported
      <3> QED BY <2>4, <3>2, <3>3 DEF HookNow
    <2>5. CASE ReadState(t)
      <3>1. handled' = handled /\ proc'[t].pc = "read" /\ proc'[t].skip = proc[t].skip
            /\ proc[t].pc = "read" /\ sched' = sched
        BY <2>1, <2>5, ReadStateEffect DEF ReadState, svcVars
      <3> QED BY <1>1, <3>1 DEF Reported
    <2>6. CASE SvcHandle(t)
      <3>1. level # "before" /\ sched' = sched /\ proc[t].pc = "read"
        BY <2>6 DEF SvcHandle
      <3>2. CASE ~proc[t].skip
        <4>1. proc'[t].pc = "run"
          BY <2>1, <2>6, <3>2, GotoType DEF SvcHandle
        <4> QED BY <1>1, <3>1, <4>1 DEF Reported
      <3>3. CASE proc[t].skip
        <4>1. proc'[t].pc = "idle"
          BY <2>1, <2>6, <3>3, GotoType DEF SvcHandle, Leave
        <4>2. t \in sched /\ phase = "boot" /\ handled[t] = 0
          BY <2>1, <3>1, <3>3 DEF Counted
        <4>3. ASSUME Reported(t)' PROVE Latest(t, Expected(t))'
          <5>1. Reports(t) /\ Send(SvcMsg(t, "svc_start") \o ProgressMsg(ProgressOf(proc[t])))
            <6>1. handled'[t] = 1
              BY <4>3 DEF Reported
            <6>2. handled' # handled
              BY <4>2, <6>1
            <6> QED BY <2>6, <4>2, <6>2 DEF SvcHandle
          <5>2. SvcMsg(t, "svc_start") \in Seq(Messages')
                /\ ProgressMsg(ProgressOf(proc[t])) \in Seq(Messages')
            <6>1. ProgressOf(proc[t]) \in Int
              BY <2>1, <5>1, ServiceMessages
            <6>2. \A n \in Int : ProgressMsg(n) \in Seq(Messages')
              BY <2>1, ServiceMessages
            <6>3. \A o \in Told : SvcMsg(t, o) \in Seq(Messages')
              BY <2>1, ServiceMessages
            <6>4. "svc_start" \in Told
              BY DEF Told
            <6> QED BY <6>1, <6>2, <6>3, <6>4
          <5>3. CheckDaemon
            BY <1>1, <4>3 DEF Reported, ConsoleInv, Alive, CheckDaemon
          <5> DEFINE msgs == SvcMsg(t, "svc_start") \o ProgressMsg(ProgressOf(proc[t]))
          <5>4. /\ msgs \in Seq(Messages') /\ msgs # <<>> /\ Len(msgs) = 2
                /\ msgs[1] = SvcRec(t, "svc_start") /\ msgs[2].cmd = "progress" /\ Send(msgs)
            BY <5>1, <5>2, TwoMessages
          <5> HIDE DEF msgs
          <5>5. \A j \in 2..Len(msgs) : ~About(msgs[j], t)
            <6>1. \A j \in 2..Len(msgs) : j = 2
              BY <5>4
            <6> QED BY <5>4, <6>1 DEF About
          <5>6. Latest(t, "svc_start")'
            BY <1>2, <5>3, <5>4, <5>5, LatestSent
          <5>7. "svc_start" = Expected(t)'
            BY <3>1, <4>2 DEF Expected
          <5> QED BY <5>6, <5>7, LatestNamed
        <4> QED BY <1>1, <3>1, <4>1, <4>3
      <3> QED BY <3>2, <3>3
    <2>7. CASE RunService(t)
      <3>1. proc'[t].pc = "done" /\ handled' = handled
        BY <2>1, <2>7, GotoType DEF RunService
      <3> QED BY <1>1, <3>1 DEF Reported
    <2>8. CASE HookDone(t)
      <3>1. proc'[t].pc = "out" /\ proc[t].pc = "done" /\ UNCHANGED <<handled, sched, st>>
        BY <2>1, <2>8, GotoType DEF HookDone, svcVars
      <3>2. ASSUME Reported(t)' PROVE Latest(t, Expected(t))'
        <4>1. handled[t] = 1 /\ level # "before" /\ level # "over" /\ daemon = "running"
          BY <1>1, <3>1, <3>2 DEF Reported
        <4>2. CheckDaemon /\ Acts
          BY <4>1 DEF ConsoleInv, Alive, CheckDaemon, Acts
        <4>3. Send(SvcMsg(t, Outcome(t)))
          BY <2>8, <4>2 DEF HookDone
        <4>4. PICK c \in Told : c = Outcome(t)
          BY DEF Outcome, Told
        <4>5. SvcMsg(t, c) \in Seq(Messages') /\ Send(SvcMsg(t, c))
          BY <2>1, <4>3, <4>4, ServiceMessages
        <4>6. Len(SvcMsg(t, c)) = 1 /\ SvcMsg(t, c) # <<>> /\ SvcMsg(t, c)[1] = SvcRec(t, c)
          BY DEF SvcMsg, SvcRec
        <4>7. \A j \in 2..Len(SvcMsg(t, c)) : ~About(SvcMsg(t, c)[j], t)
          BY <4>6
        <4>8. Latest(t, c)'
          BY <1>2, <4>2, <4>5, <4>6, <4>7, LatestSent
        <4>9. c = Expected(t)'
          BY <1>1, <2>1, <3>1, <4>4 DEF Expected, Outcome, Counted
        <4> QED BY <4>8, <4>9, LatestNamed
      <3> QED BY <1>1, <3>1, <3>2
    <2>9. CASE HookOut(t)
      <3>1. proc[t].pc = "out" /\ UNCHANGED <<handled, sched, st, pipe>>
        BY <2>9 DEF HookOut
      <3>2. CASE Goto(t, "idle")
        <4>1. proc'[t].pc = "idle"
          BY <2>1, <3>2, GotoType
        <4>2. ASSUME Reported(t)' PROVE Latest(t, Expected(t))'
          <5>1. Reported(t)
            BY <1>1, <3>1, <4>2 DEF Reported
          <5>2. PICK c : c = Expected(t)
            OBVIOUS
          <5>3. Latest(t, c)
            BY <5>1, <5>2, LatestNamed
          <5>4. Latest(t, c)'
            BY <1>1, <3>1, <5>3 DEF Latest
          <5>5. c = Expected(t)'
            BY <1>1, <3>1, <5>2 DEF Expected, Outcome
          <5> QED BY <5>4, <5>5, LatestNamed
        <4> QED BY <1>1, <3>1, <4>1, <4>2
      <3>3. CASE Acts /\ t \in sched /\ proc' = [proc EXCEPT ![t] = ReadFrom(TRUE)]
        <4>1. proc'[t].pc = "read"
          BY <2>1, <3>3, ReadFromType
        <4>2. level # "before"
          BY <3>3 DEF Acts
        <4> QED BY <1>1, <3>1, <3>3, <4>1, <4>2 DEF Reported
      <3> QED BY <2>9, <3>2, <3>3 DEF HookOut, Leave
    <2> QED BY <2>2, <2>3, <2>4, <2>5, <2>6, <2>7, <2>8, <2>9 DEF OneScript
  <1> QED BY <1>1, <1>3, <1>4 DEF ShownInv

\* Before anything happened.
LEMMA InitShown == Init => ShownInv
  BY DEF Init, ShownInv, NoHook, Reported

\* rc's hooks say nothing of services; fbsplashd reads what was said.
LEMMA RestShown ==
  ASSUME ScriptsInv, ConsoleInv, ShownInv, [Next]_vars,
         SplashStart \/ EnterDefault \/ EndBoot \/ Abort \/ StopFinish \/ EndShutdown
           \/ Command \/ DaemonEnds \/ ConsoleSwitched \/ UNCHANGED vars
  PROVE  ShownInv'
  <1>1. /\ \A s \in Services : Untouched(s)
        /\ UNCHANGED <<phase, left, svcVars, proc, handled>>
    BY RestUntouched DEF ScriptsInv
  <1>2. level' = "before" => level = "before"
    BY DEF SplashStart, EnterDefault, EndBoot, Abort, StopFinish, EndShutdown, Command, DaemonEnds,
           ConsoleSwitched, vars, rcVars, ScriptsInv, Types
  <1>3. \A s \in Services : /\ level' = "before" => handled'[s] = 0 /\ proc'[s].pc # "read"
                            /\ proc'[s].pc = "read" /\ proc'[s].skip => s \in sched'
    BY <1>1, <1>2 DEF ShownInv, Untouched
  <1>4. CASE SplashStart
    <2>1. shown' = shown /\ level = "before"
      BY <1>4 DEF SplashStart
    <2>2. \A s \in Services : ~Reported(s)'
      BY <1>1, <2>1 DEF Reported, ShownInv
    <2> QED BY <1>3, <2>1, <2>2 DEF ShownInv
  <1>5. CASE EnterDefault \/ EndBoot \/ Abort \/ EndShutdown \/ ConsoleSwitched \/ UNCHANGED vars
    <2>1. UNCHANGED <<shown, daemon>> /\ (level = "over" => level' = "over")
      BY <1>5 DEF EnterDefault, EndBoot, Abort, EndShutdown, ConsoleSwitched, vars, splashVars, rcVars
    <2>2. level \in {"exit", "over"} => level' \in {"exit", "over"}
      BY <1>5 DEF EnterDefault, EndBoot, Abort, EndShutdown, ConsoleSwitched, vars, rcVars
    <2>3. pipe \in Seq(Messages')
      BY <2>2, MessagesStay DEF ConsoleInv
    <2>4. \/ pipe' = pipe
          \/ \E msgs \in Seq(Messages') :
               Send(msgs) /\ \A s \in Services : \A j \in 1..Len(msgs) : ~About(msgs[j], s)
      <3> DEFINE P(msgs) == msgs \in Seq(Messages')
                              /\ \A s \in Services : \A j \in 1..Len(msgs) : ~About(msgs[j], s)
      <3>1. P(ProgressMsg(Max))
        <4>1. [cmd |-> "progress", svc |-> None, arg |-> Max] \in Messages'
          BY BootAssumption DEF Messages
        <4>2. Len(ProgressMsg(Max)) = 1 /\ ProgressMsg(Max)[1].cmd = "progress"
          BY DEF ProgressMsg
        <4>3. ProgressMsg(Max) \in Seq(Messages')
          <5> HIDE DEF Messages
          <5> QED BY <4>1 DEF ProgressMsg
        <4> QED BY <4>2, <4>3 DEF About
      <3>2. CASE EndBoot \/ Abort
        <4>1. level \in {"boot", "default"} /\ level' \in {"exit", "over"} /\ XStarted' = XStarted
          BY <1>1, <3>2 DEF EndBoot, Abort, XStarted, svcVars
        <4>2. phase' = "boot"
          BY <1>1, <4>1 DEF ScriptsInv, Types
        <4>3. ExitMsg \in Seq(Messages') /\ ProgressMsg(Max) \o ExitMsg \in Seq(Messages')
          BY <4>1, <4>2, ExitMessages
        <4>4. Len(ExitMsg) = 1 /\ ExitMsg[1].cmd \in {"exit", "staysilent"}
          BY DEF ExitMsg, Msg
        <4>5. P(ExitMsg)
          BY <4>3, <4>4 DEF About
        <4>6. P(ProgressMsg(Max) \o ExitMsg)
          <5> DEFINE q == ProgressMsg(Max) \o ExitMsg
          <5>1. /\ ProgressMsg(Max) \in Seq(Messages') /\ Len(ProgressMsg(Max)) = 1
                /\ ProgressMsg(Max)[1].cmd = "progress"
            BY <3>1 DEF ProgressMsg
          <5>2. q[1] = ProgressMsg(Max)[1] /\ q[2] = ExitMsg[1] /\ \A j \in 1..Len(q) : j = 1 \/ j = 2
            BY <4>3, <4>4, <5>1, ConcatTwo
          <5> HIDE DEF q
          <5>3. \A s \in Services : \A j \in 1..Len(q) : ~About(q[j], s)
            BY <4>4, <5>1, <5>2 DEF About
          <5> QED BY <4>3, <5>3 DEF q
        <4> HIDE DEF P
        <4>7. \E msgs : P(msgs) /\ Send(msgs)
          BY <3>2, <4>5, <4>6 DEF EndBoot, Abort
        <4> QED BY <4>7 DEF P
      <3>3. CASE EndShutdown
        <4> HIDE DEF P
        <4>1. P(ProgressMsg(Max)) /\ Send(ProgressMsg(Max))
          BY <3>1, <3>3 DEF EndShutdown
        <4> QED BY <4>1 DEF P
      <3> QED BY <1>5, <3>2, <3>3 DEF EnterDefault, ConsoleSwitched, vars
    <2>5. ASSUME NEW s \in Services PROVE Reported(s)' => Latest(s, Expected(s))'
      <3>1. Reported(s)' => Reported(s)
        BY <1>1, <2>1 DEF Reported
      <3>2. Untouched(s) /\ UNCHANGED shown
        BY <1>1, <2>1
      <3>3. \/ pipe' = pipe
            \/ \E msgs \in Seq(Messages') : Send(msgs) /\ \A j \in 1..Len(msgs) : ~About(msgs[j], s)
        BY <2>4
      <3> QED BY <2>3, <3>1, <3>2, <3>3, OthersShown
    <2> QED BY <1>3, <2>1, <2>5 DEF ShownInv
  <1>6. CASE StopFinish
    <2>1. shown' = shown /\ level' = "over"
      BY <1>6 DEF StopFinish
    <2> QED BY <1>3, <2>1 DEF ShownInv, Reported
  <1>7. CASE DaemonEnds
    <2>1. shown' = [s \in Services |-> "none"] /\ daemon' # "running"
      BY <1>7 DEF DaemonEnds
    <2> QED BY <1>3, <2>1 DEF ShownInv, Reported
  <1>8. CASE Command
    <2> DEFINE m == Head(pipe)
    <2>1. pipe \in Seq(Messages) /\ pipe # <<>> /\ Obey(m) /\ daemon = "running" /\ level' = level
      BY <1>8 DEF Command, ConsoleInv, rcVars
    <2>2. m.cmd \in {"services", "silent", "update_svc", "progress", "exit", "staysilent"}
      <3>1. m \in Messages
        <4> HIDE DEF Messages
        <4> QED BY <2>1
      <3> QED BY <3>1 DEF Messages
    <2>3. DOMAIN shown' = Services /\ shown' = [s \in Services |-> shown'[s]]
      <3>1. \/ shown' = shown \/ shown' = [shown EXCEPT ![m.svc] = m.arg]
            \/ shown' = [s \in Services |-> IF s \in listed THEN "svc_inactive" ELSE shown[s]]
        BY <2>1, <2>2 DEF Obey
      <3> QED BY <3>1 DEF ShownInv
    <2>4. ASSUME NEW s \in Services, Reported(s)' PROVE Latest(s, Expected(s))'
      <3>1. Reported(s)
        BY <1>1, <2>1, <2>4 DEF Reported
      <3>2. PICK c : c = Expected(s)
        OBVIOUS
      <3>3. Latest(s, c)
        BY <3>1, <3>2, LatestNamed DEF ShownInv
      <3>4. Latest(s, c)'
        BY <1>8, <2>1, <2>2, <3>3, LatestRead
      <3>5. c = Expected(s)'
        BY <1>1, <3>2 DEF Expected, Outcome, svcVars
      <3> QED BY <3>4, <3>5, LatestNamed
    <2> QED BY <1>3, <2>3, <2>4 DEF ShownInv
  <1> QED BY <1>4, <1>5, <1>6, <1>7, <1>8

-----------------------------------------------------------------------------
(* Theorems                                                                *)

IInv == ScriptsInv /\ ConsoleInv /\ ShownInv

\* The inductive invariant: a service that was counted is not counted again;
\* console, cache, daemon and FIFO fit together; what was last said of a
\* service is what became of it.
THEOREM BootInvariance == Spec => []IInv
  <1>1. IInv /\ [Next]_vars => IInv'
    <2> SUFFICES ASSUME IInv, [Next]_vars PROVE IInv'
      OBVIOUS
    <2>1. ScriptsInv'
      BY ScriptsStep DEF IInv
    <2>2. ConsoleInv'
      BY ScriptConsole, RcConsole, DaemonConsole DEF IInv, Next, OneScript
    <2>3. ShownInv'
      BY <2>1, ScriptShown, RestShown DEF IInv, Next, OneScript
    <2> QED BY <2>1, <2>2, <2>3 DEF IInv
  <1>2. Init => IInv
    BY InitScripts, InitConsole, InitShown DEF IInv
  <1> QED BY <1>1, <1>2, PTL DEF Spec

\* No service is counted twice, for any services and in any order of the hooks.
THEOREM OnceTheorem == Spec => []HandledOnce
  <1>1. IInv => HandledOnce
    BY DEF IInv, ScriptsInv, Counted, HandledOnce
  <1> QED BY <1>1, BootInvariance, PTL

\* The boot does not end on a silent tty nobody draws on, but for a daemon that
\* was killed, and the cache is unmounted.
THEOREM CleanTheorem == Spec => []BootEndsClean
  <1>1. IInv => BootEndsClean
    BY DEF IInv, ConsoleInv, Alive, BootEndsClean
  <1> QED BY <1>1, BootInvariance, PTL

\* Once all hooks have run and fbsplashd has read what they sent, it shows of
\* every service what became of it, for any services, however many messages it
\* is behind and however the hooks of services interleave.
THEOREM ShownTheorem == Spec => []ServiceShown
  <1>1. IInv => ServiceShown
    <2> SUFFICES ASSUME IInv, Quiet, level # "over", NEW s \in Services, handled[s] > 0
                 PROVE  shown[s] = Expected(s)
      BY DEF ServiceShown, Expected
    <2>1. handled[s] = 1
      BY DEF IInv, ScriptsInv, Types, Counted
    <2>2. Reported(s)
      BY <2>1 DEF Quiet, Reported, Idle
    <2>3. Latest(s, Expected(s)) /\ pipe = <<>>
      BY <2>2 DEF IInv, ShownInv, Quiet
    <2>4. Len(pipe) = 0 /\ 1..0 = {}
      BY <2>3
    <2> QED BY <2>3, <2>4 DEF Latest
  <1> QED BY <1>1, BootInvariance, PTL

-----------------------------------------------------------------------------
(* The progress while init scripts run one at a time                       *)

\* How the state of a service and the place its script is at fit together.
Where(s) ==
  /\ s \in waking => phase = "boot" /\ proc[s].pc \in {"now", "run"}
  /\ s \in sched => st[s] \in {"stopped", "starting"}
  /\ proc[s].pc \in {"now", "run"} \/ (proc[s].pc = "read" /\ ~proc[s].skip) =>
       st[s] = IF phase = "boot" THEN "starting" ELSE "stopping"
  /\ proc[s].pc \in {"idle", "done", "out"} \/ (proc[s].pc = "read" /\ proc[s].skip) =>
       st[s] \notin {"starting", "stopping"}
  /\ phase = "shutdown" => st[s] \in {"started", "stopped", "stopping"}
  /\ phase = "shutdown" /\ s \in left => st[s] = "started"

Solo == \A s, t \in Services : s # t => Idle(s) \/ Idle(t)

\* What a hook has found that has still k lists to read.
FoundSo(k) ==
  {s \in Services :
     IF phase = "boot"
     THEN \/ st[s] = "started" /\ k <= 3
          \/ st[s] = "inactive" /\ k <= 2
          \/ st[s] = "failed" /\ k <= 1
          \/ s \in sched /\ k = 0
     ELSE \/ st[s] = "started" /\ k <= 2
          \/ st[s] = "starting" /\ k <= 1
          \/ st[s] = "inactive" /\ k = 0}

\* No service is on two of the lists.
Reading(s) ==
  proc[s].pc = "read" =>
    /\ proc[s].found = FoundSo(Len(proc[s].todo))
    /\ proc[s].n = Cardinality(proc[s].found) /\ proc[s].cnt = Cardinality(listed)

\* The services counted in the end: those that were, and during the shutdown
\* those that are not.
Up == {s \in Services : \/ st[s] \in {"started", "inactive", "failed"} \/ proc[s].pc = "run"
                        \/ s \in sched \/ s \in waking}
StillUp == {s \in Services : st[s] \in {"started", "stopping"}}

Total == Cardinality(listed)
Far   == IF phase = "boot" THEN Cardinality(Up) ELSE Total - Cardinality(StillUp) + 2

\* What a hook may have reported at most.
Ceil == IF Total = 0 THEN 0 ELSE Clamp((Far * Max) \div Total)

IsProgress(m) == m.cmd = "progress"
IsExit(m) == m.cmd \in {"exit", "staysilent"}

\* Messages whose progress fbsplashd shows do not go back.
Live(q, j) == \A k \in 1..j-1 : ~IsExit(q[k])
Rising(q, b) ==
  \A j \in 1..Len(q) : IsProgress(q[j]) /\ Live(q, j) =>
    /\ b <= Clamp(q[j].arg)
    /\ \A i \in 1..j-1 : IsProgress(q[i]) => Clamp(q[i].arg) <= Clamp(q[j].arg)

\* Nor past c.
Below(q, b, c) ==
  (\A k \in 1..Len(q) : ~IsExit(q[k])) =>
    b <= c /\ \A i \in 1..Len(q) : IsProgress(q[i]) => Clamp(q[i].arg) <= c

Numbers(q) == \A i \in 1..Len(q) : IsProgress(q[i]) => q[i].arg \in Int

\* What the FIFO with the messages q says of the progress, from b on: c at most.
Fits(q, b, c) == Numbers(q) /\ Rising(q, b) /\ Below(q, b, c)

\* What may be reported at most; in the end the bar is full.
Limit == IF level = "over" THEN Max ELSE Ceil

Progressing ==
  bar \in 0..Max /\ Numbers(pipe) /\ (~overlap /\ daemon = "running" => Fits(pipe, bar, Limit))

ProgressInv ==
  /\ Progressing /\ (level = "before" => bar = 0)
  /\ \A s \in Services : Where(s)
  /\ ~overlap => Solo /\ \A s \in Services : Reading(s)

\* A number between 0 and Max, which keeps the order.
LEMMA ClampOrder ==
  ASSUME NEW x \in Int, NEW y \in Int
  PROVE  Clamp(x) \in 0..Max /\ (x <= y => Clamp(x) <= Clamp(y)) /\ Clamp(Max) = Max
  BY BootAssumption DEF Clamp

\* More services are more progress.
LEMMA DivOrder ==
  ASSUME NEW x \in Int, NEW y \in Int, x <= y, NEW n \in Nat \ {0}
  PROVE  x \div n \in Int /\ y \div n \in Int /\ x \div n <= y \div n
  <1> DEFINE a == x \div n
             b == y \div n
  <1>1. a \in Int /\ n * a <= x /\ x < n * (a + 1)
    OBVIOUS
  <1>2. b \in Int /\ n * b <= y /\ y < n * (b + 1)
    OBVIOUS
  <1> HIDE DEF a, b
  <1>3. ASSUME b + 1 <= a PROVE FALSE
    <2>1. n * (b + 1) <= n * a
      BY <1>1, <1>2, <1>3
    <2>2. n * (b + 1) \in Int /\ n * a \in Int
      BY <1>1, <1>2
    <2> QED BY <1>1, <1>2, <2>1, <2>2
  <1>4. a <= b
    BY <1>1, <1>2, <1>3
  <1> QED BY <1>1, <1>2, <1>4 DEF a, b

\* The same of the progress it comes to.
LEMMA CeilOrder ==
  ASSUME NEW k \in Int, NEW l \in Int, k <= l, NEW n \in Nat \ {0}
  PROVE  /\ Clamp((k * Max) \div n) \in 0..Max /\ Clamp((l * Max) \div n) \in 0..Max
         /\ Clamp((k * Max) \div n) <= Clamp((l * Max) \div n)
  <1>1. k * Max \in Int /\ l * Max \in Int /\ k * Max <= l * Max
    BY BootAssumption
  <1> QED BY <1>1, DivOrder, ClampOrder

\* Only its own script changes where a service stands.
LEMMA WhereUntouched ==
  ASSUME NEW s \in Services, Where(s), Untouched(s)
  PROVE  Where(s)'
  BY DEF Where, Untouched

\* What its own script does leaves state and place fitting together.
LEMMA WhereOwn ==
  ASSUME ScriptsInv, NEW s \in Services, Where(s), OneScript(s),
         proc[s].pc = "read" /\ proc[s].skip => s \in sched
  PROVE  Where(s)'
  <1> USE DEF ScriptsInv, Types, Where
  <1>1. phase' = phase /\ phase \in {"boot", "shutdown"} /\ Counted(s) /\ proc[s] \in Scripts
        /\ (s \in waking => phase = "boot") /\ (s \in sched => phase = "boot")
    BY DEF OneScript, Begin, Wake, HookNow, ReadState, SvcHandle, RunService, HookDone, HookOut,
           rcVars, Counted
  <1>2. CASE Begin(s)
    <2>1. PICK l \in {"now", "out"} : Goto(s, l)
      BY <1>2 DEF Begin
    <2>2. proc'[s].pc = l
      BY <2>1, GotoType
    <2>3. /\ left' = left \ {s} /\ s \in left /\ waking' = waking /\ s \notin sched
          /\ proc[s].pc = "idle" /\ (phase = "boot" => st[s] = "stopped")
      BY <1>1, <1>2 DEF Begin, Counted, Idle
    <2>4. \/ phase = "boot" /\ l = "now" /\ sched' = sched /\ st' = [st EXCEPT ![s] = "starting"]
          \/ phase = "boot" /\ l = "out" /\ sched' = sched \union {s} /\ st' = st
          \/ phase = "shutdown" /\ l = "now" /\ sched' = sched /\ st' = [st EXCEPT ![s] = "stopping"]
      BY <1>1, <1>2, <2>2 DEF Begin, Goto, NoHook
    <2> QED BY <1>1, <2>2, <2>3, <2>4
  <1>3. CASE Wake(s)
    <2>1. proc'[s].pc = "now"
      BY <1>3, GotoType DEF Wake
    <2>2. /\ left' = left /\ sched' = sched /\ phase = "boot" /\ st' = [st EXCEPT ![s] = "starting"]
      BY <1>3 DEF Wake, rcVars
    <2> QED BY <1>1, <2>1, <2>2
  <1>4. CASE HookNow(s)
    <2>1. UNCHANGED <<left, sched, waking, st>> /\ proc[s].pc = "now"
      BY <1>4 DEF HookNow, rcVars, svcVars
    <2>2. CASE proc' = [proc EXCEPT ![s] = ReadFrom(FALSE)] /\ s \notin waking
      <3>1. ReadFrom(FALSE).pc = "read" /\ ReadFrom(FALSE).skip = FALSE
        BY ReadFromType
      <3>2. proc'[s] = ReadFrom(FALSE)
        BY <2>2
      <3> QED BY <1>1, <2>1, <2>2, <3>1, <3>2
    <2>3. CASE Goto(s, "run")
      BY <1>1, <2>1, <2>3, GotoType
    <2> QED BY <1>4, <2>2, <2>3 DEF HookNow
  <1>5. CASE ReadState(s)
    <2>1. UNCHANGED <<left, sched, waking, st>> /\ proc[s].pc = "read"
      BY <1>5 DEF ReadState, rcVars, svcVars
    <2> QED BY <1>1, <1>5, <2>1, ReadStateEffect
  <1>6. CASE SvcHandle(s)
    <2>1. UNCHANGED <<left, sched, waking, st>> /\ proc[s].pc = "read"
      BY <1>6 DEF SvcHandle, rcVars
    <2>2. CASE proc[s].skip
      <3>1. proc'[s].pc = "idle"
        BY <1>6, <2>2, GotoType DEF SvcHandle, Leave
      <3> QED BY <1>1, <2>1, <2>2, <3>1
    <2>3. CASE ~proc[s].skip
      <3>1. proc'[s].pc = "run"
        BY <1>6, <2>3, GotoType DEF SvcHandle
      <3> QED BY <1>1, <2>1, <2>3, <3>1
    <2> QED BY <2>2, <2>3
  <1>7. CASE RunService(s)
    <2>1. proc'[s].pc = "done"
      BY <1>7, GotoType DEF RunService
    <2>2. left' = left /\ sched' = sched \ {s} /\ waking' = waking \ {s}
      BY <1>7 DEF RunService, rcVars
    <2>3. PICK r \in {"started", "stopped", "inactive", "failed"} :
            st' = [st EXCEPT ![s] = r] /\ (phase = "shutdown" => r \in {"started", "stopped"})
      BY <1>1, <1>7 DEF RunService
    <2>4. s \notin left
      BY <1>1, <1>7 DEF RunService, Counted, Idle
    <2> QED BY <1>1, <2>1, <2>2, <2>3, <2>4
  <1>8. CASE HookDone(s)
    <2>1. proc'[s].pc = "out"
      BY <1>8, GotoType DEF HookDone
    <2>2. UNCHANGED <<left, sched, waking, st>> /\ proc[s].pc = "done"
      BY <1>8 DEF HookDone, rcVars, svcVars
    <2> QED BY <1>1, <2>1, <2>2
  <1>9. CASE HookOut(s)
    <2>1. UNCHANGED <<left, sched, waking, st>> /\ proc[s].pc = "out"
      BY <1>9 DEF HookOut, rcVars, svcVars
    <2>2. CASE proc' = [proc EXCEPT ![s] = ReadFrom(TRUE)]
      <3>1. ReadFrom(TRUE).pc = "read" /\ ReadFrom(TRUE).skip = TRUE
        BY ReadFromType
      <3>2. proc'[s] = ReadFrom(TRUE)
        BY <2>2
      <3> QED BY <1>1, <2>1, <3>1, <3>2
    <2>3. CASE Leave(s)
      <3>1. proc'[s].pc = "idle"
        BY <2>3, GotoType DEF Leave
      <3> QED BY <1>1, <2>1, <3>1
    <2> QED BY <1>9, <2>2, <2>3 DEF HookOut
  <1> QED BY <1>2, <1>3, <1>4, <1>5, <1>6, <1>7, <1>8, <1>9 DEF OneScript

\* So does every step.
LEMMA WhereStep ==
  ASSUME ScriptsInv, ShownInv, [Next]_vars, \A s \in Services : Where(s)
  PROVE  \A s \in Services : Where(s)'
  <1> TAKE s \in Services
  <1> USE DEF ScriptsInv
  <1>1. ASSUME NEW t \in Services, OneScript(t) PROVE Where(s)'
    <2>1. CASE s = t
      BY <1>1, <2>1, WhereOwn DEF ShownInv
    <2>2. CASE s # t
      BY <1>1, <2>2, OthersUntouched, WhereUntouched
    <2> QED BY <2>1, <2>2
  <1>2. CASE SplashStart \/ EnterDefault \/ EndBoot \/ Abort \/ StopFinish \/ EndShutdown
               \/ Command \/ DaemonEnds \/ ConsoleSwitched \/ UNCHANGED vars
    BY <1>2, RestUntouched, WhereUntouched
  <1> QED BY <1>1, <1>2 DEF Next, OneScript

\* While no two scripts have run at a time, one alone moves.
LEMMA SoloStep ==
  ASSUME ScriptsInv, [Next]_vars, ~overlap => Solo
  PROVE  /\ ~overlap' => ~overlap /\ Solo'
         /\ \A t \in Services : OneScript(t) /\ ~overlap' => \A s \in Services \ {t} : Idle(s)
  <1> USE DEF ScriptsInv, Types
  <1>1. ~overlap' => ~overlap
    BY DEF Next, SplashStart, EnterDefault, EndBoot, Abort, StopFinish, EndShutdown, Begin, Wake,
           HookNow, ReadState, SvcHandle, RunService, HookDone, HookOut, Command, DaemonEnds,
           ConsoleSwitched, vars, Overlap
  <1>2. ASSUME NEW t \in Services, OneScript(t), ~overlap', NEW s \in Services \ {t}
        PROVE  Idle(s) /\ Idle(s)'
    <2>1. Idle(s)
      <3>1. CASE Begin(t) \/ Wake(t)
        BY <1>2, <3>1 DEF Begin, Wake, Overlap
      <3>2. CASE ~(Begin(t) \/ Wake(t))
        <4>1. ~Idle(t)
          BY <1>2, <3>2 DEF OneScript, HookNow, ReadState, SvcHandle, RunService, HookDone, HookOut, Idle
        <4> QED BY <1>1, <1>2, <4>1 DEF Solo
      <3> QED BY <3>1, <3>2
    <2> QED BY <1>2, <2>1, OthersUntouched DEF Untouched, Idle
  <1>3. ASSUME ~overlap', NEW t \in Services, OneScript(t) PROVE Solo'
    BY <1>2, <1>3 DEF Solo
  <1>4. ASSUME ~overlap', ~\E t \in Services : OneScript(t) PROVE Solo'
    <2>1. \A s \in Services : Untouched(s)
      BY <1>4, RestUntouched DEF Next, OneScript
    <2> QED BY <1>1, <1>4, <2>1 DEF Solo, Untouched, Idle
  <1> QED BY <1>1, <1>2, <1>3, <1>4

\* With k lists left, c is the next.
ListAt(k, c) ==
  IF phase = "boot"
  THEN /\ (k = 4 => c = "started") /\ (k = 3 => c = "inactive")
       /\ (k = 2 => c = "failed") /\ (k = 1 => c = "scheduled")
  ELSE /\ (k = 3 => c = "started") /\ (k = 2 => c = "starting") /\ (k = 1 => c = "inactive")

\* How many lists are left says which is the next.
LEMMA ListsLeft ==
  ASSUME Types, NEW todo \in Todos
  PROVE  /\ Len(todo) \in 0..4 /\ (todo = <<>> <=> Len(todo) = 0)
         /\ phase = "boot" => Len(Lists) = 4
         /\ phase # "boot" => Len(Lists) = 3 /\ Len(todo) <= 3
         /\ todo # <<>> =>
              /\ Len(Tail(todo)) = Len(todo) - 1
              /\ ListAt(Len(todo), Head(todo))
  <1>1. /\ Len(Boot4) = 4 /\ Len(Boot3) = 3 /\ Len(Boot2) = 2 /\ Len(Boot1) = 1
        /\ Len(Down3) = 3 /\ Len(Down2) = 2 /\ Len(Down1) = 1 /\ Len(<<>>) = 0
    BY DEF Boot4, Boot3, Boot2, Boot1, Down3, Down2, Down1
  <1>2. /\ Head(Boot4) = "started" /\ Head(Boot3) = "inactive" /\ Head(Boot2) = "failed"
        /\ Head(Boot1) = "scheduled" /\ Head(Down3) = "started" /\ Head(Down2) = "starting"
        /\ Head(Down1) = "inactive"
    BY DEF Boot4, Boot3, Boot2, Boot1, Down3, Down2, Down1
  <1>3. Lists = IF phase = "boot" THEN Boot4 ELSE Down3
    BY DEF Lists, Boot4, Down3
  <1>4. todo \in IF phase = "boot" THEN {Boot4, Boot3, Boot2, Boot1, <<>>} ELSE {Down3, Down2, Down1, <<>>}
    BY DEF Todos
  <1>5. /\ Boot4 # <<>> /\ Boot3 # <<>> /\ Boot2 # <<>> /\ Boot1 # <<>>
        /\ Down3 # <<>> /\ Down2 # <<>> /\ Down1 # <<>>
    BY ListTails
  <1>6. phase = "boot" => Len(Lists) = 4
    BY <1>1, <1>3
  <1>7. phase # "boot" => Len(Lists) = 3
    BY <1>1, <1>3
  <1> DEFINE G(x) == /\ Len(x) \in 0..4 /\ (x = <<>> <=> Len(x) = 0)
                     /\ phase # "boot" => Len(x) <= 3
                     /\ x # <<>> => Len(Tail(x)) = Len(x) - 1 /\ ListAt(Len(x), Head(x))
  <1>8. ASSUME NEW x, NEW k \in 1..4, x # <<>>, Len(x) = k, Len(Tail(x)) = k - 1,
               phase # "boot" => k <= 3, ListAt(k, Head(x))
        PROVE  G(x)
    BY <1>8
  <1>9. phase = "boot" => G(Boot4) /\ G(Boot3) /\ G(Boot2) /\ G(Boot1)
    <2> SUFFICES ASSUME phase = "boot" PROVE G(Boot4) /\ G(Boot3) /\ G(Boot2) /\ G(Boot1)
      OBVIOUS
    <2>1. /\ ListAt(4, Head(Boot4)) /\ ListAt(3, Head(Boot3)) /\ ListAt(2, Head(Boot2))
          /\ ListAt(1, Head(Boot1))
      BY <1>2 DEF ListAt
    <2>2. /\ Len(Tail(Boot4)) = 3 /\ Len(Tail(Boot3)) = 2 /\ Len(Tail(Boot2)) = 1 /\ Len(Tail(Boot1)) = 0
      BY <1>1, ListTails
    <2> HIDE DEF G
    <2>3. G(Boot4) /\ G(Boot3)
      BY <1>1, <1>5, <1>8, <2>1, <2>2
    <2>4. G(Boot2) /\ G(Boot1)
      BY <1>1, <1>5, <1>8, <2>1, <2>2
    <2> QED BY <2>3, <2>4
  <1>10. phase # "boot" => G(Down3) /\ G(Down2) /\ G(Down1)
    <2> SUFFICES ASSUME phase # "boot" PROVE G(Down3) /\ G(Down2) /\ G(Down1)
      OBVIOUS
    <2>1. ListAt(3, Head(Down3)) /\ ListAt(2, Head(Down2)) /\ ListAt(1, Head(Down1))
      BY <1>2 DEF ListAt
    <2>2. Len(Tail(Down3)) = 2 /\ Len(Tail(Down2)) = 1 /\ Len(Tail(Down1)) = 0
      BY <1>1, ListTails
    <2> HIDE DEF G
    <2> QED BY <1>1, <1>5, <1>8, <2>1, <2>2
  <1>11. G(<<>>)
    BY <1>1
  <1> HIDE DEF G
  <1>12. G(todo)
    BY <1>4, <1>9, <1>10, <1>11
  <1> QED BY <1>6, <1>7, <1>12 DEF G

\* Sets of services.
LEMMA ServiceSets ==
  ASSUME NEW S \in SUBSET Services
  PROVE  IsFiniteSet(S) /\ Cardinality(S) \in Nat
  BY BootAssumption, FS_Subset, FS_CardinalityType

\* A list more: nobody on it was found before.
LEMMA FoundMore ==
  ASSUME Types, \A s \in Services : Where(s), NEW k \in 1..4, phase # "boot" => k <= 3, NEW c,
         ListAt(k, c)
  PROVE  /\ FoundSo(k - 1) = FoundSo(k) \union InState(c)
         /\ FoundSo(k) \intersect InState(c) = {}
         /\ FoundSo(k) \in SUBSET Services /\ InState(c) \in SUBSET Services
  <1> USE DEF FoundSo, InState, Types, ListAt
  <1>1. FoundSo(k) \in SUBSET Services /\ InState(c) \in SUBSET Services
    OBVIOUS
  <1>2. CASE phase = "boot"
    <2>1. CASE k = 4
      BY <1>2, <2>1
    <2>2. CASE k = 3
      BY <1>2, <2>2
    <2>3. CASE k = 2
      BY <1>2, <2>3
    <2>4. CASE k = 1
      BY <1>2, <2>4 DEF Where
    <2> QED BY <1>1, <2>1, <2>2, <2>3, <2>4
  <1>3. CASE phase # "boot"
    <2>1. CASE k = 3
      BY <1>3, <2>1
    <2>2. CASE k = 2
      BY <1>3, <2>2
    <2>3. CASE k = 1
      BY <1>3, <2>3
    <2> QED BY <1>1, <1>3, <2>1, <2>2, <2>3
  <1> QED BY <1>2, <1>3

\* A hook that reads has found so far what it counted.
LEMMA ReadingStep ==
  ASSUME ScriptsInv, ShownInv, ProgressInv, [Next]_vars, ~overlap'
  PROVE  \A s \in Services : Reading(s)'
  <1> TAKE s \in Services
  <1> USE DEF ScriptsInv
  <1>1. ~overlap /\ Reading(s) /\ \A t \in Services : Where(t)
    BY SoloStep DEF ProgressInv
  <1>2. ASSUME proc'[s] = proc[s], proc[s].pc = "read" => UNCHANGED <<phase, st, sched, listed>>
        PROVE  Reading(s)'
    BY <1>1, <1>2 DEF Reading, FoundSo
  <1>3. ASSUME NEW t \in Services, OneScript(t), s # t PROVE Reading(s)'
    <2>1. Idle(s) /\ Untouched(s)
      BY <1>3, SoloStep, OthersUntouched DEF ProgressInv
    <2> QED BY <1>2, <2>1 DEF Idle, Untouched
  <1>4. ASSUME OneScript(s) PROVE Reading(s)'
    <2>1. ASSUME NEW skip \in BOOLEAN, proc' = [proc EXCEPT ![s] = ReadFrom(skip)],
                 UNCHANGED <<phase, listed>>
          PROVE  Reading(s)'
      <3>1. proc'[s] = ReadFrom(skip) /\ phase' = phase /\ listed' = listed
        BY <2>1 DEF Types
      <3>2. /\ ReadFrom(skip).found = {} /\ ReadFrom(skip).n = 0 /\ ReadFrom(skip).todo = Lists
            /\ ReadFrom(skip).cnt = Cardinality(listed)
        BY DEF ReadFrom, NoHook
      <3>3. FoundSo(Len(Lists))' = {}
        <4>1. Lists \in Todos /\ Lists' = Lists
          BY <3>1 DEF Todos, Lists, Boot4, Down3, Types
        <4>2. Len(Lists) = IF phase = "boot" THEN 4 ELSE 3
          BY <4>1, ListsLeft
        <4> QED BY <3>1, <4>1, <4>2 DEF FoundSo
      <3>4. Cardinality({}) = 0
        BY FS_EmptySet
      <3>5. Lists' = Lists
        BY <3>1 DEF Lists
      <3> QED BY <3>1, <3>2, <3>3, <3>4, <3>5 DEF Reading
    <2>2. ASSUME NEW l \in {"idle", "now", "run", "done", "out"}, Goto(s, l) PROVE Reading(s)'
      BY <2>2, GotoType DEF Reading
    <2>3. CASE Begin(s) \/ Wake(s) \/ SvcHandle(s) \/ RunService(s) \/ HookDone(s)
      BY <2>2, <2>3 DEF Begin, Wake, SvcHandle, RunService, HookDone, Leave
    <2>4. CASE HookNow(s) \/ HookOut(s)
      BY <2>1, <2>2, <2>4 DEF HookNow, HookOut, Leave, rcVars, splashVars
    <2>5. CASE ReadState(s)
      <3> DEFINE p == proc[s]
                 in == InState(Head(p.todo))
      <3>0. PICK k : k = Len(p.todo)
        OBVIOUS
      <3>1. /\ p.pc = "read" /\ p.todo # <<>> /\ p \in Scripts
            /\ proc' = [proc EXCEPT ![s].todo = Tail(@), ![s].found = @ \union in,
                                    ![s].n = @ + Cardinality(in)]
            /\ UNCHANGED <<phase, st, sched, listed>>
        BY <2>5 DEF ReadState, rcVars, svcVars, splashVars, Types
      <3>2. p.todo \in Todos
        BY <3>1 DEF Scripts
      <3>3. k \in 1..4 /\ (phase # "boot" => k <= 3) /\ Len(Tail(p.todo)) = k - 1
        BY <3>0, <3>1, <3>2, ListsLeft
      <3>4. /\ FoundSo(k - 1) = FoundSo(k) \union in /\ FoundSo(k) \intersect in = {}
            /\ FoundSo(k) \in SUBSET Services /\ in \in SUBSET Services
        BY <1>1, <3>0, <3>1, <3>2, <3>3, ListsLeft, FoundMore
      <3> HIDE DEF in
      <3>5. /\ proc'[s].todo = Tail(p.todo) /\ proc'[s].found = p.found \union in
            /\ proc'[s].n = p.n + Cardinality(in) /\ proc'[s].cnt = p.cnt
        BY <3>1 DEF Types, Scripts
      <3>6. p.found = FoundSo(k) /\ p.n = Cardinality(p.found) /\ p.cnt = Cardinality(listed)
        BY <1>1, <3>0, <3>1 DEF Reading
      <3>7. Cardinality(p.found \union in) = Cardinality(p.found) + Cardinality(in)
        <4>1. IsFiniteSet(p.found) /\ IsFiniteSet(in) /\ Cardinality(p.found) \in Nat
              /\ Cardinality(in) \in Nat
          BY <3>4, <3>6, ServiceSets
        <4>2. Cardinality(p.found \union in)
                = Cardinality(p.found) + Cardinality(in) - Cardinality(p.found \intersect in)
          BY <4>1, FS_Union
        <4>3. Cardinality(p.found \intersect in) = 0
          BY <3>4, <3>6, FS_EmptySet
        <4> QED BY <4>1, <4>2, <4>3
      <3>8. FoundSo(k - 1)' = FoundSo(k - 1)
        BY <3>1 DEF FoundSo
      <3>9. Len(proc'[s].todo) = k - 1
        BY <3>3, <3>5
      <3>10. proc'[s].found = FoundSo(k - 1)'
        BY <3>4, <3>5, <3>6, <3>8
      <3>11. FoundSo(Len(proc[s].todo))' = FoundSo(k - 1)'
        BY <3>9 DEF FoundSo
      <3>12. proc'[s].n = Cardinality(proc'[s].found) /\ proc'[s].cnt = Cardinality(listed')
        BY <3>1, <3>5, <3>6, <3>7
      <3> QED BY <3>10, <3>11, <3>12 DEF Reading
    <2> QED BY <1>4, <2>3, <2>4, <2>5 DEF OneScript
  <1>5. CASE ~\E t \in Services : OneScript(t)
    <2>1. Untouched(s) /\ UNCHANGED <<phase, svcVars>>
      BY <1>5, RestUntouched DEF Next, OneScript
    <2>2. proc[s].pc = "read" => listed' = listed
      <3>1. proc[s].pc = "read" => level # "before"
        BY DEF ShownInv
      <3> QED BY <1>5, <3>1 DEF Next, OneScript, SplashStart, EnterDefault, EndBoot, Abort, StopFinish,
                EndShutdown, Command, DaemonEnds, ConsoleSwitched, vars, splashVars
    <2> QED BY <1>2, <2>1, <2>2 DEF Untouched, svcVars
  <1> QED BY <1>3, <1>4, <1>5

\* A service that is counted stays counted; one that is down stays down.
LEMMA UpOwn ==
  ASSUME ScriptsInv, NEW s \in Services, Where(s), OneScript(s)
  PROVE  /\ phase = "boot" /\ s \in Up => s \in Up'
         /\ phase = "shutdown" /\ s \in StillUp' => s \in StillUp
  <1> USE DEF ScriptsInv, Types, Up, StillUp
  <1>1. Counted(s) /\ proc[s] \in Scripts
    OBVIOUS
  <1>2. CASE Begin(s)
    <2>1. s \in left /\ proc[s].pc = "idle" /\ s \notin sched /\ (phase = "boot" => st[s] = "stopped")
      BY <1>1, <1>2 DEF Begin, Counted, Idle
    <2>2. s \notin waking /\ (phase = "shutdown" => st[s] = "started")
      BY <2>1 DEF Where
    <2> QED BY <2>1, <2>2
  <1>3. CASE Wake(s)
    <2>1. phase = "boot" /\ (s \in waking' \/ (s \in sched /\ sched' = sched))
      BY <1>3 DEF Wake
    <2> QED BY <2>1
  <1>4. CASE RunService(s)
    <2>1. PICK r \in {"started", "stopped", "inactive", "failed"} :
            /\ st' = [st EXCEPT ![s] = r]
            /\ phase = "boot" => r # "stopped"
            /\ proc[s].pc = "run"
      BY <1>4 DEF RunService
    <2>2. phase = "shutdown" => st[s] = "stopping"
      BY <2>1 DEF Where
    <2> QED BY <2>1, <2>2
  <1>5. CASE HookNow(s) \/ ReadState(s) \/ SvcHandle(s) \/ HookDone(s) \/ HookOut(s)
    <2>1. UNCHANGED <<st, sched, waking>> /\ proc[s].pc # "run"
      BY <1>5 DEF HookNow, ReadState, SvcHandle, HookDone, HookOut, svcVars
    <2> QED BY <2>1
  <1> QED BY <1>2, <1>3, <1>4, <1>5 DEF OneScript

\* Of all services: those that count do not get fewer.
LEMMA UpStep ==
  ASSUME ScriptsInv, \A s \in Services : Where(s), [Next]_vars
  PROVE  /\ phase' = phase
         /\ phase = "boot" => Up \subseteq Up'
         /\ phase = "shutdown" => StillUp' \subseteq StillUp
  <1> USE DEF ScriptsInv
  <1>1. ASSUME NEW s \in Services, Untouched(s)
        PROVE  (s \in Up => s \in Up') /\ (s \in StillUp' => s \in StillUp)
    BY <1>1 DEF Untouched, Up, StillUp
  <1>2. ASSUME NEW t \in Services, OneScript(t)
        PROVE  /\ phase' = phase
               /\ phase = "boot" => Up \subseteq Up'
               /\ phase = "shutdown" => StillUp' \subseteq StillUp
    <2>1. phase' = phase
      BY <1>2 DEF OneScript, Begin, Wake, HookNow, ReadState, SvcHandle, RunService, HookDone, HookOut,
                  rcVars
    <2>2. ASSUME NEW s \in Services
          PROVE  /\ phase = "boot" /\ s \in Up => s \in Up'
                 /\ phase = "shutdown" /\ s \in StillUp' => s \in StillUp
      <3>1. CASE s = t
        BY <1>2, <3>1, UpOwn
      <3>2. CASE s # t
        BY <1>1, <1>2, <3>2, OthersUntouched
      <3> QED BY <3>1, <3>2
    <2> QED BY <2>1, <2>2 DEF Up, StillUp
  <1>3. CASE ~\E t \in Services : OneScript(t)
    <2>1. (\A s \in Services : Untouched(s)) /\ phase' = phase
      BY <1>3, RestUntouched DEF Next, OneScript
    <2> QED BY <1>1, <2>1 DEF Up, StillUp
  <1> QED BY <1>2, <1>3

\* So what may be reported does not go back.
LEMMA CeilStep ==
  ASSUME ScriptsInv, \A s \in Services : Where(s), [Next]_vars, ScriptsInv', listed' = listed
  PROVE  Ceil \in 0..Max /\ Ceil' \in 0..Max /\ Ceil <= Ceil'
  <1>1. /\ phase' = phase /\ phase \in {"boot", "shutdown"} /\ listed \in SUBSET Services
        /\ Up \in SUBSET Services /\ Up' \in SUBSET Services
        /\ StillUp \in SUBSET Services /\ StillUp' \in SUBSET Services
    BY UpStep DEF ScriptsInv, Types, Up, StillUp
  <1>2. Total \in Nat /\ Total' = Total
    BY <1>1, ServiceSets DEF Total
  <1>3. Far \in Int /\ Far' \in Int /\ Far <= Far'
    <2>1. CASE phase = "boot"
      <3>1. Up \subseteq Up' /\ IsFiniteSet(Up')
        BY <1>1, <2>1, UpStep, ServiceSets
      <3>2. Cardinality(Up) <= Cardinality(Up')
        BY <3>1, FS_Subset
      <3>3. Cardinality(Up) \in Nat /\ Cardinality(Up') \in Nat
        BY <1>1, ServiceSets
      <3>4. Far = Cardinality(Up) /\ Far' = Cardinality(Up')
        BY <1>1, <2>1 DEF Far
      <3> QED BY <3>2, <3>3, <3>4
    <2>2. CASE phase = "shutdown"
      <3>1. StillUp' \subseteq StillUp /\ IsFiniteSet(StillUp)
        BY <1>1, <2>2, UpStep, ServiceSets
      <3>2. Cardinality(StillUp') <= Cardinality(StillUp)
        BY <3>1, FS_Subset
      <3>3. Cardinality(StillUp) \in Nat /\ Cardinality(StillUp') \in Nat
        BY <1>1, ServiceSets
      <3>4. Far = Total - Cardinality(StillUp) + 2 /\ Far' = Total - Cardinality(StillUp') + 2
        BY <1>1, <1>2, <2>2 DEF Far
      <3> QED BY <1>2, <3>2, <3>3, <3>4
    <2> QED BY <1>1, <2>1, <2>2
  <1>4. CASE Total = 0
    <2>1. Ceil = 0 /\ Ceil' = 0
      BY <1>2, <1>4 DEF Ceil
    <2> QED BY <2>1, BootAssumption
  <1>5. CASE Total # 0
    <2>1. PICK k, l, n : k = Far /\ l = Far' /\ n = Total
      OBVIOUS
    <2>2. Ceil = Clamp((k * Max) \div n) /\ Ceil' = Clamp((l * Max) \div n)
      BY <1>2, <1>5, <2>1 DEF Ceil, Clamp
    <2> QED BY <1>2, <1>3, <1>5, <2>1, <2>2, CeilOrder
  <1> QED BY <1>4, <1>5

\* What splash_svc_handle reports is what may be reported after it.
LEMMA ReportedValue ==
  ASSUME ScriptsInv, ShownInv, NEW t \in Services, SvcHandle(t), Reports(t), Reading(t),
         \A s \in Services : Where(s), \A s \in Services \ {t} : Idle(s)
  PROVE  /\ Clamp(ProgressOf(proc[t])) = Ceil' /\ ProgressOf(proc[t]) \in Int
  <1> USE DEF ScriptsInv, Types
  <1> DEFINE p == proc[t]
  <1>1. /\ p.pc = "read" /\ p.todo = <<>> /\ UNCHANGED <<phase, st, sched, waking, listed>>
        /\ p \in Scripts /\ p.cnt > 0 /\ (p.skip \/ t \notin p.found)
    BY DEF SvcHandle, Reports, rcVars, splashVars
  <1>2. p.found = FoundSo(0) /\ p.n = Cardinality(FoundSo(0)) /\ p.cnt = Total
    <2>1. Len(p.todo) = 0
      BY <1>1
    <2> QED BY <1>1, <2>1 DEF Reading, Total
  <1>3. FoundSo(0) \in SUBSET Services /\ p.n \in Nat /\ p.cnt \in Nat
    BY <1>1 DEF FoundSo, Scripts
  <1>4. /\ proc'[t].pc # "run" \/ ~p.skip
        /\ \A s \in Services \ {t} : proc'[s].pc = "idle"
        /\ proc'[t].pc \in {"idle", "run"} /\ (~p.skip => proc'[t].pc = "run")
    <2>1. PICK l \in {"idle", "run"} : Goto(t, l) /\ (p.skip <=> l = "idle")
      BY DEF SvcHandle, Leave
    <2>2. proc'[t].pc = l /\ \A s \in Services \ {t} : proc'[s] = proc[s]
      BY <2>1, GotoType
    <2> QED BY <2>1, <2>2 DEF Idle
  <1>5. CASE phase = "boot"
    <2>1. \A s \in Services : s \notin waking
      BY <1>1 DEF Where, Idle
    <2>2. CASE p.skip
      <3>1. Up' = FoundSo(0)
        BY <1>1, <1>4, <1>5, <2>1, <2>2 DEF Up, FoundSo
      <3>2. Far' = p.n
        BY <1>1, <1>2, <1>5, <3>1 DEF Far
      <3>3. ProgressOf(p) = (p.n * Max) \div p.cnt
        BY <1>3, <1>5, <2>2 DEF ProgressOf, DoneCount
      <3>4. Total' = p.cnt
        BY <1>1, <1>2 DEF Total
      <3>5. PICK f, n : f = Far' /\ n = Total'
        OBVIOUS
      <3>6. Ceil' = IF n = 0 THEN 0 ELSE Clamp((f * Max) \div n)
        BY <3>5 DEF Ceil, Clamp
      <3>7. p.n * Max \in Int
        BY <1>3, BootAssumption
      <3>8. (p.n * Max) \div p.cnt \in Int
        BY <1>1, <1>3, <3>7
      <3> QED BY <1>1, <1>3, <3>2, <3>3, <3>4, <3>5, <3>6, <3>8
    <2>3. CASE ~p.skip
      <3>1. Up' = FoundSo(0) \union {t}
        BY <1>1, <1>4, <1>5, <2>1, <2>3 DEF Up, FoundSo
      <3>2. Cardinality(FoundSo(0) \union {t}) = p.n + 1
        <4>1. t \notin FoundSo(0) /\ IsFiniteSet(FoundSo(0))
          BY <1>1, <1>2, <1>3, <2>3, ServiceSets
        <4> QED BY <1>2, <4>1, FS_AddElement
      <3>3. Far' = p.n + 1
        BY <1>1, <1>5, <3>1, <3>2 DEF Far
      <3>4. ProgressOf(p) = ((p.n + 1) * Max) \div p.cnt
        BY <1>3, <1>5, <2>3 DEF ProgressOf, DoneCount
      <3>5. Total' = p.cnt
        BY <1>1, <1>2 DEF Total
      <3>6. PICK f, n : f = Far' /\ n = Total'
        OBVIOUS
      <3>7. Ceil' = IF n = 0 THEN 0 ELSE Clamp((f * Max) \div n)
        BY <3>6 DEF Ceil, Clamp
      <3>8. (p.n + 1) * Max \in Int
        BY <1>3, BootAssumption
      <3>9. ((p.n + 1) * Max) \div p.cnt \in Int
        BY <1>1, <1>3, <3>8
      <3> QED BY <1>1, <1>3, <3>3, <3>4, <3>5, <3>6, <3>7, <3>9
    <2> QED BY <2>2, <2>3
  <1>6. CASE phase = "shutdown"
    <2>1. ~p.skip /\ t \notin FoundSo(0) /\ st[t] = "stopping"
      <3>1. ~p.skip
        <4>1. p.skip => t \in sched
          BY <1>1 DEF ShownInv
        <4>2. t \notin sched
          BY <1>6 DEF Counted
        <4> QED BY <4>1, <4>2
      <3> QED BY <1>1, <1>2, <1>6, <3>1 DEF Where
    <2>2. \A s \in Services \ {t} : st[s] \in {"started", "stopped"}
      BY <1>6 DEF Where, Idle
    <2>3. StillUp' = FoundSo(0) \union {t}
      BY <1>1, <1>6, <2>1, <2>2 DEF StillUp, FoundSo
    <2>4. Cardinality(FoundSo(0) \union {t}) = p.n + 1
      <3>1. t \notin FoundSo(0) /\ IsFiniteSet(FoundSo(0))
        BY <1>3, <2>1, ServiceSets
      <3>2. Cardinality(FoundSo(0) \union {t}) = Cardinality(FoundSo(0)) + 1
        BY <3>1, FS_AddElement
      <3> QED BY <1>2, <3>2
    <2>5. Total' = p.cnt
      BY <1>1, <1>2 DEF Total
    <2>6. Far' = p.cnt - (p.n + 1) + 2
      BY <1>1, <1>6, <2>3, <2>4, <2>5 DEF Far
    <2>7. Far' = p.cnt - p.n + 1
      BY <1>3, <2>6
    <2>8. ProgressOf(p) = ((p.cnt - p.n + 1) * Max) \div p.cnt
      BY <1>3, <1>6, <2>1 DEF ProgressOf, DoneCount
    <2>9. PICK f, n : f = Far' /\ n = Total'
      OBVIOUS
    <2>10. Ceil' = IF n = 0 THEN 0 ELSE Clamp((f * Max) \div n)
      BY <2>9 DEF Ceil, Clamp
    <2>11. (p.cnt - p.n + 1) * Max \in Int
      BY <1>3, BootAssumption
    <2>12. ((p.cnt - p.n + 1) * Max) \div p.cnt \in Int
      BY <1>1, <1>3, <2>11
    <2> QED BY <1>1, <1>3, <2>5, <2>7, <2>8, <2>9, <2>10, <2>12
  <1> QED BY <1>5, <1>6

\* Another message, with more progress if any.
LEMMA OneMore ==
  ASSUME NEW M, NEW q \in Seq(M), NEW m \in M, NEW b \in 0..Max, NEW c \in 0..Max, NEW d \in 0..Max,
         Fits(q, b, c), c <= d,
         IsProgress(m) => m.arg \in Int /\ c <= Clamp(m.arg) /\ Clamp(m.arg) <= d
  PROVE  Fits(Append(q, m), b, d)
  <1> DEFINE r == Append(q, m)
  <1>1. /\ Len(q) \in Nat /\ Len(r) = Len(q) + 1 /\ r[Len(q) + 1] = m
        /\ \A i \in 1..Len(q) : r[i] = q[i]
    OBVIOUS
  <1> HIDE DEF r
  <1>2. \A i \in 1..Len(r) : i \in 1..Len(q) \/ i = Len(q) + 1
    BY <1>1
  <1>3. Numbers(r)
    BY <1>1, <1>2 DEF Numbers, Fits
  <1>4. \A i \in 1..Len(q) : IsProgress(q[i]) => q[i].arg \in Int /\ Clamp(q[i].arg) \in 0..Max
    BY ClampOrder DEF Numbers, Fits
  <1>5. (\A k \in 1..Len(q) : ~IsExit(q[k])) =>
          b <= c /\ \A i \in 1..Len(q) : IsProgress(q[i]) => Clamp(q[i].arg) <= c
    BY DEF Fits, Below
  <1>6. Below(r, b, d)
    <2> SUFFICES ASSUME \A k \in 1..Len(r) : ~IsExit(r[k])
                 PROVE  b <= d /\ \A i \in 1..Len(r) : IsProgress(r[i]) => Clamp(r[i].arg) <= d
      BY DEF Below
    <2>1. \A k \in 1..Len(q) : k \in 1..Len(r)
      BY <1>1
    <2>2. b <= c /\ \A i \in 1..Len(q) : IsProgress(q[i]) => Clamp(q[i].arg) <= c
      BY <1>1, <1>5, <2>1
    <2>3. b <= d
      BY <2>2
    <2>4. ASSUME NEW i \in 1..Len(q), IsProgress(q[i]) PROVE Clamp(q[i].arg) <= d
      <3>1. Clamp(q[i].arg) \in 0..Max /\ Clamp(q[i].arg) <= c
        BY <1>4, <2>2, <2>4
      <3> QED BY <3>1
    <2> QED BY <1>1, <1>2, <2>3, <2>4
  <1>7. Rising(r, b)
    <2> SUFFICES ASSUME NEW j \in 1..Len(r), IsProgress(r[j]), Live(r, j)
                 PROVE  /\ b <= Clamp(r[j].arg)
                        /\ \A i \in 1..j-1 : IsProgress(r[i]) => Clamp(r[i].arg) <= Clamp(r[j].arg)
      BY DEF Rising
    <2>1. CASE j \in 1..Len(q)
      <3>1. \A k \in 1..j-1 : k \in 1..Len(q)
        BY <1>1, <2>1
      <3>2. r[j] = q[j] /\ \A k \in 1..j-1 : r[k] = q[k]
        BY <1>1, <2>1, <3>1
      <3>3. Live(q, j)
        BY <3>2 DEF Live
      <3> QED BY <2>1, <3>2, <3>3 DEF Fits, Rising
    <2>2. CASE j = Len(q) + 1
      <3>1. j - 1 = Len(q) /\ r[j] = m
        BY <1>1, <2>2
      <3>2. \A k \in 1..Len(q) : ~IsExit(q[k])
        BY <1>1, <3>1 DEF Live
      <3>3. b <= c /\ \A i \in 1..Len(q) : IsProgress(q[i]) => Clamp(q[i].arg) <= c
        BY <1>5, <3>2
      <3>4. c <= Clamp(m.arg) /\ m.arg \in Int /\ Clamp(m.arg) \in Int
        <4>1. IsProgress(m)
          BY <3>1
        <4>2. c <= Clamp(m.arg) /\ m.arg \in Int
          BY <4>1
        <4>3. Clamp(m.arg) \in Int
          BY <4>2, BootAssumption DEF Clamp
        <4> QED BY <4>2, <4>3
      <3>5. b <= Clamp(m.arg)
        BY <3>3, <3>4
      <3>6. ASSUME NEW i \in 1..Len(q), IsProgress(q[i]) PROVE Clamp(q[i].arg) <= Clamp(m.arg)
        <4>1. Clamp(q[i].arg) \in 0..Max /\ Clamp(q[i].arg) <= c
          BY <1>4, <3>3, <3>6
        <4> QED BY <3>4, <4>1
      <3> QED BY <1>1, <3>1, <3>5, <3>6
    <2> QED BY <1>2, <2>1, <2>2
  <1> QED BY <1>3, <1>6, <1>7 DEF Fits, r

\* Nothing more to say, or to read; and what is behind 'exit' does not matter.
LEMMA NoMore ==
  ASSUME NEW M, NEW q \in Seq(M), NEW b \in 0..Max, NEW c \in 0..Max, NEW d \in 0..Max,
         Fits(q, b, c)
  PROVE  /\ c <= d => Fits(q, b, d)
         /\ (\E k \in 1..Len(q) : IsExit(q[k])) => Fits(q, b, d)
  <1>1. \A i \in 1..Len(q) : IsProgress(q[i]) => Clamp(q[i].arg) \in 0..Max
    BY ClampOrder DEF Numbers, Fits
  <1>2. ASSUME c <= d PROVE Below(q, b, d)
    BY <1>1, <1>2 DEF Fits, Below
  <1>3. ASSUME \E k \in 1..Len(q) : IsExit(q[k]) PROVE Below(q, b, d)
    BY <1>3 DEF Below
  <1> QED BY <1>2, <1>3 DEF Fits

\* At the end of the bar there is no more to come.
LEMMA NoMax ==
  ASSUME NEW M, NEW q \in Seq(M), NEW b \in 0..Max, Numbers(q), Rising(q, b)
  PROVE  Fits(q, b, Max)
  <1>1. \A i \in 1..Len(q) : IsProgress(q[i]) => Clamp(q[i].arg) \in 0..Max
    BY ClampOrder DEF Numbers
  <1> QED BY <1>1, BootAssumption DEF Fits, Below

\* fbsplashd reads a message; b becomes the progress it shows.
LEMMA OneLess ==
  ASSUME NEW M, NEW q \in Seq(M), q # <<>>, NEW b \in 0..Max, NEW c \in 0..Max, NEW b2,
         Numbers(q),
         b2 = IF IsProgress(Head(q)) THEN Clamp(Head(q).arg) ELSE b
  PROVE  /\ b2 \in 0..Max /\ Numbers(Tail(q))
         /\ Rising(q, b) => b <= b2
         /\ Fits(q, b, c) /\ ~IsExit(Head(q)) => Fits(Tail(q), b2, c)
  <1> DEFINE h == Head(q)
             r == Tail(q)
  <1>1. /\ Len(q) \in Nat \ {0} /\ Len(r) = Len(q) - 1 /\ h = q[1] /\ 1 \in 1..Len(q)
        /\ \A i \in 1..Len(r) : r[i] = q[i + 1]
    OBVIOUS
  <1> HIDE DEF h, r
  <1>2. IsProgress(h) => h.arg \in Int /\ Clamp(h.arg) \in 0..Max
    BY <1>1, ClampOrder DEF Numbers
  <1>3. b2 \in 0..Max
    BY <1>2 DEF h
  <1>4. \A i \in 1..Len(r) : i + 1 \in 1..Len(q)
    BY <1>1
  <1>5. Numbers(r)
    BY <1>1, <1>4 DEF Numbers
  <1>6. Rising(q, b) => b <= b2
    <2>1. Live(q, 1)
      BY DEF Live
    <2> QED BY <1>1, <1>3, <2>1 DEF Rising, h
  <1>7. ASSUME Fits(q, b, c), ~IsExit(h) PROVE Rising(r, b2)
    <2> SUFFICES ASSUME NEW j \in 1..Len(r), IsProgress(r[j]), Live(r, j)
                 PROVE  /\ b2 <= Clamp(r[j].arg)
                        /\ \A i \in 1..j-1 : IsProgress(r[i]) => Clamp(r[i].arg) <= Clamp(r[j].arg)
      BY DEF Rising
    <2>1. j + 1 \in 1..Len(q) /\ r[j] = q[j + 1] /\ (j + 1) - 1 = j /\ 1 \in 1..j
      BY <1>1, <1>4
    <2>2. \A i \in 1..j-1 : r[i] = q[i + 1] /\ i + 1 \in 1..j
      BY <1>1, <2>1
    <2>3. Live(q, j + 1)
      <3> SUFFICES ASSUME NEW k \in 1..j PROVE ~IsExit(q[k])
        BY <2>1 DEF Live
      <3>1. CASE k = 1
        BY <1>1, <1>7, <3>1
      <3>2. CASE k # 1
        <4>1. k - 1 \in 1..j-1 /\ (k - 1) + 1 = k
          BY <3>2
        <4> QED BY <2>2, <4>1 DEF Live
      <3> QED BY <3>1, <3>2
    <2>4. /\ b <= Clamp(q[j + 1].arg)
          /\ \A i \in 1..j : IsProgress(q[i]) => Clamp(q[i].arg) <= Clamp(q[j + 1].arg)
      BY <1>7, <2>1, <2>3 DEF Fits, Rising
    <2>5. b2 <= Clamp(r[j].arg)
      BY <1>1, <2>1, <2>4 DEF h
    <2> QED BY <2>1, <2>2, <2>4, <2>5
  <1>8. ASSUME Fits(q, b, c), ~IsExit(h) PROVE Below(r, b2, c)
    <2> SUFFICES ASSUME \A k \in 1..Len(r) : ~IsExit(r[k])
                 PROVE  b2 <= c /\ \A i \in 1..Len(r) : IsProgress(r[i]) => Clamp(r[i].arg) <= c
      BY DEF Below
    <2>1. ASSUME NEW k \in 1..Len(q) PROVE ~IsExit(q[k])
      <3>1. CASE k = 1
        BY <1>1, <1>8, <3>1
      <3>2. CASE k # 1
        <4>1. k - 1 \in 1..Len(r) /\ (k - 1) + 1 = k
          BY <1>1, <3>2
        <4> QED BY <1>1, <4>1
      <3> QED BY <3>1, <3>2
    <2>2. b <= c /\ \A i \in 1..Len(q) : IsProgress(q[i]) => Clamp(q[i].arg) <= c
      BY <1>8, <2>1 DEF Fits, Below
    <2>3. b2 <= c
      BY <1>1, <2>2 DEF h
    <2> QED BY <1>1, <1>4, <2>2, <2>3
  <1> QED BY <1>3, <1>5, <1>6, <1>7, <1>8 DEF Fits, h, r

\* What is sent comes behind what was.
LEMMA Behind ==
  ASSUME NEW M, NEW q \in Seq(M), NEW m \in M
  PROVE  q \o <<m>> = Append(q, m)
  <1> DEFINE x == q \o <<m>>
             a == Append(q, m)
  <1>1. <<m>> \in Seq(M) /\ Len(<<m>>) = 1 /\ <<m>>[1] = m /\ 1 \in 1..1
    OBVIOUS
  <1>2. /\ x \in Seq(M) /\ Len(x) = Len(q) + 1 /\ x[Len(q) + 1] = m
        /\ \A j \in 1..Len(q) : x[j] = q[j]
    BY <1>1, ConcatElements
  <1> HIDE DEF x
  <1>3. /\ a \in Seq(M) /\ Len(a) = Len(q) + 1 /\ a[Len(q) + 1] = m
        /\ \A j \in 1..Len(q) : a[j] = q[j]
    OBVIOUS
  <1> HIDE DEF a
  <1>4. \A j \in 1..Len(x) : x[j] = a[j]
    <2> SUFFICES ASSUME NEW j \in 1..Len(x) PROVE x[j] = a[j]
      OBVIOUS
    <2>1. j \in 1..Len(q) \/ j = Len(q) + 1
      BY <1>2
    <2> QED BY <1>2, <1>3, <2>1
  <1>5. x = a
    BY <1>2, <1>3, <1>4
  <1> QED BY <1>5 DEF x, a

\* What is in the FIFO after one message was sent.
LEMMA SendOne ==
  ASSUME NEW M, pipe \in Seq(M), NEW m \in M, Send(<<m>>)
  PROVE  pipe' = IF CheckDaemon THEN Append(pipe, m) ELSE pipe
  <1>1. pipe \o <<m>> = Append(pipe, m)
    BY Behind
  <1> QED BY <1>1 DEF Send

\* Two messages behind others.
LEMMA BehindTwo ==
  ASSUME NEW M, NEW q \in Seq(M), NEW m \in M, NEW n \in M
  PROVE  q \o (<<m>> \o <<n>>) = Append(Append(q, m), n)
  <1> DEFINE a == Append(q, m)
             x == Append(a, n)
             one == <<m>>
             other == <<n>>
             two == one \o other
             y == q \o two
  <1>1. one \in Seq(M) /\ Len(one) = 1 /\ one[1] = m /\ other \in Seq(M) /\ Len(other) = 1 /\ other[1] = n
    OBVIOUS
  <1> HIDE DEF one, other
  <1>2. two \in Seq(M) /\ Len(two) = 2 /\ two[1] = m /\ two[2] = n
    BY <1>1, ConcatTwo
  <1> HIDE DEF two
  <1>3. /\ y \in Seq(M) /\ Len(y) = Len(q) + 2 /\ y[Len(q) + 1] = m /\ y[Len(q) + 2] = n
        /\ \A j \in 1..Len(q) : y[j] = q[j]
    <2>1. 1 \in 1..2 /\ 2 \in 1..2
      OBVIOUS
    <2>2. /\ y \in Seq(M) /\ Len(y) = Len(q) + Len(two)
          /\ \A j \in 1..Len(q) : y[j] = q[j]
          /\ \A j \in 1..Len(two) : y[Len(q) + j] = two[j]
      BY <1>2, ConcatElements
    <2> HIDE DEF y
    <2> QED BY <1>2, <2>1, <2>2
  <1> HIDE DEF y
  <1>4. /\ a \in Seq(M) /\ Len(a) = Len(q) + 1 /\ a[Len(q) + 1] = m
        /\ \A j \in 1..Len(q) : a[j] = q[j]
    OBVIOUS
  <1> HIDE DEF a
  <1>5. /\ x \in Seq(M) /\ Len(x) = Len(a) + 1 /\ x[Len(a) + 1] = n
        /\ \A j \in 1..Len(a) : x[j] = a[j]
    BY <1>4
  <1> HIDE DEF x
  <1>6. Len(x) = Len(y) /\ Len(q) \in Nat /\ Len(x) = Len(q) + 2
    BY <1>3, <1>4, <1>5
  <1>7. ASSUME NEW j \in 1..Len(x) PROVE x[j] = y[j]
    <2>1. CASE j \in 1..Len(q)
      BY <1>3, <1>4, <1>5, <2>1
    <2>2. CASE j = Len(q) + 1
      BY <1>3, <1>4, <1>5, <1>6, <2>2
    <2>3. CASE j = Len(q) + 2
      BY <1>3, <1>4, <1>5, <1>6, <2>3
    <2> QED BY <1>6, <2>1, <2>2, <2>3
  <1>8. x = y
    BY <1>3, <1>5, <1>6, <1>7
  <1> QED BY <1>8 DEF x, y, a, two, one, other

\* The same for two messages.
LEMMA SendTwo ==
  ASSUME NEW M, pipe \in Seq(M), NEW m \in M, NEW n \in M, Send(<<m>> \o <<n>>)
  PROVE  pipe' = IF CheckDaemon THEN Append(Append(pipe, m), n) ELSE pipe
  <1>1. pipe \o (<<m>> \o <<n>>) = Append(Append(pipe, m), n)
    BY BehindTwo
  <1> QED BY <1>1 DEF Send

\* Reading a message of each kind.
LEMMA ReadProgress ==
  ASSUME ScriptsInv, ConsoleInv, Progressing, Limit \in 0..Max, Limit' \in 0..Max, Limit <= Limit',
         Command
  PROVE  Progressing' /\ (~overlap => bar <= bar')
  <1> DEFINE h == Head(pipe)
  <1>1. /\ pipe \in Seq(Messages) /\ pipe # <<>> /\ pipe' = Tail(pipe) /\ Obey(h)
        /\ daemon = "running" /\ overlap' = overlap
    BY DEF Command, ConsoleInv
  <1>2. h.cmd \in {"services", "silent", "update_svc", "progress", "exit", "staysilent"}
    <2>1. h \in Messages
      <3> HIDE DEF Messages
      <3> QED BY <1>1
    <2> QED BY <2>1 DEF Messages
  <1>3. bar' = IF IsProgress(h) THEN Clamp(h.arg) ELSE bar
    BY <1>1, <1>2 DEF Obey, IsProgress
  <1>4. IsExit(h) => daemon' = "leaving"
    BY <1>1 DEF Obey, IsExit
  <1>5. PICK q, b, c, d, b2 : q = pipe /\ b = bar /\ c = Limit /\ d = Limit' /\ b2 = bar'
    OBVIOUS
  <1>6. /\ b2 \in 0..Max /\ Numbers(Tail(q))
        /\ Rising(q, b) => b <= b2
        /\ Fits(q, b, c) /\ ~IsExit(Head(q)) => Fits(Tail(q), b2, c)
    <2> HIDE DEF Messages
    <2>1. /\ q \in Seq(Messages) /\ q # <<>> /\ b \in 0..Max /\ c \in 0..Max /\ Numbers(q)
          /\ b2 = IF IsProgress(Head(q)) THEN Clamp(Head(q).arg) ELSE b
      BY <1>1, <1>3, <1>5 DEF Progressing
    <2> QED BY <2>1, OneLess
  <1>7. ASSUME ~overlap, daemon' = "running" PROVE Fits(Tail(q), b2, d)
    <2> HIDE DEF Messages
    <2>1. Fits(Tail(q), b2, c)
      BY <1>1, <1>4, <1>5, <1>6, <1>7 DEF Progressing
    <2>2. Tail(q) \in Seq(Messages) /\ c \in 0..Max /\ d \in 0..Max /\ c <= d
      BY <1>1, <1>5
    <2> QED BY <1>6, <2>1, <2>2, NoMore
  <1>8. ~overlap => Rising(q, b)
    BY <1>1, <1>5 DEF Progressing, Fits
  <1> QED BY <1>1, <1>5, <1>6, <1>7, <1>8 DEF Progressing

\* The limit does not go down.
LEMMA LimitStep ==
  ASSUME ScriptsInv, ScriptsInv', \A s \in Services : Where(s), [Next]_vars, level # "before"
  PROVE  Limit \in 0..Max /\ Limit' \in 0..Max /\ Limit <= Limit'
  <1>1. listed' = listed /\ (level = "over" => level' = "over")
    BY DEF Next, SplashStart, EnterDefault, EndBoot, Abort, StopFinish, EndShutdown, Begin, Wake,
           HookNow, ReadState, SvcHandle, RunService, HookDone, HookOut, Command, DaemonEnds,
           ConsoleSwitched, vars, rcVars, splashVars
  <1>2. PICK c, d : c = Ceil /\ d = Ceil'
    OBVIOUS
  <1>3. c \in 0..Max /\ d \in 0..Max /\ c <= d
    BY <1>1, <1>2, CeilStep
  <1>4. Limit = (IF level = "over" THEN Max ELSE c) /\ Limit' = (IF level' = "over" THEN Max ELSE d)
    BY <1>2 DEF Limit
  <1> QED BY <1>1, <1>3, <1>4, BootAssumption

\* Nothing is said, nothing is read.
LEMMA QuietProgress ==
  ASSUME Progressing, ConsoleInv, Limit \in 0..Max, Limit' \in 0..Max, Limit <= Limit',
         pipe' = pipe, bar' = bar, ~overlap' => ~overlap, daemon' = "running" => daemon = "running"
  PROVE  Progressing'
  <1>1. PICK q, b, c, d : q = pipe /\ b = bar /\ c = Limit /\ d = Limit'
    OBVIOUS
  <1> HIDE DEF Messages
  <1>2. q \in Seq(Messages) /\ b \in 0..Max /\ c \in 0..Max /\ d \in 0..Max /\ c <= d /\ Numbers(q)
    BY <1>1 DEF Progressing, ConsoleInv
  <1>3. ~overlap' /\ daemon' = "running" => Fits(q, b, c)
    BY <1>1 DEF Progressing
  <1>4. ~overlap' /\ daemon' = "running" => Fits(q, b, d)
    BY <1>2, <1>3, NoMore
  <1> QED BY <1>1, <1>2, <1>4 DEF Progressing

\* Numbers stay numbers.
LEMMA NumbersMore ==
  ASSUME NEW M, NEW q \in Seq(M), NEW m \in M, Numbers(q), IsProgress(m) => m.arg \in Int
  PROVE  Numbers(Append(q, m)) /\ Append(q, m) \in Seq(M)
  <1> DEFINE r == Append(q, m)
  <1>1. /\ Len(q) \in Nat /\ Len(r) = Len(q) + 1 /\ r[Len(q) + 1] = m /\ r \in Seq(M)
        /\ \A i \in 1..Len(q) : r[i] = q[i]
    OBVIOUS
  <1> HIDE DEF r
  <1>2. \A i \in 1..Len(r) : i \in 1..Len(q) \/ i = Len(q) + 1
    BY <1>1
  <1>3. Numbers(r)
    BY <1>1, <1>2 DEF Numbers
  <1> QED BY <1>1, <1>3 DEF r

\* One message is sent, with a progress that may be reported after it.
LEMMA SentProgress ==
  ASSUME Progressing, ConsoleInv, Limit \in 0..Max, Limit' \in 0..Max, Limit <= Limit',
         bar' = bar, ~overlap' => ~overlap, daemon' = daemon, NEW m,
         pipe' = Append(pipe, m) \/ pipe' = pipe,
         IsProgress(m) =>
           m.arg \in Int /\ (~overlap' => Limit <= Clamp(m.arg) /\ Clamp(m.arg) <= Limit')
  PROVE  Progressing'
  <1>1. CASE pipe' = pipe
    BY <1>1, QuietProgress
  <1>2. CASE pipe' = Append(pipe, m)
    <2>1. PICK q, b, c, d : q = pipe /\ b = bar /\ c = Limit /\ d = Limit'
      OBVIOUS
    <2>2. PICK M : M = Messages \union {m}
      OBVIOUS
    <2> HIDE DEF Messages
    <2>3. /\ b \in 0..Max /\ c \in 0..Max /\ d \in 0..Max /\ c <= d /\ Numbers(q)
          /\ q \in Seq(M) /\ m \in M
      <3>1. q \in Seq(Messages) /\ Messages \subseteq M
        BY <2>1, <2>2 DEF ConsoleInv
      <3>2. q \in Seq(M)
        BY <3>1
      <3> QED BY <2>1, <2>2, <3>2 DEF Progressing
    <2>4. Numbers(Append(q, m))
      BY <2>3, NumbersMore
    <2>5. ASSUME ~overlap', daemon' = "running" PROVE Fits(Append(q, m), b, d)
      <3>1. Fits(q, b, c)
        BY <2>1, <2>5 DEF Progressing
      <3>2. IsProgress(m) => m.arg \in Int /\ c <= Clamp(m.arg) /\ Clamp(m.arg) <= d
        BY <2>1, <2>5
      <3> QED BY <2>3, <3>1, <3>2, OneMore
    <2> QED BY <1>2, <2>1, <2>3, <2>4, <2>5 DEF Progressing
  <1> QED BY <1>1, <1>2

\* Two are sent, the second of which tells the progress.
LEMMA ReportProgress ==
  ASSUME Progressing, ConsoleInv, Limit \in 0..Max, Limit' \in 0..Max, Limit <= Limit',
         bar' = bar, ~overlap' => ~overlap, daemon' = daemon, NEW m, ~IsProgress(m), NEW n,
         pipe' = Append(Append(pipe, m), n) \/ pipe' = pipe,
         IsProgress(n) =>
           n.arg \in Int /\ (~overlap' => Limit <= Clamp(n.arg) /\ Clamp(n.arg) <= Limit')
  PROVE  Progressing'
  <1>1. CASE pipe' = pipe
    BY <1>1, QuietProgress
  <1>2. CASE pipe' = Append(Append(pipe, m), n)
    <2>1. PICK q, b, c, d, r : q = pipe /\ b = bar /\ c = Limit /\ d = Limit' /\ r = Append(q, m)
      OBVIOUS
    <2>2. PICK M : M = Messages \union {m, n}
      OBVIOUS
    <2> HIDE DEF Messages
    <2>3. /\ b \in 0..Max /\ c \in 0..Max /\ d \in 0..Max /\ c <= d /\ Numbers(q)
          /\ q \in Seq(M) /\ m \in M /\ n \in M
      <3>1. q \in Seq(Messages) /\ Messages \subseteq M
        BY <2>1, <2>2 DEF ConsoleInv
      <3>2. q \in Seq(M)
        BY <3>1
      <3> QED BY <2>1, <2>2, <3>2 DEF Progressing
    <2>4. Numbers(r) /\ r \in Seq(M)
      BY <2>1, <2>3, NumbersMore
    <2>5. Numbers(Append(r, n))
      BY <2>3, <2>4, NumbersMore
    <2>6. ASSUME ~overlap', daemon' = "running" PROVE Fits(Append(r, n), b, d)
      <3>1. Fits(q, b, c)
        BY <2>1, <2>6 DEF Progressing
      <3>2. Fits(r, b, c)
        <4>1. c <= c
          BY <2>3
        <4> QED BY <2>1, <2>3, <3>1, <4>1, OneMore
      <3>3. IsProgress(n) => n.arg \in Int /\ c <= Clamp(n.arg) /\ Clamp(n.arg) <= d
        BY <2>1, <2>6
      <3> QED BY <2>3, <2>4, <3>2, <3>3, OneMore
    <2> QED BY <1>2, <2>1, <2>3, <2>5, <2>6 DEF Progressing
  <1> QED BY <1>1, <1>2

\* The hooks of a script: one that counts services reports no less than those
\* before it.
LEMMA ScriptProgress ==
  ASSUME ScriptsInv, ConsoleInv, ShownInv, ProgressInv, ScriptsInv', NEW t \in Services, OneScript(t)
  PROVE  Progressing'
  <1>1. [Next]_vars /\ bar' = bar /\ daemon' = daemon /\ level' = level /\ (~overlap' => ~overlap)
    <2>1. [Next]_vars
      BY DEF Next, OneScript
    <2>2. bar' = bar /\ daemon' = daemon /\ level' = level
      BY DEF OneScript, Begin, Wake, HookNow, ReadState, SvcHandle, RunService, HookDone, HookOut,
             rcVars, splashVars
    <2>3. ~overlap' => ~overlap
      BY <2>1, SoloStep DEF ProgressInv
    <2> QED BY <2>1, <2>2, <2>3
  <1>2. Progressing /\ \A s \in Services : Where(s)
    BY DEF ProgressInv
  <1>3. CASE level = "before"
    <2>1. pipe' = pipe /\ daemon # "running"
      BY <1>3 DEF OneScript, Begin, Wake, HookNow, ReadState, SvcHandle, RunService, HookDone, HookOut,
                  Send, CheckDaemon, ConsoleInv, Alive
    <2> QED BY <1>1, <1>2, <2>1 DEF Progressing
  <1>4. CASE level # "before"
    <2>1. Limit \in 0..Max /\ Limit' \in 0..Max /\ Limit <= Limit'
      BY <1>1, <1>2, <1>4, LimitStep
    <2>2. CASE pipe' = pipe
      BY <1>1, <1>2, <2>1, <2>2, QuietProgress
    <2>3. CASE HookDone(t) /\ pipe' # pipe
      <3>1. PICK m : m = [cmd |-> "update_svc", svc |-> t, arg |-> Outcome(t)]
        OBVIOUS
      <3>2. PICK M : M = Messages \union {m}
        OBVIOUS
      <3>3. Send(<<m>>) /\ ~IsProgress(m)
        BY <2>3, <3>1 DEF HookDone, SvcMsg, IsProgress
      <3>4. pipe \in Seq(M)
        <4> HIDE DEF Messages
        <4> QED BY <3>2 DEF ConsoleInv
      <3>5. pipe' = Append(pipe, m) \/ pipe' = pipe
        BY <3>2, <3>3, <3>4, SendOne
      <3> QED BY <1>1, <1>2, <2>1, <3>3, <3>5, SentProgress
    <2>4. CASE SvcHandle(t) /\ pipe' # pipe
      <3>1. PICK state \in {"svc_start", "svc_stop"} :
              Reports(t) /\ Send(SvcMsg(t, state) \o ProgressMsg(ProgressOf(proc[t])))
        BY <2>4 DEF SvcHandle
      <3>2. PICK m, n : /\ m = [cmd |-> "update_svc", svc |-> t, arg |-> state]
                        /\ n = [cmd |-> "progress", svc |-> None, arg |-> ProgressOf(proc[t])]
        OBVIOUS
      <3>3. PICK M : M = Messages \union {m, n}
        OBVIOUS
      <3>4. Send(<<m>> \o <<n>>) /\ ~IsProgress(m) /\ n.arg = ProgressOf(proc[t])
        BY <3>1, <3>2 DEF SvcMsg, ProgressMsg, IsProgress
      <3>5. pipe \in Seq(M)
        <4> HIDE DEF Messages
        <4> QED BY <3>3 DEF ConsoleInv
      <3>6. pipe' = Append(Append(pipe, m), n) \/ pipe' = pipe
        BY <3>3, <3>4, <3>5, SendTwo
      <3>7. n.arg \in Int
        BY <3>1, <3>4, ServiceMessages DEF ScriptsInv
      <3>8. ASSUME ~overlap' PROVE Clamp(n.arg) = Ceil'
        <4>1. \A s \in Services \ {t} : Idle(s)
          BY <1>1, <3>8, SoloStep DEF ProgressInv
        <4>2. Reading(t)
          BY <1>1, <3>8 DEF ProgressInv
        <4> QED BY <1>2, <2>4, <3>1, <3>4, <4>1, <4>2, ReportedValue
      <3>9. level # "over" \/ daemon # "running"
        BY <2>4, <3>1 DEF Send, CheckDaemon, ConsoleInv, Alive
      <3>10. CASE daemon # "running"
        <4>1. ~overlap' /\ daemon' = "running" => FALSE
          BY <1>1, <3>10
        <4>2. PICK q : q = pipe
          OBVIOUS
        <4>3. q \in Seq(M) /\ m \in M /\ n \in M /\ Numbers(q)
          BY <1>2, <3>3, <3>5, <4>2 DEF Progressing
        <4>4. Append(q, m) \in Seq(M) /\ Numbers(Append(q, m))
          BY <3>4, <4>3, NumbersMore
        <4>5. Numbers(Append(Append(q, m), n))
          BY <3>7, <4>3, <4>4, NumbersMore
        <4> QED BY <1>1, <1>2, <2>4, <3>6, <4>1, <4>2, <4>5 DEF Progressing
      <3>11. CASE level # "over"
        <4>1. PICK c, d : c = Limit /\ d = Limit'
          OBVIOUS
        <4>2. d = Ceil' /\ c \in 0..Max /\ d \in 0..Max /\ c <= d
          BY <1>1, <2>1, <3>11, <4>1 DEF Limit
        <4>3. ~overlap' => c <= Clamp(n.arg) /\ Clamp(n.arg) <= d
          BY <3>8, <4>2
        <4>4. ~overlap' => Limit <= Clamp(n.arg) /\ Clamp(n.arg) <= Limit'
          BY <4>1, <4>3
        <4> QED BY <1>1, <1>2, <2>1, <3>4, <3>6, <3>7, <4>4, ReportProgress
      <3> QED BY <3>9, <3>10, <3>11
    <2> QED BY <2>2, <2>3, <2>4 DEF OneScript, Begin, Wake, HookNow, ReadState, RunService, HookOut
  <1> QED BY <1>3, <1>4

\* The hooks of rc: the last one fills the bar.
LEMMA RcProgress ==
  ASSUME ScriptsInv, ConsoleInv, ProgressInv, ScriptsInv',
         SplashStart \/ EnterDefault \/ EndBoot \/ Abort \/ StopFinish \/ EndShutdown
  PROVE  Progressing'
  <1>1. [Next]_vars /\ bar' = bar /\ overlap' = overlap
    BY DEF Next, SplashStart, EnterDefault, EndBoot, Abort, StopFinish, EndShutdown
  <1>2. Progressing /\ (\A s \in Services : Where(s)) /\ (level = "before" => bar = 0)
    BY DEF ProgressInv
  <1>3. CASE SplashStart
    <2>1. level = "before" /\ daemon # "running" /\ level' # "over"
      BY <1>3 DEF SplashStart, ConsoleInv, Alive, ScriptsInv, Types
    <2>2. CASE StartFails
      <3>1. pipe' = pipe /\ daemon' = daemon
        BY <2>2 DEF StartFails
      <3> QED BY <1>1, <1>2, <2>1, <3>1 DEF Progressing
    <2>3. CASE StartSucceeds
      <3> DEFINE m == [cmd |-> "services", svc |-> None, arg |-> None]
                 n == [cmd |-> "silent", svc |-> None, arg |-> None]
      <3>1. pipe' = <<m>> \o <<n>>
        BY <2>3 DEF StartSucceeds, Msg
      <3>2. PICK r : r = <<m>> \o <<n>>
        OBVIOUS
      <3>3. Len(r) = 2 /\ r[1] = m /\ r[2] = n
        BY <3>2
      <3>4. \A i \in 1..Len(r) : i = 1 \/ i = 2
        BY <3>3
      <3>5. \A i \in 1..Len(r) : ~IsProgress(r[i])
        BY <3>3, <3>4 DEF IsProgress
      <3>6. bar' = 0 /\ bar' \in 0..Max
        BY <1>1, <1>2, <2>1, BootAssumption
      <3>7. PICK d : d = Limit'
        OBVIOUS
      <3>8. d \in 0..Max
        <4>1. Up' \in SUBSET Services /\ StillUp' \in SUBSET Services /\ listed' \in SUBSET Services
          BY DEF ScriptsInv, Types, Up, StillUp
        <4>2. Cardinality(Up') \in Nat /\ Cardinality(StillUp') \in Nat /\ Cardinality(listed') \in Nat
          BY <4>1, ServiceSets
        <4>3. PICK k, n2 : k = Far' /\ n2 = Total'
          OBVIOUS
        <4>4. k \in Int /\ n2 \in Nat
          BY <4>2, <4>3 DEF Far, Total
        <4>5. n2 # 0 => Clamp((k * Max) \div n2) \in 0..Max
          <5>1. k <= k
            BY <4>4
          <5> QED BY <4>4, <5>1, CeilOrder
        <4>6. d = IF n2 = 0 THEN 0 ELSE Clamp((k * Max) \div n2)
          BY <2>1, <3>7, <4>3 DEF Limit, Ceil, Clamp
        <4> QED BY <4>5, <4>6, BootAssumption
      <3>9. Numbers(r) /\ Rising(r, 0) /\ Below(r, 0, d)
        BY <3>5, <3>8 DEF Numbers, Rising, Below
      <3> HIDE DEF m, n
      <3> QED BY <3>1, <3>2, <3>6, <3>7, <3>9 DEF Progressing, Fits
    <2> QED BY <1>3, <2>2, <2>3 DEF SplashStart
  <1>4. CASE ~SplashStart
    <2>1. level # "before" /\ daemon' = daemon
      BY <1>4 DEF EnterDefault, EndBoot, Abort, StopFinish, EndShutdown, splashVars
    <2>2. Limit \in 0..Max /\ Limit' \in 0..Max /\ Limit <= Limit'
      BY <1>1, <1>2, <2>1, LimitStep
    <2>3. CASE EnterDefault \/ StopFinish
      <3>1. pipe' = pipe
        BY <2>3 DEF EnterDefault, StopFinish
      <3> QED BY <1>1, <1>2, <2>1, <2>2, <3>1, QuietProgress
    <2>4. PICK m : m = [cmd |-> IF XStarted THEN "staysilent" ELSE "exit", svc |-> None, arg |-> None]
      OBVIOUS
    <2>5. PICK p : p = [cmd |-> "progress", svc |-> None, arg |-> Max]
      OBVIOUS
    <2>6. /\ ExitMsg = <<m>> /\ ~IsProgress(m) /\ IsExit(m)
          /\ ProgressMsg(Max) = <<p>> /\ IsProgress(p) /\ p.arg = Max
      BY <2>4, <2>5 DEF ExitMsg, Msg, ProgressMsg, IsProgress, IsExit
    <2>7. PICK M : M = Messages \union {m, p}
      OBVIOUS
    <2>8. pipe \in Seq(M) /\ m \in M /\ p \in M
      <3> HIDE DEF Messages
      <3> QED BY <2>7 DEF ConsoleInv
    <2>9. CASE Abort
      <3>1. Send(<<m>>)
        BY <2>6, <2>9 DEF Abort
      <3>2. pipe' = Append(pipe, m) \/ pipe' = pipe
        BY <2>8, <3>1, SendOne
      <3> QED BY <1>1, <1>2, <2>1, <2>2, <2>6, <3>2, SentProgress
    <2>10. Max \in Int /\ Clamp(Max) = Max /\ Limit <= Max
      BY <2>2, BootAssumption, ClampOrder
    <2>11. CASE EndShutdown
      <3>1. Send(<<p>>) /\ level' = "over"
        BY <2>6, <2>11 DEF EndShutdown
      <3>2. pipe' = Append(pipe, p) \/ pipe' = pipe
        BY <2>8, <3>1, SendOne
      <3>3. Limit' = Max
        BY <3>1 DEF Limit
      <3>4. p.arg \in Int /\ Limit <= Clamp(p.arg) /\ Clamp(p.arg) <= Limit'
        BY <2>6, <2>10, <3>3
      <3> QED BY <1>1, <1>2, <2>1, <2>2, <3>2, <3>4, SentProgress
    <2>12. CASE EndBoot
      <3>1. Send(<<p>> \o <<m>>)
        BY <2>6, <2>12 DEF EndBoot
      <3>2. pipe' = Append(Append(pipe, p), m) \/ pipe' = pipe
        BY <2>8, <3>1, SendTwo
      <3>3. CASE pipe' = pipe
        BY <1>1, <1>2, <2>1, <2>2, <3>3, QuietProgress
      <3>4. CASE pipe' = Append(Append(pipe, p), m)
        <4>1. PICK q, b, c, d, r, e :
                q = pipe /\ b = bar /\ c = Limit /\ d = Limit' /\ r = Append(q, p) /\ e = Append(r, m)
          OBVIOUS
        <4>2. /\ q \in Seq(M) /\ b \in 0..Max /\ c \in 0..Max /\ d \in 0..Max /\ Numbers(q)
              /\ c <= Max /\ Max \in 0..Max
          BY <1>2, <2>2, <2>8, <2>10, <4>1 DEF Progressing
        <4>3. r \in Seq(M) /\ Numbers(r)
          BY <2>6, <2>8, <2>10, <4>1, <4>2, NumbersMore
        <4>4. e \in Seq(M) /\ Numbers(e)
          BY <2>6, <2>8, <4>1, <4>3, NumbersMore
        <4>5. ASSUME ~overlap, daemon = "running" PROVE Fits(e, b, d)
          <5>1. Fits(q, b, c)
            BY <1>2, <4>1, <4>5 DEF Progressing
          <5>2. Fits(r, b, Max)
            <6>1. IsProgress(p) => p.arg \in Int /\ c <= Clamp(p.arg) /\ Clamp(p.arg) <= Max
              BY <2>6, <2>10, <4>2
            <6> QED BY <2>8, <4>1, <4>2, <5>1, <6>1, OneMore
          <5>3. Fits(e, b, Max)
            <6>1. Max <= Max
              BY <4>2
            <6> QED BY <2>6, <2>8, <4>1, <4>2, <4>3, <5>2, <6>1, OneMore
          <5>4. \E k \in 1..Len(e) : IsExit(e[k])
            <6>1. Len(r) + 1 \in 1..Len(e) /\ e[Len(r) + 1] = m
              BY <4>1, <4>3
            <6> QED BY <2>6, <6>1
          <5> QED BY <4>2, <4>4, <5>3, <5>4, NoMore
        <4> QED BY <1>1, <2>1, <3>4, <4>1, <4>2, <4>4, <4>5 DEF Progressing
      <3> QED BY <3>2, <3>3, <3>4
    <2> QED BY <1>4, <2>3, <2>9, <2>11, <2>12
  <1> QED BY <1>3, <1>4

\* Every step keeps what the progress rests on, and does not let the bar go back.
LEMMA ProgressStep ==
  ASSUME IInv, ProgressInv, [Next]_vars
  PROVE  ProgressInv' /\ (daemon' = "running" => bar' <= Max /\ (~overlap => bar' >= bar))
  <1> USE DEF IInv
  <1>1. ScriptsInv' /\ (\A s \in Services : Where(s)) /\ Progressing
    BY ScriptsStep DEF ProgressInv
  <1>2. (\A s \in Services : Where(s)') /\ (~overlap' => Solo' /\ \A s \in Services : Reading(s)')
    BY WhereStep, SoloStep, ReadingStep DEF ProgressInv
  <1>3. level' = "before" => level = "before" /\ bar' \in {bar, 0}
    <2>1. ASSUME NEW t \in Services, OneScript(t) PROVE level' = level /\ bar' = bar
      BY <2>1 DEF OneScript, Begin, Wake, HookNow, ReadState, SvcHandle, RunService, HookDone, HookOut,
                  rcVars
    <2>2. CASE SplashStart \/ EnterDefault \/ EndBoot \/ Abort \/ StopFinish \/ EndShutdown
      BY <2>2 DEF SplashStart, EnterDefault, EndBoot, Abort, StopFinish, EndShutdown, ScriptsInv, Types
    <2>3. CASE Command \/ DaemonEnds \/ ConsoleSwitched \/ UNCHANGED vars
      <3>1. level' = level /\ (Command => daemon = "running")
        BY <2>3 DEF Command, DaemonEnds, ConsoleSwitched, vars, rcVars
      <3>2. Command => level # "before"
        BY <3>1 DEF ConsoleInv, Alive
      <3>3. ~Command => bar' \in {bar, 0}
        BY <2>3 DEF DaemonEnds, ConsoleSwitched, vars
      <3> QED BY <3>1, <3>2, <3>3
    <2> QED BY <2>1, <2>2, <2>3 DEF Next, OneScript
  <1>4. Progressing' /\ (daemon' = "running" /\ ~overlap => bar <= bar')
    <2>0. bar' = bar => (daemon' = "running" /\ ~overlap => bar <= bar')
      BY <1>1 DEF Progressing
    <2>1. ASSUME NEW t \in Services, OneScript(t) PROVE Progressing' /\ bar' = bar
      BY <1>1, <2>1, ScriptProgress DEF OneScript, Begin, Wake, HookNow, ReadState, SvcHandle,
                                        RunService, HookDone, HookOut
    <2>2. CASE SplashStart \/ EnterDefault \/ EndBoot \/ Abort \/ StopFinish \/ EndShutdown
      <3>1. bar' = bar
        BY <2>2 DEF SplashStart, EnterDefault, EndBoot, Abort, StopFinish, EndShutdown
      <3> QED BY <1>1, <2>0, <2>2, <3>1, RcProgress
    <2>3. CASE Command
      <3>1. level # "before"
        BY <2>3 DEF Command, ConsoleInv, Alive
      <3>2. Limit \in 0..Max /\ Limit' \in 0..Max /\ Limit <= Limit'
        BY <1>1, <3>1, LimitStep
      <3> QED BY <1>1, <2>3, <3>2, ReadProgress
    <2>4. CASE DaemonEnds
      <3>1. daemon' # "running" /\ bar' = 0 /\ pipe' = <<>>
        BY <2>4 DEF DaemonEnds
      <3>2. Numbers(pipe') /\ bar' \in 0..Max
        BY <3>1, BootAssumption DEF Numbers
      <3> QED BY <3>1, <3>2 DEF Progressing
    <2>5. CASE ConsoleSwitched \/ UNCHANGED vars
      <3>1. UNCHANGED <<pipe, bar, daemon, overlap, level>>
        BY <2>5 DEF ConsoleSwitched, vars, splashVars, rcVars
      <3>2. CASE level = "before"
        BY <1>1, <2>0, <3>1, <3>2 DEF Progressing, ConsoleInv, Alive
      <3>3. CASE level # "before"
        <4>1. Limit \in 0..Max /\ Limit' \in 0..Max /\ Limit <= Limit'
          BY <1>1, <3>3, LimitStep
        <4> QED BY <1>1, <2>0, <3>1, <4>1, QuietProgress
      <3> QED BY <3>2, <3>3
    <2> QED BY <2>0, <2>1, <2>2, <2>3, <2>4, <2>5 DEF Next, OneScript
  <1>5. bar \in Int /\ bar' \in Int /\ bar' <= Max
    BY <1>1, <1>4, BootAssumption DEF Progressing
  <1>6. level' = "before" => bar' = 0
    BY <1>3 DEF ProgressInv
  <1>7. daemon' = "running" => bar' <= Max /\ (~overlap => bar' >= bar)
    BY <1>4, <1>5
  <1>8. ProgressInv'
    BY <1>2, <1>4, <1>6 DEF ProgressInv
  <1> QED BY <1>7, <1>8

\* Before anything happened.
LEMMA InitProgress == Init => ProgressInv
  <1> SUFFICES ASSUME Init PROVE ProgressInv
    OBVIOUS
  <1>1. /\ bar = 0 /\ pipe = <<>> /\ daemon = "none" /\ sched = {} /\ waking = {}
        /\ phase \in {"boot", "shutdown"} /\ proc = [s \in Services |-> NoHook]
    BY DEF Init
  <1>2. \A s \in Services : proc[s].pc = "idle"
    BY <1>1 DEF NoHook
  <1>3. PICK up \in SUBSET Services :
          /\ st = [s \in Services |-> IF s \in up THEN "started" ELSE "stopped"]
          /\ left = IF phase = "boot" THEN Services \ up ELSE up \intersect Listed
    BY DEF Init
  <1>4. \A s \in Services : Where(s)
    BY <1>1, <1>2, <1>3 DEF Where
  <1>5. Solo /\ \A s \in Services : Reading(s)
    BY <1>2 DEF Solo, Idle, Reading
  <1>6. Progressing
    BY <1>1, BootAssumption DEF Progressing, Numbers
  <1> QED BY <1>1, <1>4, <1>5, <1>6 DEF ProgressInv

\* While init scripts run one at a time the progress bar does not go back, and
\* it never goes past the end: for any services and states they end up in,
\* however far fbsplashd is behind.
THEOREM ForwardTheorem == Spec => ProgressForward
  <1>1. Init => ProgressInv
    BY InitProgress
  <1>2. IInv /\ ProgressInv /\ [Next]_vars => ProgressInv'
    BY ProgressStep
  <1>3. IInv /\ ProgressInv /\ [Next]_vars
          => [daemon' = "running" => bar' <= Max /\ (~overlap => bar' >= bar)]_vars
    BY ProgressStep
  <1> QED BY <1>1, <1>2, <1>3, BootInvariance, PTL DEF Spec, ProgressForward
================================================================================
