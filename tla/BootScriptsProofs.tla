---------------------------- MODULE BootScriptsProofs ----------------------------
(***************************************************************************)
(* Proofs about BootScripts for any number of scripts and of messages on   *)
(* their way, read in any order, and of switches served late: prompts      *)
(* stay visible, the progress is never ahead of the reports, the file      *)
(* counts every service once, what was told is on the screen once all is   *)
(* quiet, and the boot ends on the console it should.                      *)
(***************************************************************************)
EXTENDS BootScripts, FiniteSetTheorems, TLAPS

\* The messages, with any number for the progress.
Messages ==
  {Svc(s, st) : s \in Services, st \in States} \union {Progress(n) : n \in Nat}
    \union {Exit(stay) : stay \in BOOLEAN} \union {Paint, Repaint, ModeSilent, SetTty}

Counts == [count : Nat, execed : SUBSET Services]

MessageTypes ==
  /\ sent \in Seq(Messages) /\ todo \in [Processes -> Seq(Messages)]

CountTypes ==
  /\ env \in Counts /\ loaded \in [Services -> Counts]
  /\ file \in [state : {"none", "empty", "full"}, vars : Counts]

ScriptTypes ==
  script \in [Services -> [pc : {"idle", "run", "leave", "prompt", "load", "save", "write", "done"},
                           told : States, reported : BOOLEAN]]

RcPlaces == {"off", "sysinit", "default", "exit", "kill", "unmount", "ended"}

RcStates == [pc : RcPlaces, left : {"", "CDBOOT", "tmpdir", "cache"}, stay : BOOLEAN]

Daemons == [alive : BOOLEAN, tty : {TtySilent, conf.tty}, ctty : {"silent", "verbose"},
            sig : SUBSET {"come", "leave"}, missed : BOOLEAN,
            svc : [Services -> States], bar : Nat]

\* fbsplashd and the consoles; it runs no earlier than Sysinit, and has not
\* heard of another silent tty before.
ConsoleTypes ==
  /\ daemon \in Daemons
  /\ front \in {Verbose, TtySilent, conf.tty}
  /\ rc \in RcStates
  /\ rc.pc = "off" => ~daemon.alive /\ daemon.tty = TtySilent

Types == MessageTypes /\ CountTypes /\ ScriptTypes /\ ConsoleTypes

\* While a prompt of s is open that is not excused, no switch to the silent
\* tty is to come, and none will be sent by another script, whose prompt is
\* neither open on account of the silent tty nor about to be.
Undisturbed(s) ==
  /\ front = Verbose /\ conf.tty = TtySilent
  /\ own \subseteq {s} /\ ~SilentToCome
  /\ \A t \in Services \ {s} : script[t].pc # "leave"

PromptsUndisturbed ==
  \A s \in Services \ excused : script[s].pc = "prompt" /\ daemon.alive => Undisturbed(s)

Reporters == {s \in Services : script[s].reported}

\* No more is counted in c than services that reported.
CountsReports(c) == c.execed \subseteq Reporters /\ c.count <= Cardinality(c.execed)

\* Every progress on its way, or about to be sent, is that of some services
\* that reported.
ProgressOfReports ==
  \A n \in Nat :
    (Progress(n) \in Range(sent) \/ \E p \in Processes : Progress(n) \in Range(todo[p]))
      => n <= Cardinality(Reporters)

ReportsCounted ==
  /\ \A s \in Services : script[s].pc = "load" => s \in Reporters
  /\ ~garbled =>
       /\ CountsReports(env) /\ CountsReports(file.vars)
       /\ \A s \in Services : CountsReports(loaded[s])
       /\ ProgressOfReports

\* Only services that reported are ever listed, even in a file that is a mix of
\* two.
OnlyReporters ==
  /\ env.execed \subseteq Reporters /\ file.vars.execed \subseteq Reporters
  /\ \A s \in Services : loaded[s].execed \subseteq Reporters

IInv == Types /\ PromptsUndisturbed /\ ReportsCounted /\ OnlyReporters

-----------------------------------------------------------------------------
(* Messages                                                                *)

\* What is left when the n-th is taken out.
LEMMA RemoveAtIs ==
  ASSUME NEW S, NEW l \in Seq(S), NEW n \in DOMAIN l
  PROVE  /\ Len(l) \in Nat /\ n \in 1..Len(l) /\ DOMAIN l = 1..Len(l)
         /\ RemoveAt(l, n) \in Seq(S) /\ DOMAIN RemoveAt(l, n) = 1..Len(l)-1
         /\ \A k \in 1..Len(l)-1 : k < n => RemoveAt(l, n)[k] = l[k]
         /\ \A k \in 1..Len(l)-1 : k >= n => RemoveAt(l, n)[k] = l[k+1]
  <1> DEFINE u == SubSeq(l, 1, n-1)
             v == SubSeq(l, n+1, Len(l))
  <1>1. n \in 1..Len(l) /\ Len(l) \in Nat /\ DOMAIN l = 1..Len(l)
    OBVIOUS
  <1>2. u \in Seq(S) /\ Len(u) = n-1 /\ \A m \in 1..n-1 : u[m] = l[m]
    BY <1>1
  <1>3. v \in Seq(S) /\ Len(v) = Len(l)-n /\ \A m \in 1..Len(l)-n : v[m] = l[m+n]
    BY <1>1
  <1>4. RemoveAt(l, n) = u \o v
    BY DEF RemoveAt
  <1> HIDE DEF u, v
  <1>5. u \o v \in Seq(S) /\ DOMAIN (u \o v) = 1..Len(l)-1
    <2>1. u \o v \in Seq(S) /\ Len(u \o v) = Len(u) + Len(v)
      <3>1. u \in Seq(S) /\ v \in Seq(S)
        BY <1>2, <1>3
      <3> QED BY <3>1
    <2>2. (n-1) + (Len(l)-n) = Len(l)-1
      BY <1>1
    <2>3. Len(u \o v) = Len(l)-1
      BY <1>2, <1>3, <2>1, <2>2
    <2> QED BY <2>1, <2>3
  <1>6. ASSUME NEW k \in 1..Len(l)-1, k < n PROVE (u \o v)[k] = l[k]
    BY <1>1, <1>2, <1>3, <1>6
  <1>7. ASSUME NEW k \in 1..Len(l)-1, k >= n PROVE (u \o v)[k] = l[k+1]
    <2>1. (u \o v)[k] = v[k - (n-1)] /\ k - (n-1) \in 1..Len(l)-n
      BY SMTT(30), <1>1, <1>2, <1>3, <1>7
    <2>2. v[k - (n-1)] = l[(k - (n-1)) + n] /\ (k - (n-1)) + n = k+1
      BY <1>1, <1>3, <2>1
    <2> QED BY <2>1, <2>2
  <1> QED BY <1>1, <1>4, <1>5, <1>6, <1>7

\* Where each message is when the n-th is taken out.
LEMMA RemoveAtMoves ==
  ASSUME NEW S, NEW l \in Seq(S), NEW n \in DOMAIN l
  PROVE  /\ \A k \in DOMAIN RemoveAt(l, n) :
              \E j \in DOMAIN l \ {n} : RemoveAt(l, n)[k] = l[j] /\ j = IF k < n THEN k ELSE k+1
         /\ \A j \in DOMAIN l \ {n} :
              \E k \in DOMAIN RemoveAt(l, n) : RemoveAt(l, n)[k] = l[j] /\ j = IF k < n THEN k ELSE k+1
         /\ DOMAIN l \subseteq Nat /\ DOMAIN RemoveAt(l, n) \subseteq Nat
  <1> DEFINE r == RemoveAt(l, n)
  <1>1. /\ Len(l) \in Nat /\ n \in 1..Len(l) /\ DOMAIN l = 1..Len(l)
        /\ DOMAIN r = 1..Len(l)-1
        /\ \A k \in 1..Len(l)-1 : k < n => r[k] = l[k]
        /\ \A k \in 1..Len(l)-1 : k >= n => r[k] = l[k+1]
    BY RemoveAtIs
  <1> HIDE DEF r
  <1>2. ASSUME NEW k \in DOMAIN r
        PROVE  \E j \in DOMAIN l \ {n} : r[k] = l[j] /\ j = IF k < n THEN k ELSE k+1
    <2>1. CASE k < n
      BY <1>1, <2>1
    <2>2. CASE k >= n
      <3>1. k+1 \in DOMAIN l \ {n} /\ r[k] = l[k+1] /\ ~(k < n)
        BY <1>1, <2>2
      <3> QED BY <3>1
    <2> QED BY <1>1, <2>1, <2>2
  <1>3. ASSUME NEW j \in DOMAIN l \ {n}
        PROVE  \E k \in DOMAIN r : r[k] = l[j] /\ j = IF k < n THEN k ELSE k+1
    <2>1. CASE j < n
      <3>1. j \in DOMAIN r /\ r[j] = l[j]
        BY <1>1, <2>1
      <3> QED BY <2>1, <3>1
    <2>2. CASE j > n
      <3>1. j-1 \in DOMAIN r /\ j-1 >= n /\ (j-1)+1 = j /\ ~(j-1 < n)
        BY <1>1, <2>2
      <3>2. r[j-1] = l[j]
        BY <1>1, <3>1
      <3> QED BY <3>1, <3>2
    <2> QED BY <1>1, <2>1, <2>2
  <1> QED BY <1>1, <1>2, <1>3 DEF r

\* They are messages that were there before.
LEMMA RemoveAtKeeps ==
  ASSUME NEW S, NEW l \in Seq(S), NEW n \in DOMAIN l
  PROVE  RemoveAt(l, n) \in Seq(S) /\ Range(RemoveAt(l, n)) \subseteq Range(l)
  <1> DEFINE r == RemoveAt(l, n)
  <1>1. /\ r \in Seq(S)
        /\ \A k \in DOMAIN r : \E j \in DOMAIN l \ {n} : r[k] = l[j]
    BY RemoveAtIs, RemoveAtMoves
  <1> HIDE DEF r
  <1>2. Range(r) \subseteq Range(l)
    BY <1>1 DEF Range
  <1> QED BY <1>1, <1>2 DEF r

\* A message added at the end.
LEMMA AppendKeeps ==
  ASSUME NEW S, NEW l \in Seq(S), NEW m \in S
  PROVE  Append(l, m) \in Seq(S) /\ Range(Append(l, m)) = Range(l) \union {m}
  <1>1. /\ Append(l, m) \in Seq(S) /\ DOMAIN Append(l, m) = 1..Len(l)+1
        /\ DOMAIN l = 1..Len(l) /\ Len(l) \in Nat
        /\ Append(l, m)[Len(l)+1] = m /\ \A i \in 1..Len(l) : Append(l, m)[i] = l[i]
    OBVIOUS
  <1> QED BY <1>1 DEF Range

\* Messages behind others.
LEMMA ConcatKeeps ==
  ASSUME NEW S, NEW k \in Seq(S), NEW l \in Seq(S)
  PROVE  Range(k \o l) = Range(k) \union Range(l)
  <1>1. /\ DOMAIN (k \o l) = 1..Len(k)+Len(l) /\ DOMAIN k = 1..Len(k) /\ DOMAIN l = 1..Len(l)
        /\ Len(k) \in Nat /\ Len(l) \in Nat
        /\ \A i \in 1..Len(k) : (k \o l)[i] = k[i]
        /\ \A i \in 1..Len(l) : (k \o l)[Len(k)+i] = l[i]
    OBVIOUS
  <1>2. ASSUME NEW i \in 1..Len(k)+Len(l) PROVE (k \o l)[i] \in Range(k) \union Range(l)
    <2>1. CASE i <= Len(k)
      BY <1>1, <2>1 DEF Range
    <2>2. CASE i > Len(k)
      <3>1. i - Len(k) \in DOMAIN l /\ (k \o l)[i] = l[i - Len(k)]
        BY <1>1, <2>2
      <3> QED BY <3>1 DEF Range
    <2> QED BY <1>1, <2>1, <2>2
  <1>3. Range(k) \subseteq Range(k \o l)
    BY <1>1 DEF Range
  <1>4. ASSUME NEW i \in DOMAIN l PROVE l[i] \in Range(k \o l)
    <2>1. Len(k)+i \in DOMAIN (k \o l)
      BY <1>1
    <2> QED BY <1>1, <2>1 DEF Range
  <1> QED BY <1>1, <1>2, <1>3, <1>4 DEF Range

\* The first message and the rest.
LEMMA HeadTailKeep ==
  ASSUME NEW S, NEW l \in Seq(S), l # <<>>
  PROVE  /\ Head(l) \in S /\ Head(l) \in Range(l)
         /\ Tail(l) \in Seq(S) /\ Range(Tail(l)) \subseteq Range(l)
  <1>1. Len(l) \in Nat \ {0} /\ DOMAIN l = 1..Len(l) /\ Head(l) = l[1] /\ Head(l) \in S
    OBVIOUS
  <1>2. /\ Tail(l) \in Seq(S) /\ DOMAIN Tail(l) = 1..Len(l)-1
        /\ \A i \in 1..Len(l)-1 : Tail(l)[i] = l[i+1]
    OBVIOUS
  <1> QED BY <1>1, <1>2 DEF Range

\* What splash_init reports of the services, whatever their order.
LEMMA InactiveMessages ==
  /\ Inactive \in Seq(Messages) /\ ModeSilent \notin Range(Inactive)
  /\ \A n \in Nat : Progress(n) \notin Range(Inactive)
  /\ \A m \in Range(Inactive) : \E s \in Services : m = Svc(s, "inactive")
  <1> DEFINE l == SetToSeq(Services)
  <1>1. PICK n \in Nat : ExistsBijection(1..n, Services)
    BY FS_NatBijection, ScriptsAssumption
  <1>2. n = Cardinality(Services)
    BY <1>1, FS_CountingElements
  <1>3. PICK f : f \in Bijection(1..n, Services)
    BY <1>1 DEF ExistsBijection
  <1>4. f \in [1..n -> Services] /\ IsInjective(f)
    BY <1>3 DEF Bijection, Injection, Surjection, IsInjective
  <1>5. l \in [1..n -> Services]
    BY <1>2, <1>4 DEF SetToSeq
  <1>6. Inactive = [i \in 1..n |-> Svc(l[i], "inactive")]
    BY <1>5 DEF Inactive
  <1>7. \A i \in 1..n : Svc(l[i], "inactive") \in Messages
    BY <1>5 DEF Messages, States
  <1>8. Inactive \in Seq(Messages)
    BY <1>1, <1>6, <1>7
  <1>9. \A i \in 1..n : Inactive[i] # ModeSilent
    BY <1>6 DEF Svc, ModeSilent
  <1>10. \A i \in 1..n, k \in Nat : Inactive[i] # Progress(k)
    <2>1. \A i \in 1..n : Inactive[i][1] = "update_svc"
      BY <1>6 DEF Svc
    <2>2. \A k \in Nat : Progress(k)[1] = "progress"
      BY DEF Progress
    <2> QED BY <2>1, <2>2
  <1>11. Range(Inactive) = {Inactive[i] : i \in 1..n}
    BY <1>6 DEF Range
  <1>12. \A m \in Range(Inactive) : \E s \in Services : m = Svc(s, "inactive")
    BY <1>5, <1>6, <1>11
  <1> QED BY <1>8, <1>9, <1>10, <1>11, <1>12

-----------------------------------------------------------------------------
(* What steps do                                                           *)

\* fbsplashd's reactions to a message, one for each kind.
LEMMA ObeyEffects ==
  ASSUME NEW m \in Messages, Obey(m)
  PROVE  \/ \E s \in Services, st \in States :
              /\ m = Svc(s, st) /\ daemon' = [daemon EXCEPT !.svc[s] = st]
              /\ UNCHANGED front
         \/ \E n \in Nat :
              /\ m = Progress(n) /\ daemon' = [daemon EXCEPT !.bar = n]
              /\ UNCHANGED front
         \/ m \in {Paint, Repaint} /\ UNCHANGED <<daemon, front>>
         \/ /\ m = ModeSilent /\ ToFront(daemon, daemon.tty)
         \/ /\ m = SetTty /\ daemon' = [daemon EXCEPT !.tty = conf.tty]
            /\ UNCHANGED front
         \/ \E stay \in BOOLEAN : m = Exit(stay) /\ ObeyExit(stay)
  <1>1. CASE \E s \in Services, st \in States : m = Svc(s, st)
    <2> PICK s \in Services, st \in States : m = Svc(s, st)
      BY <1>1
    <2>1. m[1] = "update_svc" /\ m[2] = s /\ m[3] = st
      BY DEF Svc
    <2>2. daemon' = [daemon EXCEPT !.svc[s] = st] /\ front' = front
      BY <2>1 DEF Obey
    <2> QED BY <2>2
  <1>2. CASE \E n \in Nat : m = Progress(n)
    <2> PICK n \in Nat : m = Progress(n)
      BY <1>2
    <2>1. m[1] = "progress" /\ m[2] = n
      BY DEF Progress
    <2>2. daemon' = [daemon EXCEPT !.bar = n] /\ front' = front
      BY <2>1 DEF Obey
    <2> QED BY <2>2
  <1>3. CASE m \in {Paint, Repaint}
    <2>1. m[1] \in {"paint", "repaint"}
      BY <1>3 DEF Paint, Repaint
    <2>2. daemon' = daemon /\ front' = front
      BY <1>3, <2>1 DEF Obey
    <2> QED BY <1>3, <2>2
  <1>4. CASE m = ModeSilent
    <2>1. m[1] = "set mode silent"
      BY <1>4 DEF ModeSilent
    <2>2. ToFront(daemon, daemon.tty)
      BY <1>4, <2>1 DEF Obey
    <2> QED BY <1>4, <2>2
  <1>5. CASE m = SetTty
    <2>1. m[1] = "set tty silent"
      BY <1>5 DEF SetTty
    <2>2. daemon' = [daemon EXCEPT !.tty = conf.tty] /\ front' = front
      BY <1>5, <2>1 DEF Obey
    <2> QED BY <1>5, <2>2
  <1>6. CASE \E stay \in BOOLEAN : m = Exit(stay)
    <2> PICK stay \in BOOLEAN : m = Exit(stay)
      BY <1>6
    <2>1. m[1] = "exit" /\ m[2] = stay
      BY DEF Exit
    <2>2. ObeyExit(stay)
      BY <2>1 DEF Obey
    <2> QED BY <2>2
  <1>7. \/ \E s \in Services, st \in States : m = Svc(s, st)
        \/ \E n \in Nat : m = Progress(n)
        \/ m \in {Paint, Repaint} \/ m = ModeSilent \/ m = SetTty
        \/ \E stay \in BOOLEAN : m = Exit(stay)
    BY DEF Messages
  <1> QED BY <1>1, <1>2, <1>3, <1>4, <1>5, <1>6, <1>7, Zenon

\* A console that comes to the front changes what fbsplashd knows of it, and
\* which signals it has to serve.
LEMMA ToFrontKeeps ==
  ASSUME daemon \in Daemons, NEW v \in {Verbose, TtySilent, conf.tty}, ToFront(daemon, v),
         conf' = conf
  PROVE  /\ daemon' \in Daemons' /\ front' = v /\ front' \in {Verbose, TtySilent, conf.tty}'
         /\ daemon'.alive = daemon.alive /\ daemon'.tty = daemon.tty
         /\ daemon'.svc = daemon.svc /\ daemon'.bar = daemon.bar
         /\ ("leave" \in daemon.sig => daemon.missed) => ("leave" \in daemon'.sig => daemon'.missed)
         /\ front = v => daemon' = daemon /\ screen' = screen
         /\ front # v /\ v = daemon.tty /\ daemon.alive => "come" \in daemon'.sig
         /\ ~daemon.alive => daemon' = daemon
  <1> DEFINE e == [daemon EXCEPT !.missed = @ \/ daemon.sig # {}]
  <1>1. e \in Daemons
    BY DEF Daemons
  <1>2. front' = v /\ (front = v => screen' = screen) /\ daemon' \in Told(daemon, v)
    BY DEF ToFront
  <1>3. \/ daemon' = daemon /\ (v = front \/ ~daemon.alive \/ daemon.tty \notin {front, v})
        \/ /\ daemon' = [e EXCEPT !.sig = @ \union {"come"}]
           /\ v # front /\ v = daemon.tty /\ daemon.alive
        \/ /\ daemon' = [e EXCEPT !.ctty = "verbose", !.sig = @ \ {"leave"}]
           /\ v # front /\ v # daemon.tty /\ daemon.alive
        \/ /\ daemon' = [e EXCEPT !.ctty = "silent", !.sig = {"leave"}] /\ "come" \in daemon.sig
           /\ v # front /\ v # daemon.tty /\ daemon.alive
    BY <1>2 DEF Told
  <1> HIDE DEF e
  <1>4. /\ e.sig = daemon.sig /\ e.alive = daemon.alive /\ e.tty = daemon.tty /\ e.svc = daemon.svc
        /\ e.bar = daemon.bar /\ (daemon.missed => e.missed) /\ (daemon.sig # {} => e.missed)
    BY DEF e, Daemons
  <1>5. CASE daemon' = daemon /\ (v = front \/ ~daemon.alive \/ daemon.tty \notin {front, v})
    BY <1>2, <1>5 DEF Daemons
  <1>6. CASE /\ daemon' = [e EXCEPT !.sig = @ \union {"come"}]
             /\ v # front /\ v = daemon.tty /\ daemon.alive
    BY <1>1, <1>2, <1>4, <1>6 DEF Daemons
  <1>7. CASE /\ daemon' = [e EXCEPT !.ctty = "verbose", !.sig = @ \ {"leave"}]
             /\ v # front /\ v # daemon.tty /\ daemon.alive
    BY <1>1, <1>2, <1>4, <1>7 DEF Daemons
  <1>8. CASE /\ daemon' = [e EXCEPT !.ctty = "silent", !.sig = {"leave"}] /\ "come" \in daemon.sig
             /\ v # front /\ v # daemon.tty /\ daemon.alive
    BY <1>1, <1>2, <1>4, <1>8 DEF Daemons
  <1> QED BY <1>3, <1>5, <1>6, <1>7, <1>8

\* A signal that is served changes ctty, and the one of the silent tty paints.
LEMMA NoticeEffects ==
  ASSUME NEW x \in {"come", "leave"}, Notice(x), daemon \in Daemons
  PROVE  /\ daemon.alive /\ x \in daemon.sig
         /\ daemon' \in Daemons' /\ daemon'.alive /\ daemon'.tty = daemon.tty
         /\ daemon'.svc = daemon.svc /\ daemon'.bar = daemon.bar /\ Picture(daemon') = Picture(daemon)
         /\ daemon'.missed = daemon.missed /\ daemon'.sig = daemon.sig \ {x}
         /\ daemon'.ctty = IF x = "come" THEN "silent" ELSE "verbose"
         /\ daemon'.ctty = "silent" => screen' = Picture(daemon)
         /\ UNCHANGED <<rc, script, todo, sent, front, behind, conf, progressVars, promptVars, killed>>
  BY DEF Notice, Daemons, Picture

\* fbsplashd ends; if it finds its tty in front it asks for the verbose one,
\* and the switch comes or is forgotten.
LEMMA ObeyExitEffects ==
  ASSUME NEW stay \in BOOLEAN, ObeyExit(stay), daemon \in Daemons, conf' = conf,
         front \in {Verbose, TtySilent, conf.tty}
  PROVE  /\ daemon' \in Daemons' /\ ~daemon'.alive /\ front' \in {Verbose, TtySilent, conf.tty}'
         /\ front' \in {front, Verbose} /\ daemon'.sig = {}
         /\ daemon.missed \/ daemon.sig # {} => daemon'.missed
         /\ front' # Verbose /\ daemon.ctty = "silent" => stay \/ daemon'.missed
  <1> DEFINE asks == daemon.ctty = "silent" /\ ~stay
  <1>1. PICK forgotten \in BOOLEAN :
          /\ front' = IF asks /\ ~forgotten THEN Verbose ELSE front
          /\ daemon' = [daemon EXCEPT !.alive = FALSE, !.sig = {},
                                      !.missed = @ \/ daemon.sig # {} \/ forgotten]
    BY Zenon DEF ObeyExit
  <1>2. front' \in {front, Verbose} /\ (asks => forgotten \/ front' = Verbose)
    BY <1>1
  <1> HIDE DEF asks
  <1>3. /\ ~daemon'.alive /\ daemon'.sig = {} /\ daemon'.tty = daemon.tty /\ daemon'.ctty = daemon.ctty
        /\ daemon'.missed = (daemon.missed \/ daemon.sig # {} \/ forgotten)
    BY <1>1 DEF Daemons
  <1>4. daemon' \in Daemons'
    BY <1>1 DEF Daemons
  <1>5. front' \in {Verbose, TtySilent, conf.tty}'
    BY <1>2
  <1>6. front' # Verbose /\ daemon.ctty = "silent" => stay \/ daemon'.missed
    BY <1>2, <1>3 DEF asks
  <1> QED BY <1>2, <1>3, <1>4, <1>5, <1>6

\* The variables have their types to begin with.
LEMMA InitIInv == Init => IInv
  <1> SUFFICES ASSUME Init PROVE IInv
    OBVIOUS
  <1>1. MessageTypes /\ CountTypes /\ ScriptTypes
    <2>1. /\ script = [s \in Services |-> [pc |-> "idle", told |-> "inactive", reported |-> FALSE]]
          /\ todo = [p \in Processes |-> <<>>] /\ sent = <<>>
          /\ file = [state |-> "none", vars |-> Zero] /\ env = Zero
          /\ loaded = [s \in Services |-> Zero]
      BY Zenon DEF Init
    <2> QED BY <2>1 DEF MessageTypes, CountTypes, Counts, ScriptTypes, Zero, States
  <1>2. ConsoleTypes
    <2>1. [s \in Services |-> "inactive"] \in [Services -> States]
      BY DEF States
    <2>2. front \in {Verbose, TtySilent, conf.tty}
      BY DEF Init
    <2>3. daemon = [alive |-> FALSE, tty |-> TtySilent, ctty |-> "verbose", sig |-> {},
                    missed |-> FALSE, svc |-> [s \in Services |-> "inactive"], bar |-> 0]
      BY DEF Init
    <2>4. daemon \in Daemons
      BY <2>1, <2>3 DEF Daemons
    <2>5. rc \in RcStates
      BY DEF Init, RcPlaces, RcStates
    <2>6. ~daemon.alive /\ daemon.tty = TtySilent
      BY <2>3
    <2> QED BY <2>2, <2>4, <2>5, <2>6 DEF ConsoleTypes
  <1>3. PromptsUndisturbed
    BY DEF Init, PromptsUndisturbed
  <1>4. ReportsCounted /\ OnlyReporters
    <2>1. CountsReports(Zero)
      BY FS_EmptySet DEF CountsReports, Zero
    <2>2. Range(sent) = {} /\ \A p \in Processes : Range(todo[p]) = {}
      <3>1. sent = <<>> /\ todo = [p \in Processes |-> <<>>]
        BY Zenon DEF Init
      <3> QED BY <3>1 DEF Range
    <2>3. \A s \in Services : script[s].pc # "load" /\ loaded[s] = Zero
      BY DEF Init
    <2>4. env = Zero /\ file.vars = Zero
      BY DEF Init
    <2>5. Zero.execed = {}
      BY DEF Zero
    <2> QED BY <2>1, <2>2, <2>3, <2>4, <2>5 DEF ReportsCounted, ProgressOfReports, OnlyReporters
  <1> QED BY <1>1, <1>2, <1>3, <1>4 DEF IInv, Types

-----------------------------------------------------------------------------
(* Types                                                                   *)

\* Every message a process is about to send is one.
LEMMA MessageStep == Types /\ [Next]_vars => MessageTypes'
  <1> SUFFICES ASSUME Types, [Next]_vars PROVE MessageTypes'
    OBVIOUS
  <1> USE DEF Types, MessageTypes
  <1>1. /\ Paint \in Messages /\ Repaint \in Messages /\ ModeSilent \in Messages
        /\ SetTty \in Messages /\ \A stay \in BOOLEAN : Exit(stay) \in Messages
        /\ \A s \in Services, st \in States : Svc(s, st) \in Messages
        /\ \A n \in Nat : Progress(n) \in Messages
    BY DEF Messages
  <1>2. Services \subseteq Processes /\ "rc" \in Processes
    BY DEF Processes
  <1>3. ASSUME NEW n \in DOMAIN sent, Deliver(n) PROVE MessageTypes'
    <2>1. RemoveAt(sent, n) \in Seq(Messages)
      BY RemoveAtKeeps
    <2> QED BY <1>3, <2>1 DEF Deliver
  <1>4. ASSUME NEW n \in DOMAIN sent, Miss(n) PROVE MessageTypes'
    <2>1. RemoveAt(sent, n) \in Seq(Messages)
      BY RemoveAtKeeps
    <2> QED BY <1>4, <2>1 DEF Miss
  <1>5. ASSUME NEW p \in Processes, Say(p) PROVE MessageTypes'
    <2>1. todo[p] \in Seq(Messages) /\ todo[p] # <<>>
      BY <1>5 DEF Say, Quiet
    <2>2. Head(todo[p]) \in Messages /\ Tail(todo[p]) \in Seq(Messages)
      BY <2>1, HeadTailKeep
    <2>3. Append(sent, Head(todo[p])) \in Seq(Messages)
      BY <2>2, AppendKeeps
    <2> QED BY <1>5, <2>2, <2>3 DEF Say
  <1>6. ASSUME NEW s \in Services, Script(s) PROVE MessageTypes'
    <2>1. CASE SvcStart(s)
      BY <1>1, <1>2, <2>1 DEF SvcStart, States
    <2>2. ASSUME NEW r \in {"ok", "failed"}, Report(s, r) PROVE MessageTypes'
      BY <1>1, <1>2, <2>2 DEF Report, States
    <2>3. CASE FailVerbose(s) \/ InputBegin(s) \/ InputLeave(s) \/ Truncate(s)
      BY <2>3 DEF FailVerbose, InputBegin, InputLeave, Truncate
    <2>4. CASE InputEnd(s)
      BY <1>1, <1>2, <2>4 DEF InputEnd
    <2>5. CASE Load(s)
      <3>1. Read.count + 1 \in Nat
        BY DEF Read, CountTypes, Counts
      <3>2. <<Progress(Read.count + 1)>> \in Seq(Messages)
        BY <1>1, <3>1
      <3> QED BY <1>2, <2>5, <3>2 DEF Load
    <2>6. CASE Write(s)
      BY <1>1, <1>2, <2>6 DEF Write, AfterSave
    <2> QED BY <1>6, <2>1, <2>2, <2>3, <2>4, <2>5, <2>6 DEF Script
  <1>7. CASE Rc
    <2>1. CASE NoCache \/ RcInit \/ DestroyCD \/ NoTmpdir \/ Cleanup \/ \E w \in BOOLEAN : Unmount(w)
      BY <2>1 DEF NoCache, RcInit, DestroyCD, NoTmpdir, Cleanup, Unmount
    <2>2. ASSUME NEW starts \in BOOLEAN, Sysinit(starts) PROVE MessageTypes'
      <3>1. (IF starts THEN <<SetTty, ModeSilent, Repaint>> ELSE <<>>) \in Seq(Messages)
        BY <1>1
      <3>2. ((IF starts THEN <<SetTty, ModeSilent, Repaint>> ELSE <<>>) \o Inactive) \in Seq(Messages)
        BY <3>1, InactiveMessages
      <3> QED BY <1>2, <2>2, <3>2 DEF Sysinit
    <2>3. ASSUME NEW stay \in BOOLEAN, SplashExit(stay) PROVE MessageTypes'
      BY <1>1, <1>2, <2>3 DEF SplashExit
    <2>4. CASE Kill
      BY <2>4 DEF Kill
    <2> QED BY <1>7, <2>1, <2>2, <2>3, <2>4 DEF Rc
  <1>8. CASE UNCHANGED vars
    BY <1>8 DEF vars
  <1>9. ASSUME NEW x \in {"come", "leave"}, Notice(x) PROVE MessageTypes'
    BY <1>9 DEF Notice
  <1> QED BY <1>3, <1>4, <1>5, <1>6, <1>7, <1>8, <1>9 DEF Next, Ended

\* What is counted is a number, and what was counted are services.
LEMMA CountStep == Types /\ [Next]_vars => CountTypes'
  <1> SUFFICES ASSUME Types, [Next]_vars PROVE CountTypes'
    OBVIOUS
  <1> USE DEF Types, CountTypes
  <1>1. CASE \/ \E n \in DOMAIN sent : Deliver(n) \/ Miss(n)
             \/ \E x \in {"come", "leave"} : Notice(x)
             \/ \E p \in Processes : Say(p)
    BY <1>1 DEF Deliver, Miss, Notice, Say, progressVars
  <1>2. ASSUME NEW s \in Services, Script(s) PROVE CountTypes'
    <2>1. CASE \/ SvcStart(s) \/ Report(s, "ok") \/ Report(s, "failed") \/ FailVerbose(s)
               \/ InputBegin(s) \/ InputLeave(s) \/ InputEnd(s)
      BY <2>1 DEF SvcStart, Report, FailVerbose, InputBegin, InputLeave, InputEnd, progressVars
    <2>2. CASE Load(s)
      <3>1. [count |-> Read.count + 1, execed |-> Read.execed \union {s}] \in Counts
        BY DEF Read, Counts
      <3> QED BY <2>2, <3>1 DEF Load
    <2>3. CASE Truncate(s)
      BY <2>3 DEF Truncate
    <2>4. CASE Write(s)
      <3>1. Zero \in Counts
        BY DEF Zero, Counts
      <3>2. \A n \in CountsLeft(s) : [loaded[s] EXCEPT !.count = n] \in Counts
        BY DEF CountsLeft, Counts
      <3> QED BY <2>4, <3>1, <3>2 DEF Write
    <2> QED BY <1>2, <2>1, <2>2, <2>3, <2>4 DEF Script
  <1>3. CASE Rc
    <2>1. CASE NoCache \/ SplashExit(TRUE) \/ SplashExit(FALSE) \/ NoTmpdir \/ Cleanup \/ Kill
      BY <2>1 DEF NoCache, SplashExit, NoTmpdir, Cleanup, Kill, progressVars
    <2>2. CASE DestroyCD \/ \E w \in BOOLEAN : Unmount(w)
      BY <2>2 DEF DestroyCD, Unmount, Unmounted
    <2>3. CASE RcInit
      BY <2>3 DEF RcInit
    <2>4. CASE Sysinit(TRUE) \/ Sysinit(FALSE)
      <3>1. Zero \in Counts
        BY DEF Zero, Counts
      <3> QED BY <2>4, <3>1 DEF Sysinit
    <2> QED BY <1>3, <2>1, <2>2, <2>3, <2>4 DEF Rc
  <1>4. CASE UNCHANGED vars
    BY <1>4 DEF vars, progressVars
  <1> QED BY <1>1, <1>2, <1>3, <1>4 DEF Next, Ended

\* Scripts are at one of their places.
LEMMA ScriptStep == Types /\ [Next]_vars => ScriptTypes'
  <1> SUFFICES ASSUME Types, [Next]_vars PROVE ScriptTypes'
    OBVIOUS
  <1> USE DEF Types, ScriptTypes
  <1>1. CASE \/ \E n \in DOMAIN sent : Deliver(n) \/ Miss(n)
             \/ \E x \in {"come", "leave"} : Notice(x)
             \/ \E p \in Processes : Say(p)
    BY <1>1 DEF Deliver, Miss, Notice, Say
  <1>2. ASSUME NEW s \in Services, Script(s) PROVE ScriptTypes'
    <2>1. \E pc \in {"run", "leave", "prompt", "load", "save", "write", "done"}, told \in States :
            Goes(s, pc, told)
      BY <1>2 DEF Script, SvcStart, Report, FailVerbose, InputBegin, InputLeave, InputEnd, Load, Truncate,
                  Write, States
    <2> QED BY <2>1 DEF Goes
  <1>3. CASE Rc
    <2>1. CASE RcInit
      BY <2>1 DEF RcInit
    <2>2. CASE ~RcInit
      <3>1. script' = script
        BY <1>3, <2>2 DEF Rc, NoCache, Sysinit, SplashExit, DestroyCD, NoTmpdir, Cleanup, Kill, Unmount
      <3> QED BY <3>1
    <2> QED BY <2>1, <2>2
  <1>4. CASE UNCHANGED vars
    BY <1>4 DEF vars
  <1> QED BY <1>1, <1>2, <1>3, <1>4 DEF Next, Ended

-----------------------------------------------------------------------------
(* Consoles                                                                *)

\* fbsplashd and the consoles keep their types.
LEMMA ConsoleStep == Types /\ [Next]_vars => ConsoleTypes'
  <1> SUFFICES ASSUME Types, [Next]_vars PROVE ConsoleTypes'
    OBVIOUS
  <1> USE DEF Types
  <1>1. /\ daemon \in Daemons /\ front \in {Verbose, TtySilent, conf.tty}
        /\ daemon.tty \in {Verbose, TtySilent, conf.tty}
        /\ rc \in RcStates
        /\ rc.pc = "off" => ~daemon.alive /\ daemon.tty = TtySilent
    BY DEF ConsoleTypes, Daemons
  <1>2. conf' = conf
    BY DEF Next, Ended, vars, Deliver, Miss, Notice, Say, Script, SvcStart, Report, FailVerbose,
           InputBegin, InputLeave, InputEnd, Load, Truncate, Write, Rc, NoCache, Sysinit, RcInit,
           SplashExit, DestroyCD, NoTmpdir, Cleanup, Kill, Unmount
  <1>3. ASSUME UNCHANGED <<rc, daemon, front>> PROVE ConsoleTypes'
    BY <1>2, <1>3 DEF ConsoleTypes, Daemons
  <1>4. ASSUME NEW n \in DOMAIN sent, Deliver(n) PROVE ConsoleTypes'
    <2> DEFINE m == sent[n]
    <2>1. m \in Messages /\ Obey(m) /\ rc' = rc /\ daemon.alive /\ rc.pc # "off"
      BY <1>1, <1>4 DEF Deliver, MessageTypes
    <2> HIDE DEF m
    <2>2. ASSUME NEW s \in Services, NEW st \in States,
                 daemon' = [daemon EXCEPT !.svc[s] = st], UNCHANGED front
          PROVE  ConsoleTypes'
      BY <1>1, <1>2, <2>1, <2>2 DEF ConsoleTypes, Daemons
    <2>3. ASSUME NEW k \in Nat, daemon' = [daemon EXCEPT !.bar = k], UNCHANGED front
          PROVE  ConsoleTypes'
      BY <1>1, <1>2, <2>1, <2>3 DEF ConsoleTypes, Daemons
    <2>4. ASSUME UNCHANGED <<daemon, front>> PROVE ConsoleTypes'
      BY <1>3, <2>1, <2>4
    <2>5. ASSUME ToFront(daemon, daemon.tty) PROVE ConsoleTypes'
      BY <1>1, <1>2, <2>1, <2>5, ToFrontKeeps DEF ConsoleTypes
    <2>6. ASSUME daemon' = [daemon EXCEPT !.tty = conf.tty], UNCHANGED front PROVE ConsoleTypes'
      BY <1>1, <1>2, <2>1, <2>6 DEF ConsoleTypes, Daemons
    <2>7. ASSUME NEW stay \in BOOLEAN, ObeyExit(stay) PROVE ConsoleTypes'
      BY <1>1, <1>2, <2>1, <2>7, ObeyExitEffects DEF ConsoleTypes
    <2> QED BY <2>1, <2>2, <2>3, <2>4, <2>5, <2>6, <2>7, ObeyEffects
  <1>5. CASE \/ \E n \in DOMAIN sent : Miss(n)
             \/ \E p \in Processes : Say(p)
             \/ UNCHANGED vars
    BY <1>3, <1>5 DEF Miss, Say, vars, consoleVars
  <1>6. ASSUME ToFront(daemon, Verbose), rc' = rc PROVE ConsoleTypes'
    BY <1>1, <1>2, <1>6, ToFrontKeeps DEF ConsoleTypes
  <1>7. ASSUME NEW s \in Services, Script(s) PROVE ConsoleTypes'
    <2>1. CASE FailVerbose(s) \/ InputLeave(s)
      BY <1>6, <2>1 DEF FailVerbose, InputLeave
    <2>2. CASE \/ SvcStart(s) \/ Report(s, "ok") \/ Report(s, "failed") \/ InputBegin(s)
               \/ InputEnd(s) \/ Load(s) \/ Truncate(s) \/ Write(s)
      BY <1>3, <2>2 DEF SvcStart, Report, InputBegin, InputEnd, Load, Truncate, Write, consoleVars
    <2> QED BY <1>7, <2>1, <2>2 DEF Script
  <1>8. CASE Rc
    <2>1. CASE NoCache
      <3>1. daemon' \in Daemons' /\ front' \in {Verbose, TtySilent, conf.tty}' /\ ~daemon'.alive
        BY <1>1, <1>2, <2>1, ToFrontKeeps DEF NoCache, RcAt
      <3>2. rc' = [rc EXCEPT !.pc = "sysinit"]
        BY <2>1 DEF NoCache, RcGoes
      <3> QED BY <1>1, <3>1, <3>2 DEF ConsoleTypes, RcPlaces, RcStates
    <2>2. ASSUME NEW starts \in BOOLEAN, Sysinit(starts) PROVE ConsoleTypes'
      <3>1. front' = front /\ rc' = [rc EXCEPT !.pc = "sysinit"]
        BY <2>2 DEF Sysinit, RcGoes
      <3>2. daemon' = [daemon EXCEPT !.alive = starts,
                                     !.ctty = IF front = TtySilent THEN "silent" ELSE "verbose"]
        BY <2>2 DEF Sysinit
      <3> QED BY <1>1, <1>2, <3>1, <3>2 DEF ConsoleTypes, RcPlaces, RcStates, Daemons
    <2>3. CASE Kill
      <3>1. rc' = [rc EXCEPT !.pc = "unmount"] /\ daemon' = [daemon EXCEPT !.alive = FALSE]
            /\ front' = front
        BY <2>3 DEF Kill, RcGoes
      <3> QED BY <1>1, <1>2, <3>1 DEF ConsoleTypes, RcPlaces, RcStates, Daemons
    <2>4. CASE \/ RcInit \/ SplashExit(TRUE) \/ SplashExit(FALSE) \/ DestroyCD \/ NoTmpdir
               \/ Cleanup \/ \E w \in BOOLEAN : Unmount(w)
      <3>1. UNCHANGED <<daemon, front>>
        BY <2>4 DEF RcInit, SplashExit, DestroyCD, NoTmpdir, Cleanup, Unmount, consoleVars
      <3>2. rc' \in RcStates /\ rc'.pc # "off"
        BY <1>1, <2>4 DEF RcInit, SplashExit, DestroyCD, NoTmpdir, Cleanup, Unmount, RcGoes,
                          RcPlaces, RcStates
      <3> QED BY <1>1, <1>2, <3>1, <3>2 DEF ConsoleTypes, Daemons
    <2> QED BY <1>8, <2>1, <2>2, <2>3, <2>4 DEF Rc
  <1>9. ASSUME NEW x \in {"come", "leave"}, Notice(x) PROVE ConsoleTypes'
    BY <1>1, <1>2, <1>9, NoticeEffects DEF ConsoleTypes
  <1> QED BY <1>4, <1>5, <1>7, <1>8, <1>9 DEF Next, Ended

\* All variables keep their types.
LEMMA TypesStep == Types /\ [Next]_vars => Types'
  BY MessageStep, CountStep, ScriptStep, ConsoleStep DEF Types

-----------------------------------------------------------------------------
(* Prompts                                                                 *)

\* An open prompt stays undisturbed, and one that is opened is or is excused.
LEMMA PromptStep == Types /\ PromptsUndisturbed /\ [Next]_vars => PromptsUndisturbed'
  <1> SUFFICES ASSUME Types, PromptsUndisturbed, [Next]_vars,
                      NEW s \in Services \ excused', script'[s].pc = "prompt", daemon'.alive
               PROVE  Undisturbed(s)'
    BY DEF PromptsUndisturbed
  <1> USE DEF Types
  <1>1. conf' = conf
    BY DEF Next, Ended, vars, Deliver, Miss, Notice, Say, Script, SvcStart, Report, FailVerbose,
           InputBegin, InputLeave, InputEnd, Load, Truncate, Write, Rc, NoCache, Sysinit, RcInit,
           SplashExit, DestroyCD, NoTmpdir, Cleanup, Kill, Unmount
  <1>2. ASSUME script[s].pc = "prompt", s \notin excused, daemon.alive PROVE Undisturbed(s)
    BY <1>2 DEF PromptsUndisturbed
  <1>3. ModeSilent \notin {Paint, Repaint, SetTty} /\ \A n : ModeSilent # Progress(n)
        /\ \A t, st : ModeSilent # Svc(t, st)
    BY DEF ModeSilent, Paint, Repaint, SetTty, Progress, Svc
  <1>4. \A p \in Processes : todo[p] \in Seq(Messages)
    BY DEF MessageTypes
  <1>5. ASSUME NEW n \in DOMAIN sent, Deliver(n) PROVE Undisturbed(s)'
    <2>1. /\ script' = script /\ excused' = excused /\ own' = own /\ todo' = todo /\ daemon.alive
          /\ sent' = IF daemon'.alive THEN RemoveAt(sent, n) ELSE <<>>
          /\ sent[n] \in Messages /\ Obey(sent[n]) /\ sent \in Seq(Messages)
      BY <1>5 DEF Deliver, promptVars, MessageTypes
    <2>2. Undisturbed(s)
      BY <1>2, <2>1
    <2>3. Range(sent') \subseteq Range(sent)
      BY <2>1, RemoveAtKeeps
    <2>4. ~SilentToCome'
      BY <2>1, <2>2, <2>3 DEF Undisturbed, SilentToCome
    <2>5. sent[n] # ModeSilent
      BY <2>1, <2>2 DEF Undisturbed, SilentToCome, Range
    <2>6. front' = Verbose
      <3>1. CASE \E stay \in BOOLEAN : ObeyExit(stay)
        BY <2>2, <3>1 DEF ObeyExit, Undisturbed
      <3>2. CASE front' = front
        BY <2>2, <3>2 DEF Undisturbed
      <3> QED BY <2>1, <2>5, <3>1, <3>2, ObeyEffects
    <2> QED BY <1>1, <2>1, <2>2, <2>4, <2>6 DEF Undisturbed
  <1>6. ASSUME NEW n \in DOMAIN sent, Miss(n) PROVE Undisturbed(s)'
    <2>1. /\ script' = script /\ excused' = excused /\ own' = own /\ todo' = todo
          /\ daemon' = daemon /\ front' = front /\ sent' = RemoveAt(sent, n) /\ sent \in Seq(Messages)
      BY <1>6 DEF Miss, promptVars, consoleVars, MessageTypes
    <2>2. Undisturbed(s)
      BY <1>2, <2>1
    <2>3. Range(sent') \subseteq Range(sent)
      BY <2>1, RemoveAtKeeps
    <2>4. ~SilentToCome'
      BY <2>1, <2>2, <2>3 DEF Undisturbed, SilentToCome
    <2> QED BY <1>1, <2>1, <2>2, <2>4 DEF Undisturbed
  <1>7. ASSUME NEW p \in Processes, Say(p) PROVE Undisturbed(s)'
    <2>1. /\ script' = script /\ excused' = excused /\ own' = own
          /\ daemon' = daemon /\ front' = front /\ todo[p] # <<>>
          /\ sent' = IF daemon.alive THEN Append(sent, Head(todo[p])) ELSE sent
          /\ todo' = [todo EXCEPT ![p] = Tail(@)]
          /\ sent \in Seq(Messages) /\ DOMAIN todo = Processes
      BY <1>7 DEF Say, promptVars, consoleVars, MessageTypes, Quiet
    <2>2. Undisturbed(s)
      BY <1>2, <2>1
    <2>3. /\ Head(todo[p]) \in Messages /\ Head(todo[p]) \in Range(todo[p])
          /\ Range(Tail(todo[p])) \subseteq Range(todo[p])
      BY <1>4, <2>1, HeadTailKeep
    <2>4. Range(sent') \subseteq Range(sent) \union {Head(todo[p])}
      BY <2>1, <2>3, AppendKeeps
    <2>5. ModeSilent \notin Range(sent) /\ \A q \in Processes : ModeSilent \notin Range(todo[q])
      BY <2>2 DEF Undisturbed, SilentToCome
    <2>6. \A q \in Processes : Range(todo'[q]) \subseteq Range(todo[q])
      BY <2>1, <2>3
    <2>7. ~SilentToCome'
      BY <2>3, <2>4, <2>5, <2>6 DEF SilentToCome
    <2> QED BY <1>1, <2>1, <2>2, <2>7 DEF Undisturbed
  <1>8. ASSUME NEW t \in Services, Script(t) PROVE Undisturbed(s)'
    <2>1. CASE (InputBegin(t) \/ InputLeave(t)) /\ t = s
      <3>1. Opens(s)
        BY <2>1 DEF InputBegin, InputLeave, Goes, ScriptTypes
      <3>2. /\ ~SilentToCome /\ own = {} /\ conf.tty = TtySilent
            /\ \A u \in Services \ {s} : script[u].pc # "leave"
        BY <3>1 DEF Opens
      <3>3. front = TtySilent \/ front = Verbose
        BY <3>2 DEF ConsoleTypes
      <3>4. front' = Verbose /\ own' \subseteq {s}
        <4>1. CASE InputLeave(s)
          BY <3>2, <4>1 DEF InputLeave, ToFront
        <4>2. CASE InputBegin(s)
          <5>1. script'[s].pc = IF front = TtySilent THEN "leave" ELSE "prompt"
            BY <4>2 DEF InputBegin, Goes, ScriptTypes
          <5>2. front # TtySilent
            BY <5>1
          <5> QED BY <3>2, <3>3, <4>2, <5>2 DEF InputBegin, consoleVars
        <4> QED BY <2>1, <4>1, <4>2
      <3>5. todo' = todo /\ sent' = sent /\ \A u \in Services \ {s} : script'[u] = script[u]
        BY <2>1 DEF InputBegin, InputLeave, Goes, ScriptTypes
      <3>6. ~SilentToCome'
        BY <3>2, <3>5 DEF SilentToCome
      <3> QED BY <1>1, <3>2, <3>4, <3>5, <3>6 DEF Undisturbed
    <2>2. CASE ~((InputBegin(t) \/ InputLeave(t)) /\ t = s)
      <3>1. \E pc, told : /\ Goes(t, pc, told)
                          /\ pc = "prompt" => InputBegin(t) \/ InputLeave(t)
                          /\ pc = "leave" => InputBegin(t) /\ front = TtySilent
        BY <1>8 DEF Script, SvcStart, Report, FailVerbose, InputBegin, InputLeave, InputEnd, Load,
                    Truncate, Write
      <3>2. s # t /\ script'[s] = script[s]
        BY <2>2, <3>1 DEF Goes, ScriptTypes
      <3>3. /\ daemon'.alive = daemon.alive /\ sent' = sent
            /\ excused' \in {excused, excused \union {t}, excused \ {t}}
            /\ front' \in {front, Verbose}
        <4>1. CASE FailVerbose(t) \/ InputLeave(t)
          <5>1. ToFront(daemon, Verbose) /\ conf' = conf /\ daemon \in Daemons
            BY <1>1, <4>1 DEF FailVerbose, InputLeave, ConsoleTypes
          <5> QED BY <4>1, <5>1, ToFrontKeeps DEF FailVerbose, InputLeave, Opens, promptVars
        <4>2. CASE ~(FailVerbose(t) \/ InputLeave(t))
          BY <1>8, <4>2 DEF Script, SvcStart, Report, InputBegin, InputEnd, Load, Truncate, Write,
                            Opens, promptVars, consoleVars
        <4> QED BY <4>1, <4>2
      <3>4. Undisturbed(s)
        BY <1>2, <3>2, <3>3
      <3>5. front' = Verbose
        BY <3>3, <3>4 DEF Undisturbed
      <3>6. own' \subseteq {s}
        <4>1. CASE InputLeave(t)
          BY <3>2, <3>4, <4>1 DEF InputLeave, At, Undisturbed
        <4>2. CASE ~InputLeave(t)
          <5>1. own' = own \/ own' = own \ {t}
            BY <1>8, <4>2 DEF Script, SvcStart, Report, FailVerbose, InputBegin, InputEnd, Load,
                              Truncate, Write, promptVars
          <5> QED BY <3>4, <5>1 DEF Undisturbed
        <4> QED BY <4>1, <4>2
      <3>7. ModeSilent \notin Range(todo'[t])
        <4>1. t \in Processes /\ t \notin own /\ ModeSilent \notin Range(todo[t])
          BY <3>2, <3>4 DEF Processes, Undisturbed, SilentToCome
        <4>2. todo'[t] = todo[t] \/ \E m \in {Paint} \union {Progress(Read.count + 1)}
                                       \union {Svc(t, st) : st \in States} :
                todo'[t] \in {<<>>, <<m>>, <<m, Paint>>}
          <5>1. CASE SvcStart(t)
            BY <4>1, <5>1 DEF SvcStart, MessageTypes, States
          <5>2. ASSUME NEW r \in {"ok", "failed"}, Report(t, r) PROVE todo'[t] = <<Svc(t, r)>>
            BY <4>1, <5>2 DEF Report, MessageTypes
          <5>3. CASE FailVerbose(t) \/ InputBegin(t) \/ InputLeave(t) \/ Truncate(t)
            BY <5>3 DEF FailVerbose, InputBegin, InputLeave, Truncate
          <5>4. CASE InputEnd(t)
            BY <4>1, <5>4 DEF InputEnd, MessageTypes
          <5>5. CASE Load(t)
            BY <4>1, <5>5 DEF Load, MessageTypes
          <5>6. CASE Write(t)
            BY <4>1, <5>6 DEF Write, AfterSave, MessageTypes
          <5>7. {"ok", "failed"} \subseteq States
            BY DEF States
          <5> QED BY <1>8, <5>1, <5>2, <5>3, <5>4, <5>5, <5>6, <5>7 DEF Script
        <4> QED BY <1>3, <4>1, <4>2 DEF Range
      <3>8. \A p \in Processes \ {t} : todo'[p] = todo[p]
        BY <1>8 DEF Script, SvcStart, Report, FailVerbose, InputBegin, InputLeave, InputEnd, Load, Truncate, Write,
                    MessageTypes
      <3>9. ~SilentToCome'
        BY <3>3, <3>4, <3>7, <3>8 DEF Undisturbed, SilentToCome
      <3>10. \A u \in Services \ {s} : script'[u].pc # "leave"
        <4>1. front # TtySilent
          BY <3>4 DEF Undisturbed, Verbose, TtySilent
        <4> QED BY <3>1, <3>4, <4>1 DEF Undisturbed, Goes, ScriptTypes
      <3> QED BY <1>1, <3>4, <3>5, <3>6, <3>9, <3>10 DEF Undisturbed
    <2> QED BY <2>1, <2>2
  <1>9. CASE Rc
    <2>1. Running = {}
      BY <1>9 DEF Rc, NoCache, Sysinit, RcInit, SplashExit, DestroyCD, NoTmpdir, Cleanup, Kill,
                  Unmount, RcAt
    <2>2. script[s].pc \in {"idle", "done"}
      BY <2>1 DEF Running
    <2>3. CASE RcInit
      BY <2>2, <2>3 DEF RcInit, ScriptTypes
    <2>4. CASE ~RcInit
      BY <1>9, <2>2, <2>4 DEF Rc, NoCache, Sysinit, SplashExit, DestroyCD, NoTmpdir, Cleanup, Kill, Unmount
    <2> QED BY <2>3, <2>4
  <1>10. CASE UNCHANGED vars
    <2>1. Undisturbed(s)
      BY <1>2, <1>10 DEF vars, consoleVars, promptVars
    <2> QED BY <1>10, <2>1 DEF vars, consoleVars, promptVars, Undisturbed, SilentToCome
  <1>11. ASSUME NEW x \in {"come", "leave"}, Notice(x) PROVE Undisturbed(s)'
    <2>1. UNCHANGED <<script, todo, sent, front, own, excused>> /\ daemon.alive
      BY <1>11 DEF Notice, promptVars
    <2>2. Undisturbed(s)
      BY <1>2, <2>1
    <2> QED BY <1>1, <2>1, <2>2 DEF Undisturbed, SilentToCome
  <1> QED BY <1>5, <1>6, <1>7, <1>8, <1>9, <1>10, <1>11 DEF Next, Ended

-----------------------------------------------------------------------------
(* Progress                                                                *)

\* A service that reported has done so for good.
LEMMA ReportersGrow == Types /\ [Next]_vars => Reporters \subseteq Reporters'
  <1> SUFFICES ASSUME Types, [Next]_vars PROVE Reporters \subseteq Reporters'
    OBVIOUS
  <1> USE DEF Types, ScriptTypes, Reporters
  <1>1. CASE \/ \E n \in DOMAIN sent : Deliver(n) \/ Miss(n)
             \/ \E x \in {"come", "leave"} : Notice(x)
             \/ \E p \in Processes : Say(p)
             \/ UNCHANGED vars
    BY <1>1 DEF Deliver, Miss, Notice, Say, vars
  <1>2. ASSUME NEW s \in Services, Script(s) PROVE Reporters \subseteq Reporters'
    <2>1. \E pc, told : Goes(s, pc, told)
      BY <1>2 DEF Script, SvcStart, Report, FailVerbose, InputBegin, InputLeave, InputEnd, Load, Truncate, Write
    <2> QED BY <2>1 DEF Goes
  <1>3. CASE Rc
    <2>1. CASE RcInit
      BY <2>1 DEF RcInit
    <2>2. CASE ~RcInit
      <3>1. script' = script
        BY <1>3, <2>2 DEF Rc, NoCache, Sysinit, SplashExit, DestroyCD, NoTmpdir, Cleanup, Kill, Unmount
      <3> QED BY <3>1
    <2> QED BY <2>1, <2>2
  <1> QED BY <1>1, <1>2, <1>3 DEF Next, Ended

\* The services that reported are finitely many, and no fewer than some of them.
LEMMA ReporterCount ==
  /\ IsFiniteSet(Reporters) /\ Cardinality(Reporters) \in Nat
  /\ \A S \in SUBSET Reporters : IsFiniteSet(S) /\ Cardinality(S) \in Nat
                                   /\ Cardinality(S) <= Cardinality(Reporters)
  <1>1. Reporters \subseteq Services /\ IsFiniteSet(Services)
    BY ScriptsAssumption DEF Reporters
  <1>2. IsFiniteSet(Reporters) /\ Cardinality(Reporters) \in Nat
    BY <1>1, FS_Subset, FS_CardinalityType
  <1>3. ASSUME NEW S \in SUBSET Reporters
        PROVE  IsFiniteSet(S) /\ Cardinality(S) \in Nat /\ Cardinality(S) <= Cardinality(Reporters)
    BY <1>2, FS_Subset, FS_CardinalityType
  <1> QED BY <1>2, <1>3

\* Only a script that is about to count itself sends progress anew.
LEMMA ReportsStep == Types /\ ReportsCounted /\ [Next]_vars => ReportsCounted'
  <1> SUFFICES ASSUME Types, ReportsCounted, [Next]_vars PROVE ReportsCounted'
    OBVIOUS
  <1> USE DEF Types
  <1>1. Reporters \subseteq Reporters'
    BY ReportersGrow
  <1>2. /\ Cardinality(Reporters) \in Nat /\ Cardinality(Reporters') \in Nat
        /\ Cardinality(Reporters) <= Cardinality(Reporters')
    <2>1. Reporters' \subseteq Services /\ IsFiniteSet(Services)
      BY ScriptsAssumption DEF Reporters
    <2> QED BY <1>1, <2>1, FS_Subset, FS_CardinalityType
  <1>3. \A n \in Nat : /\ Progress(n) \notin {Paint, Repaint, ModeSilent, SetTty}
                       /\ \A s \in Services, st \in States : Svc(s, st) # Progress(n)
                       /\ \A stay \in BOOLEAN : Exit(stay) # Progress(n)
    <2>1. /\ \A n \in Nat : Progress(n)[1] = "progress"
          /\ Paint[1] = "paint" /\ Repaint[1] = "repaint"
          /\ ModeSilent[1] = "set mode silent" /\ SetTty[1] = "set tty silent"
      BY DEF ModeSilent, Paint, Repaint, SetTty, Progress
    <2>2. /\ \A s \in Services, st \in States : Svc(s, st)[1] = "update_svc"
          /\ \A stay \in BOOLEAN : Exit(stay)[1] = "exit"
      BY DEF Svc, Exit
    <2> QED BY <2>1, <2>2
  <1>4. /\ \A n \in Nat : \A m : Progress(n) \in Range(<<m>>) => Progress(n) = m
        /\ \A n \in Nat : \A m, k : Progress(n) \in Range(<<m, k>>) => Progress(n) \in {m, k}
        /\ Range(<<>>) = {}
    BY DEF Range
  <1>5. sent \in Seq(Messages) /\ todo \in [Processes -> Seq(Messages)]
    BY DEF MessageTypes
  <1>6. ASSUME \A n \in Nat :
                 (Progress(n) \in Range(sent') \/ \E p \in Processes : Progress(n) \in Range(todo'[p]))
                   => \/ Progress(n) \in Range(sent)
                      \/ \E p \in Processes : Progress(n) \in Range(todo[p]),
               ProgressOfReports
        PROVE  ProgressOfReports'
    BY <1>2, <1>6 DEF ProgressOfReports
  <1>7. ASSUME script' = script, UNCHANGED progressVars, ProgressOfReports => ProgressOfReports'
        PROVE  ReportsCounted'
    BY <1>7 DEF ReportsCounted, CountsReports, Reporters, progressVars
  <1>8. ASSUME NEW n \in DOMAIN sent, Deliver(n) \/ Miss(n) PROVE ReportsCounted'
    <2>1. script' = script /\ UNCHANGED progressVars /\ todo' = todo
          /\ sent' \in {RemoveAt(sent, n), <<>>}
      BY <1>8 DEF Deliver, Miss
    <2>2. Range(sent') \subseteq Range(sent)
      BY <1>4, <1>5, <2>1, RemoveAtKeeps
    <2> QED BY <1>6, <1>7, <2>1, <2>2
  <1>9. ASSUME NEW p \in Processes, Say(p) PROVE ReportsCounted'
    <2>1. /\ script' = script /\ UNCHANGED progressVars /\ todo[p] # <<>>
          /\ sent' \in {Append(sent, Head(todo[p])), sent}
          /\ todo' = [todo EXCEPT ![p] = Tail(@)]
      BY <1>9 DEF Say, Quiet
    <2>2. /\ Head(todo[p]) \in Messages /\ Head(todo[p]) \in Range(todo[p])
          /\ Range(Tail(todo[p])) \subseteq Range(todo[p])
      BY <1>5, <2>1, HeadTailKeep
    <2>3. Range(sent') \subseteq Range(sent) \union {Head(todo[p])}
      <3>1. Range(Append(sent, Head(todo[p]))) = Range(sent) \union {Head(todo[p])}
        BY <1>5, <2>2, AppendKeeps
      <3> QED BY <2>1, <3>1
    <2>4. \A q \in Processes : Range(todo'[q]) \subseteq Range(todo[q])
      BY <1>5, <2>1, <2>2
    <2> QED BY <1>6, <1>7, <2>1, <2>2, <2>3, <2>4
  <1>10. ASSUME NEW s \in Services, Script(s) PROVE ReportsCounted'
    <2>1. s \in Processes /\ sent' = sent /\ script \in [Services -> [pc : {"idle", "run",
               "leave", "prompt", "load", "save", "write", "done"}, told : States, reported : BOOLEAN]]
      BY <1>10 DEF Processes, Script, SvcStart, Report, FailVerbose, InputBegin, InputLeave, InputEnd, Load,
                   Truncate, Write, ScriptTypes
    <2>2. ASSUME todo' = todo \/ \E q : /\ todo' = [todo EXCEPT ![s] = q]
                                        /\ \A n \in Nat : Progress(n) \notin Range(q),
                 ProgressOfReports
          PROVE  ProgressOfReports'
      BY <1>2, <1>5, <2>1, <2>2 DEF ProgressOfReports
    <2>3. ASSUME NEW c \in Counts, CountsReports(c)
          PROVE  c.execed \subseteq Reporters' /\ c.count <= Cardinality(c.execed)
      BY <1>1, <2>3 DEF CountsReports
    <2>4. CASE SvcStart(s) \/ FailVerbose(s) \/ InputBegin(s) \/ InputLeave(s) \/ InputEnd(s)
               \/ Report(s, "ok") \/ Report(s, "failed")
      <3>1. UNCHANGED progressVars
        BY <2>4 DEF SvcStart, FailVerbose, InputBegin, InputLeave, InputEnd, Report
      <3>2. \A t \in Services : script'[t].pc = "load" => t \in Reporters'
        <4>1. PICK pc, told : Goes(s, pc, told) /\ (pc = "load" => told \in {"ok", "failed"})
          BY <2>4 DEF SvcStart, FailVerbose, InputBegin, InputLeave, InputEnd, Report
        <4>2. script'[s].pc = pc /\ (pc = "load" => script'[s].reported)
          BY <2>1, <4>1 DEF Goes
        <4>3. \A t \in Services \ {s} : script'[t] = script[t]
          BY <2>1, <4>1 DEF Goes
        <4> QED BY <1>1, <4>2, <4>3 DEF Reporters, ReportsCounted
      <3>3. todo' = todo \/ \E q : /\ todo' = [todo EXCEPT ![s] = q]
                                   /\ \A n \in Nat : Progress(n) \notin Range(q)
        <4>1. /\ \A st \in States, n \in Nat : Progress(n) \notin Range(<<Svc(s, st)>>)
              /\ \A n \in Nat : Progress(n) \notin Range(<<Svc(s, "busy"), Paint>>)
              /\ \A n \in Nat : Progress(n) \notin Range(<<ModeSilent>>)
              /\ \A n \in Nat : Progress(n) \notin Range(<<>>)
          BY <1>3, <1>4 DEF States
        <4> QED BY <2>4, <4>1 DEF SvcStart, FailVerbose, InputBegin, InputLeave, InputEnd, Report, States
      <3> QED BY <1>1, <2>2, <3>1, <3>2, <3>3 DEF ReportsCounted, CountsReports, progressVars
    <2>5. CASE Load(s)
      <3> DEFINE next == [count |-> Read.count + 1, execed |-> Read.execed \union {s}]
      <3>1. \A t \in Services : script'[t].pc = "load" => t \in Reporters'
        BY <1>1, <2>1, <2>5 DEF Load, Goes, ReportsCounted
      <3>2. UNCHANGED <<garbled, env, file>>
        BY <2>5 DEF Load
      <3>3. CASE Counted(s)
        BY <1>1, <2>2, <2>5, <3>1, <3>2, <3>3 DEF Load, ReportsCounted, CountsReports
      <3>4. CASE ~Counted(s) /\ ~garbled
        <4>1. Read \in Counts /\ CountsReports(Read)
          BY <3>4 DEF Read, CountTypes, ReportsCounted
        <4>2. s \in Reporters /\ s \notin Read.execed
          BY <2>5, <3>4 DEF Load, At, ReportsCounted, Counted
        <4>3. next.execed \subseteq Reporters /\ next.count = Read.count + 1
          BY <4>1, <4>2 DEF CountsReports
        <4>4. Cardinality(next.execed) = Cardinality(Read.execed) + 1
          BY <4>1, <4>2, ReporterCount, FS_AddElement DEF CountsReports
        <4>5. next.count <= Cardinality(next.execed) /\ next.count <= Cardinality(Reporters)
              /\ next.count \in Nat
          BY <4>1, <4>3, <4>4, ReporterCount DEF CountsReports, Counts
        <4>6. todo' = [todo EXCEPT ![s] = <<Progress(next.count)>>]
              /\ loaded' = [loaded EXCEPT ![s] = next]
          BY <2>5, <3>4 DEF Load
        <4>7. \A n \in Nat : Progress(n) \in Range(<<Progress(next.count)>>) => n = next.count
          BY <1>4 DEF Progress
        <4> HIDE DEF next
        <4>8. ProgressOfReports'
          BY <1>2, <1>5, <2>1, <3>4, <4>5, <4>6, <4>7 DEF ProgressOfReports, ReportsCounted
        <4>9. \A t \in Services : CountsReports(loaded[t])'
          BY <1>1, <3>4, <4>3, <4>5, <4>6 DEF ReportsCounted, CountsReports, CountTypes
        <4> QED BY <1>1, <3>1, <3>2, <3>4, <4>8, <4>9 DEF ReportsCounted, CountsReports
      <3>5. CASE garbled
        BY <3>1, <3>2, <3>5 DEF ReportsCounted
      <3> QED BY <3>3, <3>4, <3>5
    <2>6. CASE Truncate(s)
      <3>1. UNCHANGED <<garbled, env, loaded, todo>> /\ file'.vars = file.vars
        BY <2>6 DEF Truncate, CountTypes
      <3>2. \A t \in Services : script'[t].pc = "load" => t \in Reporters'
        BY <1>1, <2>1, <2>6 DEF Truncate, Goes, ReportsCounted
      <3> QED BY <1>1, <2>2, <3>1, <3>2 DEF ReportsCounted, CountsReports
    <2>7. CASE Write(s)
      <3>1. \A t \in Services : script'[t].pc = "load" => t \in Reporters'
        BY <1>1, <2>1, <2>7 DEF Write, Goes, ReportsCounted
      <3>2. ASSUME ~garbled' PROVE ~garbled /\ file'.vars \in {file.vars, loaded[s]}
        <4>1. loaded[s] \in Counts
          BY DEF CountTypes
        <4>2. PICK n : /\ garbled' = (garbled \/ n # loaded[s].count)
                       /\ file' = IF mounted
                                   THEN [state |-> "full", vars |-> [loaded[s] EXCEPT !.count = n]]
                                   ELSE file
          BY <2>7 DEF Write
        <4>3. [loaded[s] EXCEPT !.count = loaded[s].count] = loaded[s]
          BY <4>1 DEF Counts
        <4> QED BY <3>2, <4>2, <4>3
      <3>3. env' = env /\ loaded' = [loaded EXCEPT ![s] = Zero]
            /\ todo' = [todo EXCEPT ![s] = <<Paint>>]
        BY <2>7 DEF Write, AfterSave
      <3>4. CountsReports(Zero)'
        BY FS_EmptySet DEF CountsReports, Zero
      <3>5. ASSUME ~garbled' PROVE ProgressOfReports'
        <4>1. \A n \in Nat : Progress(n) \notin Range(<<Paint>>)
          BY <1>3, <1>4
        <4> QED BY <2>2, <3>2, <3>3, <3>5, <4>1 DEF ReportsCounted
      <3>6. ASSUME ~garbled' PROVE \A t \in Services : CountsReports(loaded[t])'
        BY <1>1, <3>2, <3>3, <3>4, <3>6 DEF ReportsCounted, CountsReports, CountTypes
      <3> QED BY <1>1, <3>1, <3>2, <3>3, <3>5, <3>6 DEF ReportsCounted, CountsReports
    <2> QED BY <1>10, <2>4, <2>5, <2>6, <2>7 DEF Script
  <1>11. CASE Rc
    <2>1. \A t \in Services : script'[t].pc = "load" => t \in Reporters'
      <3>1. CASE RcInit
        BY <1>1, <3>1 DEF RcInit, ReportsCounted, ScriptTypes
      <3>2. CASE ~RcInit
        <4>1. script' = script
          BY <1>11, <3>2 DEF Rc, NoCache, Sysinit, SplashExit, DestroyCD, NoTmpdir, Cleanup, Kill, Unmount
        <4> QED BY <1>1, <4>1 DEF ReportsCounted
      <3> QED BY <3>1, <3>2
    <2>2. garbled' = garbled /\ loaded' = loaded
      BY <1>11 DEF Rc, NoCache, Sysinit, RcInit, SplashExit, DestroyCD, NoTmpdir, Cleanup, Kill, Unmount,
                   progressVars
    <2>3. env' \in {env, file.vars, Zero} /\ file'.vars \in {file.vars, Zero}
      <3>1. CASE Sysinit(TRUE) \/ Sysinit(FALSE)
        BY <3>1 DEF Sysinit
      <3>2. CASE RcInit
        BY <3>2 DEF RcInit
      <3>3. CASE DestroyCD \/ \E w \in BOOLEAN : Unmount(w)
        BY <3>3 DEF DestroyCD, Unmount, Unmounted, CountTypes
      <3>4. CASE NoCache \/ SplashExit(TRUE) \/ SplashExit(FALSE) \/ NoTmpdir \/ Cleanup \/ Kill
        BY <3>4 DEF NoCache, SplashExit, NoTmpdir, Cleanup, Kill, progressVars
      <3> QED BY <1>11, <3>1, <3>2, <3>3, <3>4 DEF Rc
    <2>4. CountsReports(Zero)'
      BY FS_EmptySet DEF CountsReports, Zero
    <2>5. ASSUME ProgressOfReports PROVE ProgressOfReports'
      <3>1. CASE Sysinit(TRUE) \/ Sysinit(FALSE)
        <4>1. PICK q : /\ q \in {<<SetTty, ModeSilent, Repaint>>, <<>>}
                       /\ todo' = [todo EXCEPT !["rc"] = q \o Inactive] /\ sent' = sent
          BY <3>1 DEF Sysinit
        <4>2. \A n \in Nat : Progress(n) \notin Range(q) \union Range(Inactive)
          BY <1>3, <1>4, <4>1, InactiveMessages DEF Range
        <4>3. Range(q \o Inactive) = Range(q) \union Range(Inactive)
          <5>1. q \in Seq(Messages)
            <6>1. SetTty \in Messages /\ ModeSilent \in Messages /\ Repaint \in Messages
              BY DEF Messages
            <6>2. <<SetTty, ModeSilent, Repaint>> \in Seq(Messages) /\ <<>> \in Seq(Messages)
              BY <6>1
            <6> QED BY <4>1, <6>2
          <5> QED BY <5>1, InactiveMessages, ConcatKeeps
        <4> QED BY <1>5, <1>6, <2>5, <4>1, <4>2, <4>3
      <3>2. CASE SplashExit(TRUE) \/ SplashExit(FALSE)
        <4>1. PICK stay \in BOOLEAN : todo' = [todo EXCEPT !["rc"] = <<Exit(stay)>>] /\ sent' = sent
          BY <3>2 DEF SplashExit
        <4>2. \A n \in Nat : Progress(n) \notin Range(<<Exit(stay)>>)
          BY <1>3, <1>4
        <4> QED BY <1>5, <1>6, <2>5, <4>1, <4>2
      <3>3. CASE \/ NoCache \/ RcInit \/ DestroyCD \/ NoTmpdir \/ Cleanup \/ Kill
                 \/ \E w \in BOOLEAN : Unmount(w)
        <4>1. todo' = todo /\ sent' \in {sent, <<>>}
          BY <3>3 DEF NoCache, RcInit, DestroyCD, NoTmpdir, Cleanup, Kill, Unmount
        <4> QED BY <1>4, <1>6, <2>5, <4>1
      <3> QED BY <1>11, <3>1, <3>2, <3>3 DEF Rc
    <2> QED BY <1>1, <2>1, <2>2, <2>3, <2>4, <2>5 DEF ReportsCounted, CountsReports
  <1>12. CASE UNCHANGED vars
    BY <1>6, <1>7, <1>12 DEF vars
  <1>13. ASSUME NEW x \in {"come", "leave"}, Notice(x) PROVE ReportsCounted'
    BY <1>6, <1>7, <1>13 DEF Notice
  <1> QED BY <1>8, <1>9, <1>10, <1>11, <1>12, <1>13 DEF Next, Ended

\* What is listed is what was listed before, or the script that lists itself.
LEMMA ListedStep == Types /\ ReportsCounted /\ OnlyReporters /\ [Next]_vars => OnlyReporters'
  <1> SUFFICES ASSUME Types, ReportsCounted, OnlyReporters, [Next]_vars PROVE OnlyReporters'
    OBVIOUS
  <1>1. Reporters \subseteq Reporters' /\ Zero.execed = {}
    BY ReportersGrow DEF Zero
  <1>2. loaded \in [Services -> Counts] /\ file \in [state : {"none", "empty", "full"}, vars : Counts]
    BY DEF Types, CountTypes
  <1>3. ASSUME UNCHANGED <<file, env, loaded>> PROVE OnlyReporters'
    BY <1>1, <1>3 DEF OnlyReporters
  <1>4. CASE \/ \E n \in DOMAIN sent : Deliver(n) \/ Miss(n)
             \/ \E x \in {"come", "leave"} : Notice(x)
             \/ \E p \in Processes : Say(p)
             \/ UNCHANGED vars
    BY <1>3, <1>4 DEF Deliver, Miss, Notice, Say, vars, progressVars
  <1>5. ASSUME NEW s \in Services, Script(s) PROVE OnlyReporters'
    <2>1. CASE \/ SvcStart(s) \/ Report(s, "ok") \/ Report(s, "failed") \/ FailVerbose(s)
               \/ InputBegin(s) \/ InputLeave(s) \/ InputEnd(s)
      BY <1>3, <2>1 DEF SvcStart, Report, FailVerbose, InputBegin, InputLeave, InputEnd, progressVars
    <2>2. CASE Load(s)
      <3>1. s \in Reporters /\ Read.execed \subseteq Reporters
        BY <2>2 DEF Load, At, ReportsCounted, OnlyReporters, Read
      <3>2. /\ file' = file /\ env' = env
            /\ \A t \in Services : loaded'[t].execed \in {loaded[t].execed, Read.execed \union {s}}
        BY <1>2, <2>2 DEF Load
      <3> QED BY <1>1, <3>1, <3>2 DEF OnlyReporters
    <2>3. CASE Truncate(s)
      <3>1. file'.vars = file.vars /\ env' = env /\ loaded' = loaded
        BY <1>2, <2>3 DEF Truncate
      <3> QED BY <1>1, <3>1 DEF OnlyReporters
    <2>4. CASE Write(s)
      <3>1. PICK n : file' = IF mounted THEN [state |-> "full", vars |-> [loaded[s] EXCEPT !.count = n]]
                             ELSE file
        BY <2>4 DEF Write
      <3>2. file'.vars.execed \in {file.vars.execed, loaded[s].execed}
        BY <1>2, <3>1 DEF Counts
      <3>3. env' = env /\ \A t \in Services : loaded'[t].execed \in {loaded[t].execed, Zero.execed}
        BY <1>2, <2>4 DEF Write
      <3> QED BY <1>1, <3>2, <3>3 DEF OnlyReporters
    <2> QED BY <1>5, <2>1, <2>2, <2>3, <2>4 DEF Script
  <1>6. CASE Rc
    <2>1. CASE NoCache \/ SplashExit(TRUE) \/ SplashExit(FALSE) \/ NoTmpdir \/ Cleanup \/ Kill
      BY <1>3, <2>1 DEF NoCache, SplashExit, NoTmpdir, Cleanup, Kill, progressVars
    <2>2. CASE DestroyCD \/ \E w \in BOOLEAN : Unmount(w)
      <3>1. file'.vars = file.vars /\ env' = env /\ loaded' = loaded
        BY <1>2, <2>2 DEF DestroyCD, Unmount, Unmounted
      <3> QED BY <1>1, <3>1 DEF OnlyReporters
    <2>3. CASE RcInit
      <3>1. file' = file /\ loaded' = loaded /\ env' \in {env, file.vars}
        BY <2>3 DEF RcInit
      <3> QED BY <1>1, <3>1 DEF OnlyReporters
    <2>4. CASE Sysinit(TRUE) \/ Sysinit(FALSE)
      <3>1. file'.vars = Zero /\ env' = Zero /\ loaded' = loaded
        BY <2>4 DEF Sysinit
      <3> QED BY <1>1, <3>1 DEF OnlyReporters
    <2> QED BY <1>6, <2>1, <2>2, <2>3, <2>4 DEF Rc
  <1> QED BY <1>4, <1>5, <1>6 DEF Next, Ended

-----------------------------------------------------------------------------
(* The course of the boot                                                  *)

Counting(s)  == script[s].pc \in {"save", "write"}
Reporting(s) == script[s].pc \in {"load", "save", "write"}

\* What a script has still to send.
TodoOf(s) ==
  \/ todo[s] \in {<<>>, <<Paint>>, <<ModeSilent>>}
  \/ todo[s] = <<Svc(s, "busy"), Paint>> /\ script[s].told = "busy"
  \/ todo[s] = <<Svc(s, script[s].told)>> /\ script[s].pc = "load"
  \/ todo[s] = <<Progress(loaded[s].count)>> /\ script[s].pc = "save"

StagesOf(s) ==
  /\ TodoOf(s)
  /\ script[s].pc \in {"run", "leave", "prompt"} => script[s].told = "busy"
  /\ script[s].told = "inactive" => script[s].pc = "idle" /\ todo[s] = <<>>

AtEnd == rc.pc \in {"exit", "kill", "unmount", "ended"}

\* rc reports services only before they are started, and Sysinit comes first.
RcStages ==
  /\ \A x, m : m \in Range(todo["rc"]) /\ x \in About(m) =>
       x \in Services /\ m = Svc(x, "inactive") /\ script[x].told = "inactive"
  /\ rc.pc = "off" =>
       /\ \A s \in Services : script[s].told = "inactive"
       /\ sent = <<>> /\ todo["rc"] = <<>> /\ screen = Nothing /\ Picture(daemon) = Nothing
       /\ front \in {Verbose, TtySilent} /\ ~mounted
  /\ AtEnd => \A s \in Services : script[s].pc = "done"

Stages == (\A s \in Services : StagesOf(s)) /\ RcStages

-----------------------------------------------------------------------------
\* What the messages are about, and which are a paint.
LEMMA Subjects ==
  /\ \A s, st : About(Svc(s, st)) = {s} /\ Svc(s, st) # Paint
  /\ \A n : About(Progress(n)) = {"bar"} /\ Progress(n) # Paint
  /\ \A stay : About(Exit(stay)) = {} /\ Exit(stay) # Paint
  /\ About(Paint) = {} /\ About(Repaint) = {} /\ About(ModeSilent) = {} /\ About(SetTty) = {}
  /\ Repaint # Paint /\ ModeSilent # Paint /\ SetTty # Paint
  <1>1. /\ \A s, st : Svc(s, st)[1] = "update_svc" /\ Svc(s, st)[2] = s
        /\ \A n : Progress(n)[1] = "progress"
        /\ \A stay : Exit(stay)[1] = "exit"
        /\ Paint[1] = "paint" /\ Repaint[1] = "repaint"
        /\ ModeSilent[1] = "set mode silent" /\ SetTty[1] = "set tty silent"
    BY DEF Svc, Progress, Exit, Paint, Repaint, ModeSilent, SetTty
  <1>2. /\ \A m : m[1] = "update_svc" => About(m) = {m[2]}
        /\ \A m : m[1] = "progress" => About(m) = {"bar"}
        /\ \A m : m[1] \notin {"update_svc", "progress"} => About(m) = {}
    BY DEF About
  <1>3. "update_svc" # "paint" /\ "progress" # "paint" /\ "exit" # "paint"
    OBVIOUS
  <1>4. ASSUME NEW s, NEW st PROVE About(Svc(s, st)) = {s} /\ Svc(s, st) # Paint
    <2>1. Svc(s, st)[1] = "update_svc" /\ Svc(s, st)[2] = s
      BY DEF Svc
    <2> QED BY <1>1, <1>2, <2>1
  <1>5. \A n : About(Progress(n)) = {"bar"} /\ Progress(n) # Paint
    BY <1>1, <1>2
  <1>6. \A stay : About(Exit(stay)) = {} /\ Exit(stay) # Paint
    BY <1>1, <1>2
  <1>7. /\ About(Paint) = {} /\ About(Repaint) = {} /\ About(ModeSilent) = {} /\ About(SetTty) = {}
        /\ Repaint # Paint /\ ModeSilent # Paint /\ SetTty # Paint
    BY <1>1, <1>2
  <1> QED BY <1>4, <1>5, <1>6, <1>7

\* The first message and the rest of a short list.
LEMMA ShortLists ==
  /\ \A m : Head(<<m>>) = m /\ Tail(<<m>>) = <<>> /\ <<m>> # <<>>
  /\ \A m, k : Head(<<m, k>>) = m /\ Tail(<<m, k>>) = <<k>> /\ <<m, k>> # <<>>
  /\ Range(<<>>) = {}
  /\ \A m : Range(<<m>>) = {m}
  /\ \A m, k : Range(<<m, k>>) = {m, k}
  <1>1. \A m : Range(<<m>>) = {m}
    BY DEF Range
  <1>2. \A m, k : Range(<<m, k>>) = {m, k}
    BY DEF Range
  <1> QED BY <1>1, <1>2 DEF Range

\* No service is called as rc, or as the bar.
LEMMA NamesApart ==
  "rc" \notin Services /\ "bar" \notin Services /\ Services \subseteq Processes /\ "rc" \in Processes
  BY ScriptsAssumption DEF Processes

-----------------------------------------------------------------------------
\* Each process is about to send what belongs to the place it is at.
LEMMA StagesStep == Types /\ Stages /\ [Next]_vars => Stages'
  <1> SUFFICES ASSUME Types, Stages, [Next]_vars PROVE Stages'
    OBVIOUS
  <1> USE NamesApart
  <1>1. /\ script \in [Services -> [pc : {"idle", "run", "leave", "prompt", "load", "save", "write", "done"},
                                    told : States, reported : BOOLEAN]]
        /\ todo \in [Processes -> Seq(Messages)] /\ sent \in Seq(Messages)
        /\ loaded \in [Services -> Counts] /\ daemon \in Daemons
        /\ rc \in RcStates
    BY DEF Types, ScriptTypes, MessageTypes, CountTypes, ConsoleTypes
  <1>2. (\A s \in Services : StagesOf(s)) /\ RcStages
    BY DEF Stages
  <1>3. ASSUME NEW s \in Services,
               UNCHANGED <<script[s].pc, script[s].told, todo[s], loaded[s]>>
        PROVE  StagesOf(s)'
    BY <1>2, <1>3 DEF StagesOf, TodoOf
  <1>4. ASSUME UNCHANGED <<rc, todo, script, loaded>>,
               rc.pc = "off" => UNCHANGED <<sent, screen, daemon, front, mounted>>
        PROVE  Stages'
    <2>1. RcStages'
      BY <1>2, <1>4 DEF RcStages, AtEnd, Picture, Nothing
    <2> QED BY <1>3, <1>4, <2>1 DEF Stages
  <1>5. ASSUME NEW n \in DOMAIN sent, Deliver(n) \/ Miss(n) PROVE Stages'
    <2>1. rc.pc # "off"
      BY <1>2, <1>5 DEF RcStages
    <2> QED BY <1>4, <1>5, <2>1 DEF Deliver, Miss, progressVars
  <1>10. ASSUME NEW x \in {"come", "leave"}, Notice(x) PROVE Stages'
    <2>1. rc.pc # "off"
      BY <1>10 DEF Types, ConsoleTypes, Notice
    <2> QED BY <1>4, <1>10, <2>1 DEF Notice, progressVars
  <1>6. ASSUME NEW p \in Processes, Say(p) PROVE Stages'
    <2>1. /\ todo[p] # <<>> /\ todo' = [todo EXCEPT ![p] = Tail(@)]
          /\ UNCHANGED <<rc, script, loaded>>
      BY <1>6 DEF Say, Quiet, progressVars
    <2>2. rc.pc # "off"
      BY <1>2, <2>1 DEF RcStages, StagesOf, Processes
    <2>3. ASSUME NEW s \in Services PROVE StagesOf(s)'
      <3>1. CASE s # p
        BY <1>1, <1>3, <2>1, <3>1
      <3>2. CASE s = p
        <4>1. todo'[s] = Tail(todo[s]) /\ todo[s] # <<>>
          BY <1>1, <2>1, <3>2
        <4>2. todo'[s] \in {<<>>, <<Paint>>}
          <5>1. /\ Tail(<<Paint>>) = <<>> /\ Tail(<<ModeSilent>>) = <<>>
                /\ Tail(<<Svc(s, "busy"), Paint>>) = <<Paint>>
                /\ Tail(<<Svc(s, script[s].told)>>) = <<>>
                /\ Tail(<<Progress(loaded[s].count)>>) = <<>>
            BY ShortLists
          <5>2. TodoOf(s)
            BY <1>2 DEF StagesOf
          <5> QED BY <4>1, <5>1, <5>2, Zenon DEF TodoOf
        <4>3. script[s].told # "inactive"
          BY <1>2, <4>1 DEF StagesOf
        <4> QED BY <1>2, <2>1, <4>2, <4>3 DEF StagesOf, TodoOf
      <3> QED BY <3>1, <3>2
    <2>4. RcStages'
      <3>1. Range(todo'["rc"]) \subseteq Range(todo["rc"])
        <4>1. CASE p = "rc"
          BY <1>1, <2>1, <4>1, HeadTailKeep
        <4>2. CASE p # "rc"
          BY <1>1, <2>1, <4>2
        <4> QED BY <4>1, <4>2
      <3> QED BY <1>2, <2>1, <2>2, <3>1 DEF RcStages, AtEnd
    <2> QED BY <2>3, <2>4 DEF Stages
  <1>7. ASSUME NEW s \in Services, Script(s) PROVE Stages'
    <2>1. /\ \E pc, told : Goes(s, pc, told)
          /\ \/ todo' = todo
             \/ \E q : todo' = [todo EXCEPT ![s] = q]
          /\ Quiet(s) /\ rc' = rc
      BY <1>7 DEF Script, SvcStart, Report, FailVerbose, InputBegin, InputLeave, InputEnd, Load, Truncate, Write,
                  At
    <2>2. \A t \in Services \ {s} : script'[t] = script[t] /\ todo'[t] = todo[t]
      BY <1>1, <2>1 DEF Goes
    <2>3. todo'["rc"] = todo["rc"]
      BY <1>1, <2>1
    <2>4. \A t \in Services \ {s} : loaded'[t] = loaded[t]
      BY <1>1, <1>7 DEF Script, SvcStart, Report, FailVerbose, InputBegin, InputLeave, InputEnd, Load, Truncate,
                        Write, progressVars
    <2>5. StagesOf(s)'
      <3>1. ASSUME NEW pc, NEW told, Goes(s, pc, told)
            PROVE  script'[s].pc = pc /\ script'[s].told = told
        BY <1>1, <3>1 DEF Goes
      <3>2. Quiet(s) /\ todo[s] = <<>>
        BY <2>1 DEF Quiet
      <3>3. ASSUME NEW q, todo' = [todo EXCEPT ![s] = q] PROVE todo'[s] = q
        BY <1>1, <3>3
      <3>4. CASE SvcStart(s)
        <4>1. script'[s].pc = "run" /\ script'[s].told = "busy"
              /\ todo'[s] = <<Svc(s, "busy"), Paint>>
          BY <3>1, <3>3, <3>4 DEF SvcStart
        <4> QED BY <4>1 DEF StagesOf, TodoOf
      <3>5. ASSUME NEW r \in {"ok", "failed"}, Report(s, r) PROVE StagesOf(s)'
        <4>1. script'[s].pc = "load" /\ script'[s].told = r /\ todo'[s] = <<Svc(s, r)>>
          BY <3>1, <3>3, <3>5 DEF Report
        <4> QED BY <4>1 DEF StagesOf, TodoOf
      <3>6. CASE FailVerbose(s) \/ InputBegin(s) \/ InputLeave(s)
        <4>1. /\ script'[s].pc \in {"done", "leave", "prompt"} /\ script'[s].told = "busy"
              /\ todo'[s] = <<>>
          BY <3>1, <3>2, <3>6 DEF FailVerbose, InputBegin, InputLeave
        <4> QED BY <4>1 DEF StagesOf, TodoOf
      <3>7. CASE InputEnd(s)
        <4>1. script'[s].pc = "run" /\ script'[s].told = "busy" /\ todo'[s] \in {<<>>, <<ModeSilent>>}
          BY <3>1, <3>3, <3>7 DEF InputEnd
        <4> QED BY <4>1 DEF StagesOf, TodoOf
      <3>8. CASE Load(s)
        <4> DEFINE next == [count |-> Read.count + 1, execed |-> Read.execed \union {s}]
        <4>1. script[s].pc = "load" /\ script[s].told # "inactive"
          BY <1>2, <3>8 DEF Load, At, StagesOf
        <4>2. CASE Counted(s)
          <5>1. script'[s].pc = "done" /\ script'[s].told = script[s].told /\ todo'[s] = <<>>
            BY <3>1, <3>2, <3>8, <4>2 DEF Load
          <5> QED BY <4>1, <5>1 DEF StagesOf, TodoOf
        <4>3. CASE ~Counted(s)
          <5>1. script'[s].pc = "save" /\ script'[s].told = script[s].told
                /\ todo'[s] = <<Progress(next.count)>> /\ loaded' = [loaded EXCEPT ![s] = next]
            BY <3>1, <3>3, <3>8, <4>3 DEF Load
          <5> HIDE DEF next
          <5>2. loaded'[s] = next
            BY <1>1, <5>1
          <5> QED BY <4>1, <5>1, <5>2 DEF StagesOf, TodoOf
        <4> QED BY <4>2, <4>3
      <3>9. CASE Truncate(s) \/ Write(s)
        <4>1. script[s].pc \in {"save", "write"} /\ script[s].told # "inactive"
          BY <1>2, <3>9 DEF Truncate, Write, At, StagesOf
        <4>2. script'[s].pc \in {"write", "done"} /\ script'[s].told = script[s].told
          BY <3>1, <3>9 DEF Truncate, Write
        <4>3. todo'[s] \in {<<>>, <<Paint>>}
          BY <3>2, <3>3, <3>9 DEF Truncate, Write, AfterSave
        <4> QED BY <4>1, <4>2, <4>3 DEF StagesOf, TodoOf
      <3> QED BY <1>7, <3>4, <3>5, <3>6, <3>7, <3>8, <3>9 DEF Script
    <2>6. ASSUME NEW t \in Services PROVE StagesOf(t)'
      BY <1>3, <2>2, <2>4, <2>5
    <2>7. rc.pc # "off" /\ ~AtEnd
      <3>1. CASE script[s].pc = "idle"
        BY <1>2, <1>7, <3>1 DEF Script, SvcStart, Report, FailVerbose, InputBegin, InputLeave, InputEnd, Load,
              Truncate, Write, At, RcStages, AtEnd
      <3>2. CASE script[s].pc # "idle"
        <4>1. script[s].pc # "done"
          BY <1>7, <3>2 DEF Script, SvcStart, Report, FailVerbose, InputBegin, InputLeave, InputEnd, Load,
              Truncate, Write, At
        <4> QED BY <1>2, <3>2, <4>1 DEF RcStages, AtEnd, StagesOf
      <3> QED BY <3>1, <3>2
    <2>8. script[s].told = "inactive" => SvcStart(s) /\ todo["rc"] = <<>>
      <3>1. script[s].told = "inactive" => script[s].pc = "idle"
        BY <1>2 DEF StagesOf
      <3> QED BY <1>7, <3>1 DEF Script, SvcStart, Report, FailVerbose, InputBegin, InputLeave, InputEnd, Load,
              Truncate, Write, At, Quiet
    <2>9. RcStages'
      <3>1. ASSUME NEW x, NEW m, m \in Range(todo'["rc"]), x \in About(m)
            PROVE  x \in Services /\ m = Svc(x, "inactive") /\ script'[x].told = "inactive"
        <4>1. m \in Range(todo["rc"]) /\ Range(todo["rc"]) # {}
          BY <2>3, <3>1
        <4>2. x \in Services /\ m = Svc(x, "inactive") /\ script[x].told = "inactive"
          BY <1>2, <3>1, <4>1 DEF RcStages
        <4>3. x # s
          BY <2>8, <4>1, <4>2, ShortLists
        <4> QED BY <2>2, <4>2, <4>3
      <3> QED BY <2>1, <2>7, <3>1 DEF RcStages, AtEnd
    <2> QED BY <2>6, <2>9 DEF Stages
  <1>8. CASE Rc
    <2>1. Running = {} /\ todo["rc"] = <<>>
      BY <1>8 DEF Rc, NoCache, Sysinit, RcInit, SplashExit, DestroyCD, NoTmpdir, Cleanup, Kill, Unmount, RcAt,
                  Quiet
    <2>2. CASE NoCache
      <3>1. rc'.pc = "sysinit" /\ UNCHANGED <<todo, script, loaded>>
        BY <1>1, <2>2 DEF NoCache, RcGoes, progressVars
      <3> QED BY <1>2, <1>3, <3>1 DEF Stages, RcStages, AtEnd
    <2>3. ASSUME NEW starts \in BOOLEAN, Sysinit(starts) PROVE Stages'
      <3>1. rc.pc = "off" /\ rc'.pc = "sysinit" /\ UNCHANGED <<script, loaded>>
        BY <1>1, <2>3 DEF Sysinit, RcGoes, RcAt
      <3> DEFINE q == IF starts THEN <<SetTty, ModeSilent, Repaint>> ELSE <<>>
      <3>2. todo'["rc"] = q \o Inactive /\ \A s \in Services : todo'[s] = todo[s]
        BY <1>1, <2>3 DEF Sysinit
      <3>3. q \in Seq(Messages) /\ Range(q) \subseteq {SetTty, ModeSilent, Repaint}
        <4>1. SetTty \in Messages /\ ModeSilent \in Messages /\ Repaint \in Messages
          BY DEF Messages
        <4>2. <<SetTty, ModeSilent, Repaint>> \in Seq(Messages) /\ <<>> \in Seq(Messages)
          BY <4>1
        <4>3. Range(<<SetTty, ModeSilent, Repaint>>) = {SetTty, ModeSilent, Repaint}
          BY DEF Range
        <4> QED BY <4>2, <4>3, ShortLists
      <3> HIDE DEF q
      <3>4. Range(q \o Inactive) = Range(q) \union Range(Inactive)
        BY <3>3, InactiveMessages, ConcatKeeps
      <3>5. ASSUME NEW x, NEW m, m \in Range(todo'["rc"]), x \in About(m)
            PROVE  x \in Services /\ m = Svc(x, "inactive") /\ script'[x].told = "inactive"
        <4>1. m \in Range(Inactive)
          BY <3>2, <3>3, <3>4, <3>5, Subjects
        <4>2. PICK t \in Services : m = Svc(t, "inactive")
          BY <4>1, InactiveMessages
        <4>3. x = t
          BY <3>5, <4>2, Subjects
        <4> QED BY <1>2, <3>1, <4>2, <4>3 DEF RcStages
      <3>6. RcStages'
        BY <3>1, <3>5 DEF RcStages, AtEnd
      <3> QED BY <1>3, <3>1, <3>2, <3>6 DEF Stages
    <2>4. CASE RcInit
      <3>1. rc'.pc = "default" /\ UNCHANGED <<todo, loaded>>
        BY <1>1, <2>4 DEF RcInit, RcGoes
      <3>2. ASSUME NEW s \in Services PROVE StagesOf(s)' /\ script'[s].told = script[s].told
        <4>1. script[s].pc \in {"idle", "done"} /\ todo[s] = <<>>
          BY <2>1 DEF Running, Quiet
        <4>2. script'[s].told = script[s].told /\ script'[s].pc \in {script[s].pc, "idle"}
          BY <1>1, <2>4 DEF RcInit
        <4> QED BY <1>2, <3>1, <4>1, <4>2 DEF StagesOf, TodoOf
      <3>3. RcStages'
        BY <2>1, <3>1, ShortLists DEF RcStages, AtEnd
      <3> QED BY <3>2, <3>3 DEF Stages
    <2>5. ASSUME NEW stay \in BOOLEAN, SplashExit(stay) PROVE Stages'
      <3>1. /\ rc'.pc = "exit" /\ UNCHANGED <<script, loaded>>
            /\ todo'["rc"] = <<Exit(stay)>> /\ \A s \in Services : todo'[s] = todo[s]
            /\ \A s \in Services : script[s].pc = "done"
        BY <1>1, <2>5 DEF SplashExit, progressVars
      <3>2. RcStages'
        BY <3>1, Subjects, ShortLists DEF RcStages, AtEnd
      <3> QED BY <1>3, <3>1, <3>2 DEF Stages
    <2>6. CASE DestroyCD \/ NoTmpdir \/ Cleanup \/ Kill \/ \E w \in BOOLEAN : Unmount(w)
      <3>1. AtEnd /\ rc'.pc \in {"ended", "kill", "unmount"} /\ UNCHANGED <<script, todo, loaded>>
        BY <1>1, <2>6 DEF DestroyCD, NoTmpdir, Cleanup, Kill, Unmount, RcAt, RcGoes, RcStates, AtEnd,
                          progressVars
      <3> QED BY <1>2, <1>3, <3>1 DEF Stages, RcStages, AtEnd
    <2> QED BY <1>8, <2>2, <2>3, <2>4, <2>5, <2>6 DEF Rc
  <1>9. CASE UNCHANGED vars
    BY <1>4, <1>9 DEF vars, consoleVars, progressVars
  <1> QED BY <1>5, <1>6, <1>7, <1>8, <1>9, <1>10 DEF Next, Ended

-----------------------------------------------------------------------------
\* An exit that is on its way is the one rc asked for at the end.
ExitAsRc ==
  \A stay \in BOOLEAN :
    (Exit(stay) \in Range(sent) \/ \E p \in Processes : Exit(stay) \in Range(todo[p]))
      => AtEnd /\ rc.stay = stay

\* What rc does at the end is done one after the other; fbsplashd runs no longer
\* than the cache is mounted, as long as it runs its tty is not in front
\* without its knowing, unless a signal of the switch is still to be served or
\* was overtaken, and nothing else brings that tty to the front.
Leaving ==
  /\ daemon.alive => mounted \/ rc.left = "CDBOOT"
  /\ rc.left # "" => rc.pc = "ended"
  /\ rc.pc = "unmount" => ~daemon.alive
  /\ rc.pc = "ended" /\ rc.left \notin {"CDBOOT", "tmpdir"} => ~daemon.alive /\ ~mounted
  /\ rc.pc \notin {"unmount", "ended"} => ~killed
  /\ "leave" \in daemon.sig => daemon.missed
  /\ daemon.alive /\ front # Verbose => daemon.ctty = "silent" \/ daemon.sig # {} \/ daemon.missed
  /\ ~daemon.alive /\ front # Verbose /\ rc.pc # "off" =>
       \/ killed \/ daemon.missed
       \/ AtEnd /\ rc.stay
       \/ front = TtySilent /\ daemon.ctty = "silent"

\* Only rc sends an exit, and only one.
LEMMA ExitStep == Types /\ Stages /\ Stages' /\ ExitAsRc /\ [Next]_vars => ExitAsRc'
  <1> SUFFICES ASSUME Types, Stages, Stages', ExitAsRc, [Next]_vars,
                      NEW stay \in BOOLEAN,
                      Exit(stay) \in Range(sent') \/ \E p \in Processes : Exit(stay) \in Range(todo'[p])
               PROVE  AtEnd' /\ rc'.stay = stay
    BY DEF ExitAsRc
  <1> USE NamesApart
  <1>1. /\ todo \in [Processes -> Seq(Messages)] /\ sent \in Seq(Messages)
        /\ rc \in RcStates
    BY DEF Types, MessageTypes, ConsoleTypes
  <1>2. /\ \A s, st : Svc(s, st) # Exit(stay)
        /\ \A n : Progress(n) # Exit(stay)
        /\ Paint # Exit(stay) /\ Repaint # Exit(stay) /\ ModeSilent # Exit(stay) /\ SetTty # Exit(stay)
        /\ \A b \in BOOLEAN : Exit(b) = Exit(stay) => b = stay
    <2>1. /\ \A s, st : Svc(s, st)[1] = "update_svc"
          /\ \A n : Progress(n)[1] = "progress"
          /\ \A b : Exit(b)[1] = "exit" /\ Exit(b)[2] = b
          /\ Paint[1] = "paint" /\ Repaint[1] = "repaint"
          /\ ModeSilent[1] = "set mode silent" /\ SetTty[1] = "set tty silent"
      BY DEF Svc, Progress, Exit, Paint, Repaint, ModeSilent, SetTty
    <2>2. ASSUME NEW s, NEW st PROVE Svc(s, st) # Exit(stay)
      <3>1. Svc(s, st)[1] = "update_svc" /\ Exit(stay)[1] = "exit"
        BY <2>1
      <3> QED BY <3>1
    <2>3. ASSUME NEW n PROVE Progress(n) # Exit(stay)
      <3>1. Progress(n)[1] = "progress" /\ Exit(stay)[1] = "exit"
        BY <2>1
      <3> QED BY <3>1
    <2>4. ASSUME NEW b, Exit(b) = Exit(stay) PROVE b = stay
      <3>1. Exit(b)[2] = b /\ Exit(stay)[2] = stay
        BY <2>1
      <3> QED BY <2>4, <3>1
    <2>5. Paint # Exit(stay) /\ Repaint # Exit(stay) /\ ModeSilent # Exit(stay) /\ SetTty # Exit(stay)
      BY <2>1
    <2> QED BY <2>2, <2>3, <2>4, <2>5
  <1>3. ASSUME Exit(stay) \in Range(sent) \/ \E p \in Processes : Exit(stay) \in Range(todo[p])
        PROVE  AtEnd /\ rc.stay = stay
    BY <1>3 DEF ExitAsRc
  <1>4. CASE UNCHANGED <<rc, todo>> /\ Range(sent') \subseteq Range(sent)
    BY <1>3, <1>4 DEF AtEnd
  <1>5. ASSUME NEW n \in DOMAIN sent, Deliver(n) \/ Miss(n) PROVE AtEnd' /\ rc'.stay = stay
    <2>1. UNCHANGED <<rc, todo>> /\ sent' \in {RemoveAt(sent, n), <<>>}
      BY <1>5 DEF Deliver, Miss
    <2> QED BY <1>1, <1>4, <2>1, RemoveAtKeeps, ShortLists
  <1>6. ASSUME NEW p \in Processes, Say(p) PROVE AtEnd' /\ rc'.stay = stay
    <2>1. /\ rc' = rc /\ todo[p] # <<>> /\ todo[p] \in Seq(Messages)
          /\ sent' \in {Append(sent, Head(todo[p])), sent}
          /\ todo' = [todo EXCEPT ![p] = Tail(@)]
      BY <1>1, <1>6 DEF Say, Quiet
    <2>2. /\ Head(todo[p]) \in Messages /\ Head(todo[p]) \in Range(todo[p])
          /\ Range(Tail(todo[p])) \subseteq Range(todo[p])
      BY <2>1, HeadTailKeep
    <2>3. Range(sent') \subseteq Range(sent) \union {Head(todo[p])}
      <3>1. Range(Append(sent, Head(todo[p]))) = Range(sent) \union {Head(todo[p])}
        BY <1>1, <2>2, AppendKeeps
      <3> QED BY <2>1, <3>1
    <2>4. \A q \in Processes : Range(todo'[q]) \subseteq Range(todo[q])
      BY <1>1, <2>1, <2>2
    <2> QED BY <1>3, <2>1, <2>2, <2>3, <2>4 DEF AtEnd
  <1>7. ASSUME NEW s \in Services, Script(s) PROVE AtEnd' /\ rc'.stay = stay
    <2>1. UNCHANGED <<rc, sent>> /\ (todo' = todo \/ \E q : todo' = [todo EXCEPT ![s] = q])
      BY <1>7 DEF Script, SvcStart, Report, FailVerbose, InputBegin, InputLeave, InputEnd, Load, Truncate, Write
    <2>2. \A p \in Processes \ {s} : todo'[p] = todo[p]
      BY <1>1, <2>1
    <2>3. Exit(stay) \notin Range(todo'[s])
      <3>1. TodoOf(s)'
        BY DEF Stages, StagesOf
      <3>2. /\ Exit(stay) \notin Range(<<>>) /\ Exit(stay) \notin Range(<<Paint>>)
            /\ Exit(stay) \notin Range(<<ModeSilent>>)
            /\ \A st : Exit(stay) \notin Range(<<Svc(s, st)>>)
            /\ \A st : Exit(stay) \notin Range(<<Svc(s, st), Paint>>)
            /\ \A n : Exit(stay) \notin Range(<<Progress(n)>>)
        BY <1>2, ShortLists
      <3> QED BY <3>1, <3>2, Zenon DEF TodoOf
    <2> QED BY <1>3, <2>1, <2>2, <2>3 DEF AtEnd
  <1>8. CASE Rc
    <2>1. ASSUME NEW starts \in BOOLEAN, Sysinit(starts) PROVE FALSE
      <3> DEFINE q == IF starts THEN <<SetTty, ModeSilent, Repaint>> ELSE <<>>
      <3>1. rc.pc = "off" /\ todo' = [todo EXCEPT !["rc"] = q \o Inactive] /\ sent' = sent
        BY <2>1 DEF Sysinit, RcAt
      <3>2. q \in Seq(Messages) /\ Range(q) \subseteq {SetTty, ModeSilent, Repaint}
        <4>1. SetTty \in Messages /\ ModeSilent \in Messages /\ Repaint \in Messages
          BY DEF Messages
        <4>2. <<SetTty, ModeSilent, Repaint>> \in Seq(Messages) /\ <<>> \in Seq(Messages)
          BY <4>1
        <4>3. Range(<<SetTty, ModeSilent, Repaint>>) = {SetTty, ModeSilent, Repaint}
          BY DEF Range
        <4> QED BY <4>2, <4>3, ShortLists
      <3> HIDE DEF q
      <3>3. Range(q \o Inactive) = Range(q) \union Range(Inactive)
        BY <3>2, InactiveMessages, ConcatKeeps
      <3>4. Exit(stay) \notin Range(q \o Inactive)
        BY <1>2, <3>2, <3>3, InactiveMessages
      <3>5. AtEnd
        BY <1>1, <1>3, <3>1, <3>4
      <3> QED BY <3>1, <3>5 DEF AtEnd
    <2>2. ASSUME NEW b \in BOOLEAN, SplashExit(b) PROVE AtEnd' /\ rc'.stay = stay
      <3>1. /\ rc.pc = "default" /\ rc'.pc = "exit" /\ rc'.stay = b /\ sent' = sent
            /\ todo' = [todo EXCEPT !["rc"] = <<Exit(b)>>]
        BY <1>1, <2>2 DEF SplashExit, RcAt
      <3>2. ~AtEnd
        BY <3>1 DEF AtEnd
      <3>3. Exit(stay) \in Range(<<Exit(b)>>)
        BY <1>1, <1>3, <3>1, <3>2
      <3> QED BY <1>2, <3>1, <3>3, ShortLists DEF AtEnd
    <2>3. CASE NoCache \/ RcInit
      <3>1. UNCHANGED <<todo, sent>> /\ rc.pc \in {"off", "sysinit"}
        BY <2>3 DEF NoCache, RcInit, RcAt
      <3> QED BY <1>3, <3>1 DEF AtEnd
    <2>4. CASE DestroyCD \/ NoTmpdir \/ Cleanup \/ Kill \/ \E w \in BOOLEAN : Unmount(w)
      <3>1. /\ todo' = todo /\ sent' \in {sent, <<>>} /\ rc'.stay = rc.stay
            /\ rc'.pc \in {"ended", "kill", "unmount"}
        BY <1>1, <2>4 DEF DestroyCD, NoTmpdir, Cleanup, Kill, Unmount, RcGoes, RcStates
      <3> QED BY <1>3, <3>1, ShortLists DEF AtEnd
    <2> QED BY <1>8, <2>1, <2>2, <2>3, <2>4 DEF Rc
  <1>9. CASE UNCHANGED vars
    BY <1>4, <1>9 DEF vars
  <1>10. ASSUME NEW x \in {"come", "leave"}, Notice(x) PROVE AtEnd' /\ rc'.stay = stay
    BY <1>4, <1>10 DEF Notice
  <1> QED BY <1>5, <1>6, <1>7, <1>8, <1>9, <1>10 DEF Next, Ended

\* Each step of rc's end, of fbsplashd and of a script leaves the consoles so.
LEMMA LeavingStep == Types /\ Stages /\ ExitAsRc /\ Leaving /\ [Next]_vars => Leaving'
  <1> SUFFICES ASSUME Types, Stages, ExitAsRc, Leaving, [Next]_vars PROVE Leaving'
    OBVIOUS
  <1>1. /\ daemon \in Daemons /\ front \in {Verbose, TtySilent, conf.tty}
        /\ rc \in RcStates /\ sent \in Seq(Messages)
    BY DEF Types, ConsoleTypes, MessageTypes
  <1>2. ASSUME UNCHANGED <<rc, daemon.alive, daemon.ctty, daemon.sig, daemon.missed, front,
                           mounted, killed>>
        PROVE  Leaving'
    BY <1>2 DEF Leaving, AtEnd
  <1>3. ASSUME ToFront(daemon, Verbose), UNCHANGED <<conf, rc, mounted, killed>> PROVE Leaving'
    <2>1. /\ front' = Verbose /\ daemon'.alive = daemon.alive
          /\ ("leave" \in daemon.sig => daemon.missed) => ("leave" \in daemon'.sig => daemon'.missed)
      BY <1>1, <1>3, ToFrontKeeps
    <2> QED BY <1>3, <2>1 DEF Leaving
  <1>4. ASSUME NEW n \in DOMAIN sent, Deliver(n) PROVE Leaving'
    <2> DEFINE m == sent[n]
    <2>1. m \in Messages /\ Obey(m) /\ daemon.alive /\ UNCHANGED <<conf, rc, mounted, killed>>
      BY <1>1, <1>4 DEF Deliver, progressVars
    <2>2. m \in Range(sent)
      BY DEF Range
    <2> HIDE DEF m
    <2>3. ASSUME NEW s \in Services, NEW st \in States,
                 daemon' = [daemon EXCEPT !.svc[s] = st], UNCHANGED front
          PROVE  Leaving'
      BY <1>1, <1>2, <2>1, <2>3 DEF Daemons
    <2>4. ASSUME NEW k \in Nat, daemon' = [daemon EXCEPT !.bar = k], UNCHANGED front
          PROVE  Leaving'
      BY <1>1, <1>2, <2>1, <2>4 DEF Daemons
    <2>5. ASSUME UNCHANGED <<daemon, front>> PROVE Leaving'
      BY <1>2, <2>1, <2>5
    <2>6. ASSUME ToFront(daemon, daemon.tty) PROVE Leaving'
      <3>1. /\ daemon'.alive /\ front' = daemon.tty
            /\ ("leave" \in daemon.sig => daemon.missed) => ("leave" \in daemon'.sig => daemon'.missed)
            /\ IF front = daemon.tty THEN daemon' = daemon ELSE daemon'.sig # {}
        <4>1. daemon.tty \in {Verbose, TtySilent, conf.tty}
          BY <1>1 DEF Daemons
        <4> QED BY <1>1, <2>1, <2>6, <4>1, ToFrontKeeps
      <3> QED BY <2>1, <3>1 DEF Leaving
    <2>7. ASSUME daemon' = [daemon EXCEPT !.tty = conf.tty], UNCHANGED front PROVE Leaving'
      BY <1>1, <1>2, <2>1, <2>7 DEF Daemons
    <2>8. ASSUME NEW stay \in BOOLEAN, m = Exit(stay), ObeyExit(stay) PROVE Leaving'
      <3>1. AtEnd /\ rc.stay = stay
        BY <2>2, <2>8 DEF ExitAsRc
      <3>2. /\ ~daemon'.alive /\ daemon'.sig = {} /\ front' \in {front, Verbose}
            /\ daemon.missed \/ daemon.sig # {} => daemon'.missed
            /\ front' # Verbose /\ daemon.ctty = "silent" => stay \/ daemon'.missed
        BY <1>1, <2>1, <2>8, ObeyExitEffects
      <3>3. front # Verbose => daemon.ctty = "silent" \/ daemon.sig # {} \/ daemon.missed
        BY <2>1 DEF Leaving
      <3>4. front' # Verbose => stay \/ daemon'.missed
        BY <3>2, <3>3
      <3> QED BY <2>1, <3>1, <3>2, <3>4 DEF Leaving, AtEnd
    <2> QED BY <2>1, <2>3, <2>4, <2>5, <2>6, <2>7, <2>8, ObeyEffects
  <1>5. CASE \/ \E n \in DOMAIN sent : Miss(n)
             \/ \E p \in Processes : Say(p)
             \/ UNCHANGED vars
    BY <1>2, <1>5 DEF Miss, Say, vars, consoleVars, progressVars
  <1>6. ASSUME NEW s \in Services, Script(s) PROVE Leaving'
    <2>1. CASE \/ SvcStart(s) \/ Report(s, "ok") \/ Report(s, "failed") \/ InputBegin(s)
               \/ InputEnd(s) \/ Load(s) \/ Truncate(s) \/ Write(s)
      BY <1>2, <2>1 DEF SvcStart, Report, InputBegin, InputEnd, Load, Truncate, Write, consoleVars, progressVars
    <2>2. CASE FailVerbose(s) \/ InputLeave(s)
      BY <1>3, <2>2 DEF FailVerbose, InputLeave, progressVars
    <2> QED BY <1>6, <2>1, <2>2 DEF Script
  <1>7. CASE Rc
    <2>1. CASE NoCache
      <3>1. /\ front' = Verbose /\ daemon'.alive = daemon.alive
            /\ ("leave" \in daemon.sig => daemon.missed) => ("leave" \in daemon'.sig => daemon'.missed)
        BY <1>1, <2>1, ToFrontKeeps DEF NoCache
      <3>2. /\ rc.pc = "off" /\ rc'.pc = "sysinit" /\ rc'.left = rc.left
            /\ UNCHANGED <<mounted, killed>>
        BY <1>1, <2>1 DEF NoCache, RcAt, RcGoes, RcStates, progressVars
      <3> QED BY <3>1, <3>2 DEF Leaving
    <2>2. ASSUME NEW starts \in BOOLEAN, Sysinit(starts) PROVE Leaving'
      <3>1. /\ front' = front /\ rc.pc = "off" /\ rc'.pc = "sysinit" /\ mounted'
            /\ rc'.left = rc.left /\ killed' = killed
            /\ daemon'.ctty = IF front = TtySilent THEN "silent" ELSE "verbose"
            /\ daemon'.sig = daemon.sig /\ daemon'.missed = daemon.missed
        BY <1>1, <2>2 DEF Sysinit, RcAt, RcGoes, Daemons
      <3>2. front \in {Verbose, TtySilent}
        BY <3>1 DEF Stages, RcStages
      <3> QED BY <3>1, <3>2 DEF Leaving
    <2>3. CASE RcInit
      <3>1. /\ UNCHANGED <<daemon, front, mounted, killed>> /\ rc.pc = "sysinit" /\ rc'.pc = "default"
            /\ rc'.left = rc.left
        BY <1>1, <2>3 DEF RcInit, RcAt, RcGoes, consoleVars
      <3> QED BY <3>1 DEF Leaving, AtEnd
    <2>4. CASE SplashExit(TRUE) \/ SplashExit(FALSE)
      <3>1. /\ UNCHANGED <<daemon, front, mounted, killed>> /\ rc.pc = "default" /\ rc'.pc = "exit"
            /\ rc'.left = rc.left
        BY <1>1, <2>4 DEF SplashExit, RcAt, RcStates, consoleVars, progressVars
      <3> QED BY <3>1 DEF Leaving, AtEnd
    <2>5. CASE DestroyCD
      <3>1. /\ UNCHANGED <<daemon, front, killed>> /\ rc.pc = "exit" /\ rc'.pc = "ended"
            /\ rc'.left = "CDBOOT" /\ rc'.stay = rc.stay
        BY <1>1, <2>5 DEF DestroyCD, RcAt, consoleVars
      <3> QED BY <3>1 DEF Leaving, AtEnd
    <2>9. CASE NoTmpdir
      <3>1. /\ UNCHANGED <<daemon, front, killed, mounted>> /\ rc.pc = "exit" /\ rc'.pc = "ended"
            /\ rc'.left = "tmpdir" /\ rc'.stay = rc.stay /\ mounted
        BY <1>1, <2>9 DEF NoTmpdir, RcAt, RcStates, consoleVars, progressVars
      <3> QED BY <3>1 DEF Leaving, AtEnd
    <2>6. CASE Cleanup
      <3>1. /\ UNCHANGED <<daemon, front, killed, mounted>> /\ rc.pc = "exit"
            /\ rc'.pc = IF ~mounted THEN "ended" ELSE IF daemon.alive THEN "kill" ELSE "unmount"
            /\ rc'.left = rc.left /\ rc'.stay = rc.stay
        BY <1>1, <2>6 DEF Cleanup, RcAt, RcGoes, consoleVars, progressVars
      <3> QED BY <3>1 DEF Leaving, AtEnd
    <2>7. CASE Kill
      <3>1. /\ UNCHANGED <<front, mounted>> /\ rc.pc = "kill" /\ rc'.pc = "unmount"
            /\ ~daemon'.alive /\ daemon'.ctty = daemon.ctty /\ (daemon.alive => killed')
            /\ daemon'.sig = daemon.sig /\ daemon'.missed = daemon.missed
            /\ rc'.left = rc.left /\ rc'.stay = rc.stay
        BY <1>1, <2>7 DEF Kill, RcAt, RcGoes, Daemons, progressVars
      <3>2. ~killed /\ rc.pc # "ended" /\ rc.pc # "off"
        BY <3>1 DEF Leaving
      <3>3. rc'.left = "" /\ rc'.pc \notin {"ended", "off"} /\ rc'.pc = "unmount" /\ AtEnd' /\ AtEnd
        BY <3>1, <3>2 DEF Leaving, AtEnd
      <3>4. CASE daemon.alive
        BY <3>1, <3>3, <3>4 DEF Leaving
      <3>5. CASE ~daemon.alive
        <4>1. front # Verbose => \/ rc.stay \/ daemon.missed
                                 \/ front = TtySilent /\ daemon.ctty = "silent"
          BY <3>2, <3>5 DEF Leaving
        <4> QED BY <3>1, <3>3, <4>1 DEF Leaving
      <3> QED BY <3>4, <3>5
    <2>8. ASSUME NEW w \in BOOLEAN, Unmount(w) PROVE Leaving'
      <3>1. /\ UNCHANGED <<daemon, front, killed>> /\ rc.pc = "unmount" /\ rc'.pc = "ended"
            /\ ~mounted' /\ rc'.left \in {rc.left, "cache"} /\ rc'.stay = rc.stay
        BY <1>1, <2>8 DEF Unmount, Unmounted, RcAt, RcStates, consoleVars
      <3> QED BY <3>1 DEF Leaving, AtEnd
    <2> QED BY <1>7, <2>1, <2>2, <2>3, <2>4, <2>5, <2>6, <2>7, <2>8, <2>9 DEF Rc
  <1>8. ASSUME NEW x \in {"come", "leave"}, Notice(x) PROVE Leaving'
    <2>1. /\ x \in daemon.sig /\ daemon.alive /\ daemon'.alive /\ daemon'.missed = daemon.missed
          /\ daemon'.sig = daemon.sig \ {x}
          /\ daemon'.ctty = IF x = "come" THEN "silent" ELSE "verbose"
          /\ UNCHANGED <<rc, front, mounted, killed>>
      BY <1>1, <1>8, NoticeEffects DEF progressVars
    <2> QED BY <2>1 DEF Leaving
  <1> QED BY <1>4, <1>5, <1>6, <1>7, <1>8 DEF Next, Ended

-----------------------------------------------------------------------------
\* While scripts update the progress one at a time: the file counts what it
\* lists; it is being written only by the script that has loaded it, which adds
\* itself; and every other service that reported is listed.
CountedOnce ==
  ~overlapped /\ mounted =>
    /\ file.vars.count = Cardinality(file.vars.execed)
    /\ file.state # "full" => \E s \in Services : script[s].pc = "write"
    /\ \A s, t \in Services : Counting(s) /\ Counting(t) => s = t
    /\ \A s \in Services : Counting(s) =>
         /\ s \notin file.vars.execed
         /\ loaded[s] = [count |-> file.vars.count + 1, execed |-> file.vars.execed \union {s}]
    /\ \A s \in Services : script[s].told \in {"ok", "failed"} /\ ~Reporting(s)
                             => s \in file.vars.execed

\* A script that finds nobody else counting adds exactly itself.
LEMMA CountedStep == Types /\ Stages /\ CountedOnce /\ [Next]_vars => CountedOnce'
  <1> SUFFICES ASSUME Types, Stages, CountedOnce, [Next]_vars, ~overlapped', mounted'
               PROVE  CountedOnce'
    BY DEF CountedOnce
  <1>1. /\ script \in [Services -> [pc : {"idle", "run", "leave", "prompt", "load", "save", "write", "done"},
                                    told : States, reported : BOOLEAN]]
        /\ loaded \in [Services -> Counts] /\ env \in Counts
        /\ file \in [state : {"none", "empty", "full"}, vars : Counts]
    BY DEF Types, ScriptTypes, CountTypes
  <1>2. CASE UNCHANGED <<script, mounted, file, loaded, overlapped>>
    BY <1>2 DEF CountedOnce, Counting, Reporting
  <1>3. ASSUME NEW s \in Services, Script(s) PROVE CountedOnce'
    <2>1. ~overlapped /\ mounted
      <3>1. CASE Load(s)
        BY <3>1 DEF Load
      <3>2. CASE ~Load(s)
        <4>1. UNCHANGED <<overlapped, mounted>>
          BY <1>3, <3>2 DEF Script, SvcStart, Report, FailVerbose, InputBegin, InputLeave, InputEnd, Truncate,
                            Write, progressVars
        <4> QED BY <4>1
      <3> QED BY <3>1, <3>2
    <2> DEFINE c == file.vars
    <2>2. /\ c \in Counts /\ c.count = Cardinality(c.execed)
          /\ IsFiniteSet(c.execed) /\ Cardinality(c.execed) \in Nat
      <3>1. c \in Counts /\ c.count = Cardinality(c.execed)
        BY <1>1, <2>1 DEF CountedOnce
      <3> QED BY <3>1, ScriptsAssumption, FS_Subset, FS_CardinalityType DEF Counts
    <2>3. ASSUME NEW pc, NEW told, Goes(s, pc, told)
          PROVE  /\ script'[s].pc = pc /\ script'[s].told = told
                 /\ \A t \in Services \ {s} : script'[t] = script[t]
      BY <1>1, <2>3 DEF Goes
    <2>4. CASE \/ SvcStart(s) \/ Report(s, "ok") \/ Report(s, "failed") \/ FailVerbose(s)
               \/ InputBegin(s) \/ InputLeave(s) \/ InputEnd(s)
      <3>1. /\ script'[s].pc \notin {"save", "write"}
            /\ script'[s].told \in {"ok", "failed"} => script'[s].pc = "load"
            /\ \A t \in Services \ {s} : script'[t] = script[t]
        BY <2>3, <2>4 DEF SvcStart, Report, FailVerbose, InputBegin, InputLeave, InputEnd
      <3>2. script[s].pc # "write" /\ UNCHANGED <<file, loaded>>
        BY <2>4 DEF SvcStart, Report, FailVerbose, InputBegin, InputLeave, InputEnd, At, progressVars
      <3> QED BY <2>1, <3>1, <3>2 DEF CountedOnce, Counting, Reporting
    <2>5. CASE Load(s)
      <3>1. \A t \in Services : ~Counting(t)
        BY <2>5 DEF Load, Counting
      <3>2. Read = c /\ file.state = "full"
        BY <2>1, <3>1 DEF CountedOnce, Counting, Read
      <3>3. file' = file
        BY <2>5 DEF Load
      <3>4. CASE Counted(s)
        <4>1. /\ script'[s].pc = "done" /\ \A t \in Services \ {s} : script'[t] = script[t]
              /\ s \in c.execed
          BY <2>3, <2>5, <3>2, <3>4 DEF Load, Counted
        <4>2. \A t \in Services : ~Counting(t)'
          BY <3>1, <4>1 DEF Counting
        <4> QED BY <2>1, <3>2, <3>3, <4>1, <4>2 DEF CountedOnce, Reporting
      <3>5. CASE ~Counted(s)
        <4> DEFINE next == [count |-> Read.count + 1, execed |-> Read.execed \union {s}]
        <4>1. /\ script'[s].pc = "save" /\ \A t \in Services \ {s} : script'[t] = script[t]
              /\ s \notin c.execed /\ loaded' = [loaded EXCEPT ![s] = next]
          BY <2>3, <2>5, <3>2, <3>5 DEF Load, Counted
        <4>2. loaded'[s] = [count |-> c.count + 1, execed |-> c.execed \union {s}]
          BY <1>1, <3>2, <4>1
        <4> HIDE DEF next
        <4>3. \A t \in Services : Counting(t)' => t = s
          BY <3>1, <4>1 DEF Counting
        <4> QED BY <2>1, <3>2, <3>3, <4>1, <4>2, <4>3 DEF CountedOnce, Reporting
      <3> QED BY <3>4, <3>5
    <2>6. CASE Truncate(s)
      <3>1. /\ script'[s].pc = "write" /\ script'[s].told = script[s].told
            /\ \A t \in Services \ {s} : script'[t] = script[t] /\ script[s].pc = "save"
            /\ loaded' = loaded /\ file'.vars = file.vars
        BY <1>1, <2>3, <2>6 DEF Truncate, At
      <3>2. script[s].pc = "save"
        BY <2>6 DEF Truncate, At
      <3> QED BY <2>1, <3>1, <3>2 DEF CountedOnce, Counting, Reporting
    <2>7. CASE Write(s)
      <3>1. script[s].pc = "write" /\ script'[s].pc = "done" /\ script'[s].told = script[s].told
            /\ \A t \in Services \ {s} : script'[t] = script[t]
        BY <2>3, <2>7 DEF Write, At
      <3>2. /\ s \notin c.execed
            /\ loaded[s] = [count |-> c.count + 1, execed |-> c.execed \union {s}]
        BY <2>1, <3>1 DEF CountedOnce, Counting
      <3>3. Cardinality(loaded[s].execed) = Cardinality(c.execed) + 1
        <4>1. loaded[s].execed = c.execed \union {s}
          BY <3>2
        <4>2. Cardinality(c.execed \union {s}) = Cardinality(c.execed) + 1
          BY <2>2, <3>2, FS_AddElement
        <4> QED BY <4>1, <4>2
      <3>4. CountsLeft(s) = {loaded[s].count}
        BY <2>2, <3>3 DEF CountsLeft
      <3>5. /\ file'.state = "full" /\ file'.vars = [loaded[s] EXCEPT !.count = loaded[s].count]
        BY <2>1, <2>7, <3>4 DEF Write
      <3>6. file'.vars.count = c.count + 1 /\ file'.vars.execed = c.execed \union {s}
        BY <3>2, <3>5
      <3>7. file'.vars.count = Cardinality(file'.vars.execed)
        BY <2>2, <3>2, <3>3, <3>6
      <3>8. \A t \in Services : ~Counting(t)'
        BY <2>1, <3>1 DEF CountedOnce, Counting
      <3>9. \A t \in Services : script'[t].told \in {"ok", "failed"} /\ ~Reporting(t)'
                                  => t \in file'.vars.execed
        BY <2>1, <3>1, <3>6 DEF CountedOnce, Reporting
      <3> QED BY <3>5, <3>7, <3>8, <3>9 DEF CountedOnce
    <2> QED BY <1>3, <2>4, <2>5, <2>6, <2>7 DEF Script
  <1>4. CASE Rc
    <2>1. CASE NoCache \/ SplashExit(TRUE) \/ SplashExit(FALSE) \/ NoTmpdir \/ Cleanup \/ Kill
      BY <1>2, <2>1 DEF NoCache, SplashExit, NoTmpdir, Cleanup, Kill, progressVars
    <2>2. CASE DestroyCD \/ \E w \in BOOLEAN : Unmount(w)
      BY <2>2 DEF DestroyCD, Unmount, Unmounted
    <2>3. CASE Sysinit(TRUE) \/ Sysinit(FALSE)
      <3>1. /\ rc.pc = "off" /\ script' = script
            /\ file'.state = "full" /\ file'.vars.count = 0 /\ file'.vars.execed = {}
        BY <2>3 DEF Sysinit, RcAt, Zero
      <3>2. \A s \in Services : script[s].told = "inactive" /\ script[s].pc = "idle"
        BY <3>1 DEF Stages, RcStages, StagesOf
      <3>3. Cardinality({}) = 0
        BY FS_EmptySet
      <3> QED BY <3>1, <3>2, <3>3 DEF CountedOnce, Counting
    <2>4. CASE RcInit
      <3>1. UNCHANGED <<mounted, file, overlapped>>
        BY <2>4 DEF RcInit
      <3>2. ASSUME NEW s \in Services
            PROVE  script[s].pc \in {"idle", "done"} /\ script'[s].pc \in {"idle", "done"}
                   /\ script'[s].told = script[s].told
        <4>1. script[s].pc \in {"idle", "done"}
          BY <2>4 DEF RcInit, RcAt, Running
        <4> QED BY <1>1, <2>4, <4>1 DEF RcInit
      <3> QED BY <3>1, <3>2 DEF CountedOnce, Counting, Reporting
    <2> QED BY <1>4, <2>1, <2>2, <2>3, <2>4 DEF Rc
  <1>5. CASE \/ \E n \in DOMAIN sent : Deliver(n) \/ Miss(n)
             \/ \E x \in {"come", "leave"} : Notice(x)
             \/ \E p \in Processes : Say(p)
             \/ UNCHANGED vars
    BY <1>2, <1>5 DEF Deliver, Miss, Notice, Say, vars, progressVars
  <1> QED BY <1>3, <1>4, <1>5 DEF Next, Ended

\* IInv, with what each process is about to send, what rc does at the end and
\* what the file counts.
WholeInv == IInv /\ Stages /\ ExitAsRc /\ Leaving /\ CountedOnce

\* Nothing was started, sent or counted to begin with.
LEMMA InitWhole == Init => WholeInv
  <1> SUFFICES ASSUME Init PROVE WholeInv
    OBVIOUS
  <1>1. IInv
    BY InitIInv
  <1>2. /\ rc = [pc |-> "off", left |-> "", stay |-> FALSE] /\ sent = <<>>
        /\ \A s \in Services : script[s].pc = "idle" /\ script[s].told = "inactive" /\ todo[s] = <<>>
        /\ todo["rc"] = <<>> /\ ~mounted /\ ~killed /\ front \in {Verbose, TtySilent}
        /\ screen = Nothing /\ ~daemon.alive /\ daemon.sig = {}
        /\ \A p \in Processes : todo[p] = <<>>
    BY NamesApart DEF Init
  <1>3. Picture(daemon) = Nothing
    BY DEF Init, Picture, Nothing
  <1>4. \A s \in Services : StagesOf(s)
    BY <1>2 DEF StagesOf, TodoOf
  <1>5. RcStages
    BY <1>2, <1>3, ShortLists DEF RcStages, AtEnd
  <1>6. ExitAsRc
    BY <1>2, ShortLists DEF ExitAsRc
  <1>7. Leaving
    BY <1>2 DEF Leaving
  <1>8. CountedOnce
    BY <1>2 DEF CountedOnce
  <1> QED BY <1>1, <1>4, <1>5, <1>6, <1>7, <1>8 DEF WholeInv, Stages

-----------------------------------------------------------------------------
(* What was told arrives, and is painted                                   *)

\* Among the messages l there is one about x.
Mentioned(l, x) == \E n \in DOMAIN l : x \in About(l[n])

\* The last message about x, if there is one, is m; if there is none, it was
\* read, and now holds.
LastSays(l, x, m, now) ==
  /\ ~Mentioned(l, x) => now
  /\ \A n \in DOMAIN l :
       x \in About(l[n]) /\ (\A k \in DOMAIN l : k > n => x \notin About(l[k])) => l[n] = m

\* Behind every message about x there is a paint.
PaintFollows(l, x) ==
  \A n \in DOMAIN l : x \in About(l[n]) => \E k \in DOMAIN l : k > n /\ l[k] = Paint

Visible == daemon.ctty = "silent" /\ front # Verbose /\ "come" \notin daemon.sig

\* What was read of x is on the screen, or a paint is to come; same says whether
\* it is there.
Painted(l, x, same) == PaintFollows(l, x) /\ (Visible => same \/ Paint \in Range(l))

\* Of a service that is not behind: what its script told last is about to be
\* sent, or is what the last message on its way says, or was read; and it is on
\* the screen, or a paint comes after it.
SvcFollowed(s) ==
  /\ script[s].told = "inactive" =>
       /\ daemon.svc[s] = "inactive" /\ (Visible => screen.svc[s] = "inactive")
       /\ \A m \in Range(sent) : s \in About(m) => m = Svc(s, "inactive")
  /\ script[s].told # "inactive" =>
       /\ \/ Mentioned(todo[s], s)
          \/ LastSays(sent, s, Svc(s, script[s].told), daemon.svc[s] = script[s].told)
       /\ \/ Reporting(s) \/ Paint \in Range(todo[s])
          \/ Painted(sent, s, screen.svc[s] = daemon.svc[s])

\* The last progress sent is n.
BarSays(n) == LastSays(sent, "bar", Progress(n), daemon.bar = n)

\* So it is with the progress, which is that of the script about to save it, or
\* else that of the file.
BarFollowed ==
  /\ \/ \E s \in Services : Mentioned(todo[s], "bar")
     \/ \E s \in Services : Counting(s) /\ BarSays(loaded[s].count)
     \/ (\A s \in Services : ~Counting(s)) /\ BarSays(file.vars.count)
  /\ \/ \E s \in Services : Counting(s) \/ Paint \in Range(todo[s])
     \/ Painted(sent, "bar", screen.bar = daemon.bar)

\* As long as fbsplashd runs and its FIFO can be reached.
Followed ==
  daemon.alive /\ rc.pc # "ended" =>
    /\ \A s \in Services \ behind : SvcFollowed(s)
    /\ ~overlapped /\ "bar" \notin behind => BarFollowed

\* No earlier message about the same is left, and a paint that leaves nothing
\* unpainted behind, unless the n-th overtook it.
LEMMA NotOvertaken ==
  ASSUME NEW n \in DOMAIN sent, sent \in Seq(Messages), NEW x, x \notin Overtaken(n),
         NEW j \in DOMAIN sent, j < n, x \in About(sent[j])
  PROVE  /\ x \notin About(sent[n])
         /\ sent[n] = Paint => \E k \in DOMAIN sent : k > j /\ k # n /\ sent[k] = Paint
  <1>1. n \in 1..Len(sent) /\ Len(sent) \in Nat /\ DOMAIN sent = 1..Len(sent) /\ j \in 1..n-1
    OBVIOUS
  <1> DEFINE J == {i \in 1..n-1 :
            \/ sent[n] = Paint /\ ~ \E k \in (i+1)..Len(sent) : k # n /\ sent[k] = Paint
            \/ About(sent[n]) \intersect About(sent[i]) # {}}
  <1>2. j \notin J
    BY DEF Overtaken
  <1>3. x \notin About(sent[n])
    BY <1>1, <1>2
  <1>4. ASSUME sent[n] = Paint
        PROVE  \E k \in DOMAIN sent : k > j /\ k # n /\ sent[k] = Paint
    <2>1. PICK k \in (j+1)..Len(sent) : k # n /\ sent[k] = Paint
      BY <1>1, <1>2, <1>4
    <2>2. k \in DOMAIN sent /\ k > j
      BY <1>1, <2>1
    <2> QED BY <2>1, <2>2
  <1> QED BY <1>3, <1>4

\* When the n-th is read what the last one says does not change.
LEMMA ReadSays ==
  ASSUME NEW n \in DOMAIN sent, sent \in Seq(Messages), NEW x, x \notin Overtaken(n),
         NEW m, NEW now \in BOOLEAN, NEW then \in BOOLEAN, LastSays(sent, x, m, now),
         x \notin About(sent[n]) /\ now => then,
         x \in About(sent[n]) /\ sent[n] = m => then
  PROVE  LastSays(RemoveAt(sent, n), x, m, then)
  <1> DEFINE r == RemoveAt(sent, n)
  <1>1. /\ \A k \in DOMAIN r :
             \E j \in DOMAIN sent \ {n} : r[k] = sent[j] /\ j = IF k < n THEN k ELSE k+1
        /\ \A j \in DOMAIN sent \ {n} :
             \E k \in DOMAIN r : r[k] = sent[j] /\ j = IF k < n THEN k ELSE k+1
        /\ DOMAIN sent \subseteq Nat /\ DOMAIN r \subseteq Nat
    BY RemoveAtMoves
  <1> HIDE DEF r
  <1>2. ASSUME ~Mentioned(r, x) PROVE then
    <2>1. \A j \in DOMAIN sent \ {n} : x \notin About(sent[j])
      BY <1>1, <1>2 DEF Mentioned
    <2>2. CASE x \in About(sent[n])
      <3>1. sent[n] = m
        BY <1>1, <2>1, <2>2 DEF LastSays
      <3> QED BY <2>2, <3>1
    <2>3. CASE x \notin About(sent[n])
      <3>1. ~Mentioned(sent, x)
        BY <2>1, <2>3 DEF Mentioned
      <3> QED BY <2>3, <3>1 DEF LastSays
    <2> QED BY <2>2, <2>3
  <1>3. ASSUME NEW k \in DOMAIN r, x \in About(r[k]),
               \A i \in DOMAIN r : i > k => x \notin About(r[i])
        PROVE  r[k] = m
    <2>1. PICK j \in DOMAIN sent \ {n} : r[k] = sent[j] /\ j = IF k < n THEN k ELSE k+1
      BY <1>1
    <2>2. ASSUME NEW i \in DOMAIN sent, i > j, x \in About(sent[i]) PROVE FALSE
      <3>1. CASE i = n
        BY <2>1, <2>2, <3>1, <1>3, NotOvertaken
      <3>2. CASE i # n
        <4>1. PICK p \in DOMAIN r : r[p] = sent[i] /\ i = IF p < n THEN p ELSE p+1
          BY <1>1, <3>2
        <4>2. k \in Nat /\ p \in Nat /\ n \in Nat
          BY <1>1
        <4>3. p > k
          BY <2>1, <2>2, <4>1, <4>2
        <4> QED BY <1>3, <2>2, <4>1, <4>3
      <3> QED BY <3>1, <3>2
    <2> QED BY <1>3, <2>1, <2>2 DEF LastSays
  <1> QED BY <1>2, <1>3 DEF LastSays, r

\* Nor is anything left without a paint behind it.
LEMMA ReadPaints ==
  ASSUME NEW n \in DOMAIN sent, sent \in Seq(Messages), NEW x, x \notin Overtaken(n)
  PROVE  /\ PaintFollows(sent, x) => PaintFollows(RemoveAt(sent, n), x)
         /\ PaintFollows(sent, x) /\ x \in About(sent[n]) => Paint \in Range(RemoveAt(sent, n))
         /\ sent[n] # Paint /\ Paint \in Range(sent) => Paint \in Range(RemoveAt(sent, n))
  <1> DEFINE r == RemoveAt(sent, n)
  <1>1. /\ \A k \in DOMAIN r :
             \E j \in DOMAIN sent \ {n} : r[k] = sent[j] /\ j = IF k < n THEN k ELSE k+1
        /\ \A j \in DOMAIN sent \ {n} :
             \E k \in DOMAIN r : r[k] = sent[j] /\ j = IF k < n THEN k ELSE k+1
        /\ DOMAIN sent \subseteq Nat /\ DOMAIN r \subseteq Nat
    BY RemoveAtMoves
  <1> HIDE DEF r
  <1>2. \A j \in DOMAIN sent : sent[j] = Paint /\ j # n => Paint \in Range(r)
    BY <1>1 DEF Range
  <1>3. ASSUME PaintFollows(sent, x), NEW k \in DOMAIN r, x \in About(r[k])
        PROVE  \E p \in DOMAIN r : p > k /\ r[p] = Paint
    <2>1. PICK j \in DOMAIN sent \ {n} : r[k] = sent[j] /\ j = IF k < n THEN k ELSE k+1
      BY <1>1
    <2>2. PICK i \in DOMAIN sent : i > j /\ sent[i] = Paint
      BY <1>3, <2>1 DEF PaintFollows
    <2>3. \E i2 \in DOMAIN sent : i2 > j /\ i2 # n /\ sent[i2] = Paint
      <3>1. CASE i # n
        BY <2>2, <3>1
      <3>2. CASE i = n
        BY <1>3, <2>1, <2>2, <3>2, NotOvertaken
      <3> QED BY <3>1, <3>2
    <2>4. PICK i2 \in DOMAIN sent : i2 > j /\ i2 # n /\ sent[i2] = Paint
      BY <2>3
    <2>5. PICK p \in DOMAIN r : r[p] = sent[i2] /\ i2 = IF p < n THEN p ELSE p+1
      BY <1>1, <2>4
    <2>6. p > k
      <3>1. k \in Nat /\ p \in Nat /\ n \in Nat
        BY <1>1
      <3> QED BY <2>1, <2>4, <2>5, <3>1
    <2> QED BY <2>4, <2>5, <2>6
  <1>4. ASSUME PaintFollows(sent, x), x \in About(sent[n]) PROVE Paint \in Range(r)
    <2>1. PICK i \in DOMAIN sent : i > n /\ sent[i] = Paint
      BY <1>4 DEF PaintFollows
    <2>2. i # n
      BY <1>1, <2>1
    <2> QED BY <1>2, <2>1, <2>2
  <1>5. ASSUME sent[n] # Paint, Paint \in Range(sent) PROVE Paint \in Range(r)
    <2>1. PICK i \in DOMAIN sent : sent[i] = Paint
      BY <1>5 DEF Range
    <2> QED BY <1>2, <1>5, <2>1
  <1> QED BY <1>3, <1>4, <1>5 DEF PaintFollows, r

\* One more message at the end.
LEMMA SaidLast ==
  ASSUME NEW l \in Seq(Messages), NEW h \in Messages, NEW x, NEW m, NEW now \in BOOLEAN
  PROVE  /\ LastSays(l, x, m, now) /\ x \notin About(h) => LastSays(Append(l, h), x, m, now)
         /\ x \in About(m) => LastSays(Append(l, m), x, m, now)
         /\ PaintFollows(l, x) /\ x \notin About(h) => PaintFollows(Append(l, h), x)
         /\ x \notin About(Paint) => PaintFollows(Append(l, Paint), x)
  <1>1. ASSUME NEW e
        PROVE  /\ DOMAIN Append(l, e) = 1..Len(l)+1
               /\ DOMAIN l = 1..Len(l) /\ Len(l) \in Nat
               /\ Append(l, e)[Len(l)+1] = e /\ \A i \in 1..Len(l) : Append(l, e)[i] = l[i]
    OBVIOUS
  <1>2. ASSUME LastSays(l, x, m, now), x \notin About(h) PROVE LastSays(Append(l, h), x, m, now)
    <2> DEFINE r == Append(l, h)
    <2>1. /\ DOMAIN r = 1..Len(l)+1 /\ DOMAIN l = 1..Len(l) /\ Len(l) \in Nat
          /\ r[Len(l)+1] = h /\ \A i \in 1..Len(l) : r[i] = l[i]
      BY <1>1
    <2> HIDE DEF r
    <2>2. ~Mentioned(r, x) => ~Mentioned(l, x)
      BY <2>1 DEF Mentioned
    <2>3. ASSUME NEW k \in DOMAIN r, x \in About(r[k]),
                 \A i \in DOMAIN r : i > k => x \notin About(r[i])
          PROVE  r[k] = m
      <3>1. k \in DOMAIN l
        BY <1>2, <2>1, <2>3
      <3>2. \A i \in DOMAIN l : i > k => x \notin About(l[i])
        BY <2>1, <2>3
      <3> QED BY <1>2, <2>1, <2>3, <3>1, <3>2 DEF LastSays
    <2> QED BY <1>2, <2>2, <2>3 DEF LastSays, r
  <1>3. ASSUME x \in About(m) PROVE LastSays(Append(l, m), x, m, now)
    <2> DEFINE r == Append(l, m)
    <2>1. /\ DOMAIN r = 1..Len(l)+1 /\ Len(l) \in Nat /\ r[Len(l)+1] = m
      BY <1>1
    <2> HIDE DEF r
    <2>2. Mentioned(r, x)
      BY <1>3, <2>1 DEF Mentioned
    <2>3. ASSUME NEW k \in DOMAIN r, \A i \in DOMAIN r : i > k => x \notin About(r[i])
          PROVE  r[k] = m
      BY <1>3, <2>1, <2>3
    <2> QED BY <2>2, <2>3 DEF LastSays, r
  <1>4. ASSUME PaintFollows(l, x), x \notin About(h) PROVE PaintFollows(Append(l, h), x)
    <2> DEFINE r == Append(l, h)
    <2>1. /\ DOMAIN r = 1..Len(l)+1 /\ DOMAIN l = 1..Len(l) /\ Len(l) \in Nat
          /\ r[Len(l)+1] = h /\ \A i \in 1..Len(l) : r[i] = l[i]
      BY <1>1
    <2> HIDE DEF r
    <2>2. ASSUME NEW k \in DOMAIN r, x \in About(r[k])
          PROVE  \E p \in DOMAIN r : p > k /\ r[p] = Paint
      <3>1. k \in DOMAIN l /\ x \in About(l[k])
        BY <1>4, <2>1, <2>2
      <3>2. PICK p \in DOMAIN l : p > k /\ l[p] = Paint
        BY <1>4, <3>1 DEF PaintFollows
      <3> QED BY <2>1, <3>2
    <2> QED BY <2>2 DEF PaintFollows, r
  <1>5. ASSUME x \notin About(Paint) PROVE PaintFollows(Append(l, Paint), x)
    <2> DEFINE r == Append(l, Paint)
    <2>1. /\ DOMAIN r = 1..Len(l)+1 /\ Len(l) \in Nat /\ r[Len(l)+1] = Paint
      BY <1>1
    <2> HIDE DEF r
    <2>2. ASSUME NEW k \in DOMAIN r, x \in About(r[k])
          PROVE  \E p \in DOMAIN r : p > k /\ r[p] = Paint
      BY <1>5, <2>1, <2>2
    <2> QED BY <2>2 DEF PaintFollows, r
  <1> QED BY <1>2, <1>3, <1>4, <1>5

\* What fbsplashd was told changes by messages about it, and it paints what it
\* was told.
LEMMA ObeyShows ==
  ASSUME NEW m \in Messages, Obey(m), daemon \in Daemons, daemon.alive, daemon'.alive,
         conf' = conf
  PROVE  /\ \A s \in Services : s \notin About(m) => daemon'.svc[s] = daemon.svc[s]
         /\ \A s \in Services, st \in States : m = Svc(s, st) => daemon'.svc[s] = st
         /\ "bar" \notin About(m) => daemon'.bar = daemon.bar
         /\ \A k \in Nat : m = Progress(k) => daemon'.bar = k
         /\ Visible' => \/ Visible /\ screen' = screen /\ m # Paint
                        \/ screen' = Picture(daemon')
  <1> DEFINE Kept == daemon'.svc = daemon.svc /\ daemon'.bar = daemon.bar
             Screened == Visible' => \/ Visible /\ screen' = screen /\ m # Paint
                                     \/ screen' = Picture(daemon')
             Whole == /\ \A s \in Services : s \notin About(m) => daemon'.svc[s] = daemon.svc[s]
                      /\ \A s \in Services, st \in States : m = Svc(s, st) => daemon'.svc[s] = st
                      /\ "bar" \notin About(m) => daemon'.bar = daemon.bar
                      /\ \A k \in Nat : m = Progress(k) => daemon'.bar = k
  <1>1. /\ daemon.svc \in [Services -> States] /\ daemon \in Daemons
        /\ daemon \in [alive : BOOLEAN, tty : {TtySilent, conf.tty}, ctty : {"silent", "verbose"},
                       sig : SUBSET {"come", "leave"}, missed : BOOLEAN,
                       svc : [Services -> States], bar : Nat]
    BY DEF Daemons
  <1>2. ASSUME About(m) = {}, Kept PROVE Whole
    <2>1. /\ \A s \in Services, st \in States : m # Svc(s, st)
          /\ \A k \in Nat : m # Progress(k)
      BY <1>2, Subjects
    <2> QED BY <1>2, <2>1
  <1>3. CASE \E s \in Services, st \in States : m = Svc(s, st)
    <2> PICK s \in Services, st \in States : m = Svc(s, st)
      BY <1>3
    <2>1. m[1] = "update_svc" /\ m[2] = s /\ m[3] = st
      BY DEF Svc
    <2>2. daemon' = [daemon EXCEPT !.svc[s] = st] /\ UNCHANGED <<screen, front>>
      BY <2>1 DEF Obey
    <2>3. /\ daemon'.svc = [daemon.svc EXCEPT ![s] = st] /\ daemon'.bar = daemon.bar
          /\ daemon'.ctty = daemon.ctty /\ daemon'.sig = daemon.sig
      BY <1>1, <2>2
    <2>4. About(m) = {s} /\ m # Paint /\ \A k \in Nat : m # Progress(k)
      <3>1. About(Svc(s, st)) = {s} /\ Svc(s, st) # Paint
        BY Subjects
      <3>2. ASSUME NEW k \in Nat, m = Progress(k) PROVE FALSE
        <4>1. About(m) = {"bar"}
          BY <3>2, Subjects
        <4> QED BY <3>1, <4>1, NamesApart
      <3> QED BY <3>1, <3>2
    <2>5. ASSUME NEW t \in Services, NEW st2 \in States, m = Svc(t, st2) PROVE t = s /\ st2 = st
      <3>1. m[2] = t /\ m[3] = st2
        BY <2>5 DEF Svc
      <3> QED BY <2>1, <3>1
    <2>6. Whole
      <3>1. daemon'.svc[s] = st /\ \A t \in Services \ {s} : daemon'.svc[t] = daemon.svc[t]
        BY <1>1, <2>3
      <3> QED BY <2>3, <2>4, <2>5, <3>1
    <2>7. Screened
      BY <2>2, <2>3, <2>4 DEF Visible
    <2> QED BY <2>6, <2>7
  <1>4. CASE \E k \in Nat : m = Progress(k)
    <2> PICK k \in Nat : m = Progress(k)
      BY <1>4
    <2>1. m[1] = "progress" /\ m[2] = k
      BY DEF Progress
    <2>2. daemon' = [daemon EXCEPT !.bar = k] /\ UNCHANGED <<screen, front>>
      BY <2>1 DEF Obey
    <2>3. /\ daemon'.svc = daemon.svc /\ daemon'.bar = k
          /\ daemon'.ctty = daemon.ctty /\ daemon'.sig = daemon.sig
      BY <1>1, <2>2
    <2>4. About(m) = {"bar"} /\ m # Paint
      BY Subjects
    <2>5. ASSUME NEW t \in Services, NEW st2 \in States, m = Svc(t, st2) PROVE FALSE
      <3>1. About(m) = {t}
        BY <2>5, Subjects
      <3> QED BY <2>4, <3>1, NamesApart
    <2>6. ASSUME NEW k2 \in Nat, m = Progress(k2) PROVE k2 = k
      <3>1. m[2] = k2
        BY <2>6 DEF Progress
      <3> QED BY <2>1, <3>1
    <2>7. Whole
      BY <2>3, <2>4, <2>5, <2>6
    <2>8. Screened
      BY <2>2, <2>3, <2>4 DEF Visible
    <2> QED BY <2>7, <2>8
  <1>5. CASE m \in {Paint, Repaint}
    <2>1. m[1] \in {"paint", "repaint"} /\ About(m) = {}
      BY <1>5, Subjects DEF Paint, Repaint
    <2>2. /\ screen' = IF daemon.ctty = "silent" THEN Picture(daemon) ELSE screen
          /\ UNCHANGED <<daemon, front>>
      BY <1>5, <2>1 DEF Obey
    <2>3. Whole
      BY <1>2, <2>1, <2>2
    <2>4. Screened
      BY <2>2 DEF Visible
    <2> QED BY <2>3, <2>4
  <1>6. CASE m = ModeSilent
    <2>1. m[1] = "set mode silent" /\ About(m) = {} /\ m # Paint
      BY <1>6, Subjects DEF ModeSilent
    <2>2. ToFront(daemon, daemon.tty)
      BY <1>6, <2>1 DEF Obey
    <2>3. /\ Kept
          /\ front = daemon.tty => daemon' = daemon /\ screen' = screen /\ front' = front
          /\ front # daemon.tty => "come" \in daemon'.sig
      <3>1. daemon.tty \in {Verbose, TtySilent, conf.tty}
        BY <1>1
      <3> QED BY <1>1, <2>2, <3>1, ToFrontKeeps
    <2>4. Whole
      BY <1>2, <2>1, <2>3
    <2>5. Screened
      BY <2>1, <2>3 DEF Visible
    <2> QED BY <2>4, <2>5
  <1>7. CASE m = SetTty
    <2>1. m[1] = "set tty silent" /\ About(m) = {} /\ m # Paint
      BY <1>7, Subjects DEF SetTty
    <2>2. daemon' = [daemon EXCEPT !.tty = conf.tty] /\ UNCHANGED <<screen, front>>
      BY <1>7, <2>1 DEF Obey
    <2>3. Kept /\ daemon'.ctty = daemon.ctty /\ daemon'.sig = daemon.sig
      BY <1>1, <2>2
    <2>4. Whole
      BY <1>2, <2>1, <2>3
    <2>5. Screened
      BY <2>1, <2>2, <2>3 DEF Visible
    <2> QED BY <2>4, <2>5
  <1>8. CASE \E stay \in BOOLEAN : m = Exit(stay)
    <2> PICK stay \in BOOLEAN : m = Exit(stay)
      BY <1>8
    <2>1. m[1] = "exit" /\ m[2] = stay
      BY DEF Exit
    <2>2. ObeyExit(stay)
      BY <2>1 DEF Obey
    <2>3. ~daemon'.alive
      BY <1>1, <2>2 DEF ObeyExit
    <2> QED BY <2>3
  <1> QED BY <1>3, <1>4, <1>5, <1>6, <1>7, <1>8 DEF Messages

\* Nothing is seen of the splash when the verbose console comes to the front.
LEMMA HidesIt ==
  ASSUME daemon \in Daemons, ToFront(daemon, Verbose), conf' = conf
  PROVE  /\ daemon'.svc = daemon.svc /\ daemon'.bar = daemon.bar /\ daemon'.alive = daemon.alive
         /\ ~Visible'
  BY ToFrontKeeps DEF Visible

\* What a process adds to the messages.
LEMMA SayEffects ==
  ASSUME NEW p \in Processes, Say(p), Types, daemon.alive
  PROVE  /\ todo[p] # <<>> /\ todo[p] \in Seq(Messages) /\ Head(todo[p]) \in Messages
         /\ Head(todo[p]) \in Range(todo[p])
         /\ sent' = Append(sent, Head(todo[p]))
         /\ Range(sent') = Range(sent) \union {Head(todo[p])}
         /\ todo'[p] = Tail(todo[p]) /\ \A q \in Processes \ {p} : todo'[q] = todo[q]
         /\ UNCHANGED <<rc, script, daemon, screen, front, behind, file, loaded, overlapped, mounted>>
  <1>1. todo \in [Processes -> Seq(Messages)] /\ sent \in Seq(Messages)
    BY DEF Types, MessageTypes
  <1>2. /\ todo[p] # <<>> /\ sent' = Append(sent, Head(todo[p]))
        /\ todo' = [todo EXCEPT ![p] = Tail(@)]
        /\ UNCHANGED <<rc, script, daemon, screen, front, behind, file, loaded, overlapped, mounted>>
    BY DEF Say, Quiet, consoleVars, progressVars
  <1>3. /\ todo[p] \in Seq(Messages) /\ Head(todo[p]) \in Messages
        /\ Head(todo[p]) \in Range(todo[p])
    BY <1>1, <1>2, HeadTailKeep
  <1>4. Range(Append(sent, Head(todo[p]))) = Range(sent) \union {Head(todo[p])}
    BY <1>1, <1>3, AppendKeeps
  <1>5. todo'[p] = Tail(todo[p]) /\ \A q \in Processes \ {p} : todo'[q] = todo[q]
    BY <1>1, <1>2
  <1> QED BY <1>2, <1>3, <1>4, <1>5

\* A script that is about to send a message at all is told busy at least; what
\* it sends is one of these.
LEMMA HeadsOf ==
  ASSUME NEW s \in Services, StagesOf(s), todo[s] # <<>>, sent \in Seq(Messages)
  PROVE  /\ script[s].told # "inactive"
         /\ \/ todo[s] = <<Paint>> /\ Head(todo[s]) = Paint /\ Tail(todo[s]) = <<>>
            \/ todo[s] = <<ModeSilent>> /\ Head(todo[s]) = ModeSilent /\ Tail(todo[s]) = <<>>
            \/ /\ todo[s] = <<Svc(s, script[s].told), Paint>>
               /\ Head(todo[s]) = Svc(s, script[s].told) /\ Tail(todo[s]) = <<Paint>>
            \/ /\ todo[s] = <<Svc(s, script[s].told)>> /\ script[s].pc = "load"
               /\ Head(todo[s]) = Svc(s, script[s].told) /\ Tail(todo[s]) = <<>>
            \/ /\ todo[s] = <<Progress(loaded[s].count)>> /\ script[s].pc = "save"
               /\ Head(todo[s]) = Progress(loaded[s].count) /\ Tail(todo[s]) = <<>>
  <1>1. TodoOf(s) /\ script[s].told # "inactive"
    BY DEF StagesOf
  <1>2. \/ todo[s] = <<Paint>> \/ todo[s] = <<ModeSilent>>
        \/ todo[s] = <<Svc(s, script[s].told), Paint>>
        \/ todo[s] = <<Svc(s, script[s].told)>> /\ script[s].pc = "load"
        \/ todo[s] = <<Progress(loaded[s].count)>> /\ script[s].pc = "save"
    BY <1>1 DEF TodoOf
  <1>3. \A m : Head(<<m>>) = m /\ Tail(<<m>>) = <<>>
    BY ShortLists
  <1>4. Head(<<Svc(s, script[s].told), Paint>>) = Svc(s, script[s].told)
        /\ Tail(<<Svc(s, script[s].told), Paint>>) = <<Paint>>
    BY ShortLists
  <1> QED BY <1>1, <1>2, <1>3, <1>4, Zenon

\* It is about that script, or the progress.
LEMMA HeadAbout ==
  ASSUME NEW s \in Services, StagesOf(s), todo[s] # <<>>, sent \in Seq(Messages)
  PROVE  About(Head(todo[s])) \subseteq {s, "bar"}
  <1>1. \/ Head(todo[s]) = Paint \/ Head(todo[s]) = ModeSilent
        \/ Head(todo[s]) = Svc(s, script[s].told) \/ Head(todo[s]) = Progress(loaded[s].count)
    BY HeadsOf
  <1>2. /\ About(Paint) = {} /\ About(ModeSilent) = {} /\ About(Svc(s, script[s].told)) = {s}
        /\ About(Progress(loaded[s].count)) = {"bar"}
    BY Subjects
  <1> QED BY <1>1, <1>2, Zenon

\* What each script told last arrives, and is painted.
LEMMA SvcStep ==
  ASSUME Types, Stages, Followed, [Next]_vars, daemon'.alive, rc'.pc # "ended",
         NEW s \in Services \ behind'
  PROVE  SvcFollowed(s)'
  <1> USE NamesApart
  <1>1. /\ script \in [Services -> [pc : {"idle", "run", "leave", "prompt", "load", "save", "write", "done"},
                                    told : States, reported : BOOLEAN]]
        /\ todo \in [Processes -> Seq(Messages)] /\ sent \in Seq(Messages)
        /\ daemon \in Daemons /\ rc \in RcStates
    BY DEF Types, ScriptTypes, MessageTypes, ConsoleTypes
  <1>2. StagesOf(s) /\ RcStages
    BY DEF Stages
  <1>3. s # "bar" /\ s # "rc" /\ s \in Processes /\ s \in Services
    OBVIOUS
  <1>4. ASSUME SvcFollowed(s), script'[s].told = script[s].told, sent' = sent,
               daemon'.svc[s] = daemon.svc[s],
               Reporting(s) => Reporting(s)',
               Mentioned(todo[s], s) => Mentioned(todo'[s], s),
               Paint \in Range(todo[s]) => Paint \in Range(todo'[s]),
               Visible' => Visible /\ screen'.svc[s] = screen.svc[s]
        PROVE  SvcFollowed(s)'
    <2>1. CASE script[s].told = "inactive"
      BY <1>4, <2>1 DEF SvcFollowed
    <2>2. CASE script[s].told # "inactive"
      <3>1. \/ Mentioned(todo'[s], s)
            \/ LastSays(sent', s, Svc(s, script'[s].told), daemon'.svc[s] = script'[s].told)
        BY <1>4, <2>2 DEF SvcFollowed
      <3>2. \/ Reporting(s)' \/ Paint \in Range(todo'[s])
            \/ Painted(sent, s, screen.svc[s] = daemon.svc[s])'
        BY <1>4, <2>2 DEF SvcFollowed, Painted
      <3> QED BY <1>4, <2>2, <3>1, <3>2 DEF SvcFollowed
    <2> QED BY <2>1, <2>2
  <1>5. ASSUME daemon.alive, rc.pc # "ended", behind \subseteq behind' PROVE SvcFollowed(s)
    BY <1>5 DEF Followed
  <1>6. ASSUME NEW n \in DOMAIN sent, Deliver(n) PROVE SvcFollowed(s)'
    <2> DEFINE m == sent[n]
               r == RemoveAt(sent, n)
    <2>1. /\ m \in Messages /\ m \in Range(sent) /\ Obey(m) /\ daemon.alive /\ rc.pc # "ended"
          /\ sent' = r /\ s \notin Overtaken(n) /\ behind \subseteq behind'
          /\ UNCHANGED <<conf, script, todo>>
      BY <1>1, <1>6 DEF Deliver, Range
    <2>2. SvcFollowed(s)
      BY <1>5, <2>1
    <2>3. /\ s \notin About(m) => daemon'.svc[s] = daemon.svc[s]
          /\ \A st \in States : m = Svc(s, st) => daemon'.svc[s] = st
          /\ Visible' => \/ Visible /\ screen' = screen /\ m # Paint
                         \/ screen' = Picture(daemon')
      BY <1>1, <2>1, ObeyShows
    <2>4. Range(r) \subseteq Range(sent)
      BY <1>1, RemoveAtKeeps
    <2>5. /\ PaintFollows(sent, s) => PaintFollows(r, s)
          /\ PaintFollows(sent, s) /\ s \in About(m) => Paint \in Range(r)
          /\ m # Paint /\ Paint \in Range(sent) => Paint \in Range(r)
      BY <1>1, <2>1, ReadPaints
    <2> HIDE DEF r
    <2>6. CASE script[s].told = "inactive"
      <3>1. /\ daemon.svc[s] = "inactive" /\ (Visible => screen.svc[s] = "inactive")
            /\ \A k \in Range(sent) : s \in About(k) => k = Svc(s, "inactive")
        BY <2>2, <2>6 DEF SvcFollowed
      <3>2. daemon'.svc[s] = "inactive"
        BY <2>1, <2>3, <3>1 DEF States
      <3>3. Visible' => screen'.svc[s] = "inactive"
        BY <2>3, <3>1, <3>2 DEF Picture
      <3> QED BY <2>1, <2>4, <2>6, <3>1, <3>2, <3>3 DEF SvcFollowed
    <2>7. CASE script[s].told # "inactive"
      <3> DEFINE t == script[s].told
      <3>1. t \in States
        BY <1>1
      <3>2. ASSUME LastSays(sent, s, Svc(s, t), daemon.svc[s] = t)
            PROVE  LastSays(r, s, Svc(s, t), daemon'.svc[s] = t)
        <4> DEFINE now == daemon.svc[s] = t
                   then == daemon'.svc[s] = t
        <4>1. now \in BOOLEAN /\ then \in BOOLEAN
          OBVIOUS
        <4>2. s \notin About(m) /\ now => then
          BY <2>3
        <4>3. s \in About(m) /\ m = Svc(s, t) => then
          BY <2>3, <3>1
        <4>4. LastSays(sent, s, Svc(s, t), now)
          BY <3>2
        <4> HIDE DEF now, then
        <4>5. LastSays(r, s, Svc(s, t), then)
          BY <1>1, <2>1, <4>1, <4>2, <4>3, <4>4, ReadSays DEF r
        <4> QED BY <4>5 DEF then
      <3>3. ASSUME Painted(sent, s, screen.svc[s] = daemon.svc[s])
            PROVE  Painted(sent, s, screen.svc[s] = daemon.svc[s])'
        <4>1. /\ PaintFollows(sent, s) /\ PaintFollows(r, s)
              /\ Visible => screen.svc[s] = daemon.svc[s] \/ Paint \in Range(sent)
          BY <2>5, <3>3 DEF Painted
        <4>2. ASSUME Visible' PROVE screen'.svc[s] = daemon'.svc[s] \/ Paint \in Range(r)
          <5>1. CASE screen' = Picture(daemon')
            BY <5>1 DEF Picture
          <5>2. CASE Visible /\ screen' = screen /\ m # Paint
            BY <2>3, <2>5, <4>1, <5>2
          <5> QED BY <2>3, <4>2, <5>1, <5>2
        <4> QED BY <2>1, <4>1, <4>2 DEF Painted
      <3>4. /\ Mentioned(todo[s], s) \/ LastSays(sent, s, Svc(s, t), daemon.svc[s] = t)
            /\ \/ Reporting(s) \/ Paint \in Range(todo[s])
               \/ Painted(sent, s, screen.svc[s] = daemon.svc[s])
        BY <2>2, <2>7 DEF SvcFollowed
      <3>5. Reporting(s)' <=> Reporting(s)
        BY <2>1 DEF Reporting
      <3> QED BY <2>1, <2>7, <3>2, <3>3, <3>4, <3>5 DEF SvcFollowed
    <2> QED BY <2>6, <2>7
  <1>7. ASSUME NEW n \in DOMAIN sent, Miss(n) PROVE FALSE
    BY <1>7 DEF Miss
  <1>8. ASSUME NEW p \in Processes, Say(p) PROVE SvcFollowed(s)'
    <2> DEFINE h == Head(todo[p])
    <2>0. daemon.alive /\ rc.pc # "ended" /\ behind \subseteq behind'
      BY <1>8 DEF Say, consoleVars
    <2>1. /\ todo[p] # <<>> /\ todo[p] \in Seq(Messages) /\ h \in Messages
          /\ h \in Range(todo[p])
          /\ sent' = Append(sent, h)
          /\ Range(sent') = Range(sent) \union {h}
          /\ todo'[p] = Tail(todo[p]) /\ \A q \in Processes \ {p} : todo'[q] = todo[q]
          /\ UNCHANGED <<rc, script, daemon, screen, front>>
      BY <1>8, <2>0, SayEffects
    <2>2. SvcFollowed(s)
      BY <1>5, <2>0
    <2> HIDE DEF h
    <2>3. (Visible' <=> Visible) /\ (Reporting(s)' <=> Reporting(s))
      BY <2>1 DEF Visible, Reporting
    <2>4. CASE script[s].told = "inactive"
      <3>1. p # s
        BY <1>2, <2>1, <2>4 DEF StagesOf
      <3>2. s \in About(h) => h = Svc(s, "inactive")
        <4>1. CASE p = "rc"
          BY <1>2, <2>1, <4>1 DEF RcStages
        <4>2. CASE p # "rc"
          <5>1. p \in Services
            BY <4>2 DEF Processes
          <5>2. s \notin About(h)
            BY <1>3, <1>1, <2>1, <3>1, <5>1, HeadAbout DEF Stages, h
          <5> QED BY <5>2
        <4> QED BY <4>1, <4>2
      <3> QED BY <2>1, <2>2, <2>3, <2>4, <3>2 DEF SvcFollowed
    <2>5. CASE script[s].told # "inactive"
      <3> DEFINE t == script[s].told
                 now == daemon.svc[s] = t
                 same == screen.svc[s] = daemon.svc[s]
      <3>1. now \in BOOLEAN
        OBVIOUS
      <3>2. /\ Mentioned(todo[s], s) \/ LastSays(sent, s, Svc(s, t), now)
            /\ Reporting(s) \/ Paint \in Range(todo[s]) \/ Painted(sent, s, same)
        BY <2>2, <2>5 DEF SvcFollowed
      <3>3. SUFFICES
              /\ Mentioned(todo'[s], s) \/ LastSays(sent', s, Svc(s, t), now)
              /\ \/ Reporting(s) \/ Paint \in Range(todo'[s])
                 \/ PaintFollows(sent', s) /\ (Visible => same \/ Paint \in Range(sent'))
        BY <2>1, <2>3, <2>5 DEF SvcFollowed, Painted
      <3> HIDE DEF now, same
      <3>4. Painted(sent, s, same) /\ s \notin About(h)
              => PaintFollows(sent', s) /\ (Visible => same \/ Paint \in Range(sent'))
        BY <1>1, <2>1, <3>1, SaidLast DEF Painted
      <3>5. LastSays(sent, s, Svc(s, t), now) /\ s \notin About(h)
              => LastSays(sent', s, Svc(s, t), now)
        BY <1>1, <2>1, <3>1, SaidLast
      <3>6. h = Svc(s, t) => LastSays(sent', s, Svc(s, t), now)
        <4>1. s \in About(Svc(s, t))
          BY Subjects
        <4>2. LastSays(Append(sent, Svc(s, t)), s, Svc(s, t), now)
          BY <1>1, <2>1, <3>1, <4>1, SaidLast
        <4> QED BY <2>1, <4>2
      <3>7. h = Paint => PaintFollows(sent', s) /\ Paint \in Range(sent')
        BY <1>1, <2>1, <3>1, SaidLast, Subjects
      <3>8. CASE p # s
        <4>1. s \notin About(h)
          <5>1. CASE p = "rc"
            BY <1>2, <2>1, <2>5, <5>1 DEF RcStages
          <5>2. CASE p # "rc"
            <6>1. p \in Services
              BY <5>2 DEF Processes
            <6> QED BY <1>3, <1>1, <2>1, <3>8, <6>1, HeadAbout DEF Stages, h
          <5> QED BY <5>1, <5>2
        <4>2. todo'[s] = todo[s]
          BY <2>1, <3>8
        <4> QED BY <3>2, <3>4, <3>5, <4>1, <4>2
      <3>9. CASE p = s
        <4>1. todo[s] # <<>> /\ todo'[s] = Tail(todo[s]) /\ h = Head(todo[s])
          BY <2>1, <3>9 DEF h
        <4>2. ASSUME todo[s] = <<Paint>>, h = Paint
              PROVE  LastSays(sent', s, Svc(s, t), now) /\ PaintFollows(sent', s) /\ Paint \in Range(sent')
          <5>1. ~Mentioned(todo[s], s)
            BY <4>2, Subjects DEF Mentioned
          <5> QED BY <3>2, <3>5, <3>7, <4>2, <5>1, Subjects
        <4>3. ASSUME todo[s] = <<ModeSilent>>, h = ModeSilent
              PROVE  /\ LastSays(sent', s, Svc(s, t), now)
                     /\ \/ Reporting(s)
                        \/ PaintFollows(sent', s) /\ (Visible => same \/ Paint \in Range(sent'))
          <5>1. ~Mentioned(todo[s], s)
            BY <4>3, Subjects DEF Mentioned
          <5>2. Paint \notin Range(todo[s])
            BY <4>3, Subjects, ShortLists
          <5> QED BY <3>2, <3>4, <3>5, <4>3, <5>1, <5>2, Subjects
        <4>4. ASSUME h = Svc(s, t), todo'[s] = <<Paint>>
              PROVE  LastSays(sent', s, Svc(s, t), now) /\ Paint \in Range(todo'[s])
          BY <3>6, <4>4, ShortLists
        <4>5. ASSUME h = Svc(s, t), script[s].pc = "load"
              PROVE  LastSays(sent', s, Svc(s, t), now) /\ Reporting(s)
          BY <3>6, <4>5 DEF Reporting
        <4>6. ASSUME todo[s] = <<Progress(loaded[s].count)>>, h = Progress(loaded[s].count),
                     script[s].pc = "save"
              PROVE  LastSays(sent', s, Svc(s, t), now) /\ Reporting(s)
          <5>1. s \notin About(h)
            BY <1>3, <4>6, Subjects
          <5>2. ~Mentioned(todo[s], s)
            BY <4>6, <5>1 DEF Mentioned
          <5> QED BY <3>2, <3>5, <4>6, <5>1, <5>2 DEF Reporting
        <4>7. \/ todo[s] = <<Paint>> /\ h = Paint
              \/ todo[s] = <<ModeSilent>> /\ h = ModeSilent
              \/ h = Svc(s, t) /\ todo'[s] = <<Paint>>
              \/ h = Svc(s, t) /\ script[s].pc = "load"
              \/ todo[s] = <<Progress(loaded[s].count)>> /\ h = Progress(loaded[s].count)
                 /\ script[s].pc = "save"
          BY <1>1, <1>2, <4>1, HeadsOf
        <4> QED BY <4>2, <4>3, <4>4, <4>5, <4>6, <4>7
      <3> QED BY <3>8, <3>9
    <2> QED BY <2>4, <2>5
  <1>9. ASSUME NEW u \in Services, Script(u) PROVE SvcFollowed(s)'
    <2>1. /\ rc' = rc /\ behind \subseteq behind' /\ sent' = sent /\ Quiet(u)
          /\ todo' = todo \/ \E q : todo' = [todo EXCEPT ![u] = q]
          /\ \E pc, told : Goes(u, pc, told)
      BY <1>9 DEF Script, SvcStart, Report, FailVerbose, InputBegin, InputLeave, InputEnd, Load, Truncate, Write,
                  At, consoleVars
    <2>2. \/ UNCHANGED <<daemon, screen, front>>
          \/ daemon'.svc = daemon.svc /\ daemon'.alive = daemon.alive /\ ~Visible'
      <3>1. CASE FailVerbose(u)
        BY <1>1, <3>1, HidesIt DEF FailVerbose
      <3>2. CASE InputLeave(u)
        BY <1>1, <3>2, HidesIt DEF InputLeave
      <3>3. CASE ~FailVerbose(u) /\ ~InputLeave(u)
        BY <1>9, <3>3 DEF Script, SvcStart, Report, InputBegin, InputEnd, Load, Truncate, Write,
                         consoleVars
      <3> QED BY <3>1, <3>2, <3>3
    <2>3. SvcFollowed(s)
      BY <1>5, <2>1, <2>2
    <2>4. daemon'.svc[s] = daemon.svc[s] /\ (Visible' => Visible /\ screen'.svc[s] = screen.svc[s])
      BY <2>2 DEF Visible
    <2>5. CASE u # s
      <3>1. script'[s] = script[s] /\ todo'[s] = todo[s]
        BY <1>1, <2>1, <2>5 DEF Goes
      <3> QED BY <1>4, <2>1, <2>3, <2>4, <3>1 DEF Reporting
    <2>6. CASE u = s
      <3>1. ASSUME NEW pc, NEW told, Goes(s, pc, told)
            PROVE  script'[s].pc = pc /\ script'[s].told = told
        BY <1>1, <3>1 DEF Goes
      <3>2. todo[s] = <<>> /\ ~Mentioned(todo[s], s) /\ Paint \notin Range(todo[s])
        BY <2>1, <2>6, ShortLists DEF Quiet, Mentioned
      <3>3. ASSUME NEW q, todo' = [todo EXCEPT ![s] = q] PROVE todo'[s] = q
        BY <1>1, <3>3
      <3>4. ASSUME script'[s].told = script[s].told, ~Reporting(s) \/ Reporting(s)'
            PROVE  SvcFollowed(s)'
        BY <1>4, <2>1, <2>3, <2>4, <3>2, <3>4
      <3>5. CASE SvcStart(s)
        <4>1. script'[s].told = "busy" /\ todo'[s] = <<Svc(s, "busy"), Paint>>
          BY <3>1, <3>3, <3>5 DEF SvcStart
        <4>2. Mentioned(todo'[s], s) /\ Paint \in Range(todo'[s])
          BY <4>1, Subjects, ShortLists DEF Mentioned
        <4> QED BY <4>1, <4>2 DEF SvcFollowed
      <3>6. ASSUME NEW res \in {"ok", "failed"}, Report(s, res) PROVE SvcFollowed(s)'
        <4>1. script'[s].pc = "load" /\ script'[s].told = res /\ todo'[s] = <<Svc(s, res)>>
          BY <3>1, <3>3, <3>6 DEF Report
        <4>2. Mentioned(todo'[s], s) /\ Reporting(s)'
          BY <4>1, Subjects DEF Mentioned, Reporting
        <4> QED BY <4>1, <4>2 DEF SvcFollowed
      <3>7. CASE FailVerbose(s) \/ InputBegin(s) \/ InputLeave(s) \/ InputEnd(s)
        <4>1. script'[s].told = "busy" /\ script[s].pc \in {"run", "leave", "prompt"}
          BY <3>1, <3>7 DEF FailVerbose, InputBegin, InputLeave, InputEnd, At
        <4>2. script[s].told = "busy" /\ ~Reporting(s)
          BY <1>2, <4>1 DEF StagesOf, Reporting
        <4> QED BY <3>4, <4>1, <4>2
      <3>8. CASE Load(s)
        <4>1. ~Counted(s)
          BY <3>8 DEF Load
        <4>2. script'[s].pc = "save" /\ script'[s].told = script[s].told
          BY <3>1, <3>8, <4>1 DEF Load
        <4> QED BY <3>4, <4>2 DEF Reporting
      <3>9. CASE Truncate(s)
        <4>1. script'[s].pc = "write" /\ script'[s].told = script[s].told
          BY <3>1, <3>9 DEF Truncate
        <4> QED BY <3>4, <4>1 DEF Reporting
      <3>10. CASE Write(s)
        <4>1. script'[s].told = script[s].told /\ todo'[s] = <<Paint>>
          BY <3>1, <3>3, <3>10 DEF Write, AfterSave
        <4>2. script[s].told # "inactive"
          BY <1>2, <3>10 DEF Write, At, StagesOf
        <4>3. Paint \in Range(todo'[s])
          BY <4>1, ShortLists
        <4>4. LastSays(sent', s, Svc(s, script'[s].told), daemon'.svc[s] = script'[s].told)
          BY <2>1, <2>3, <2>4, <3>2, <4>1, <4>2 DEF SvcFollowed
        <4> QED BY <4>1, <4>2, <4>3, <4>4 DEF SvcFollowed
      <3> QED BY <1>9, <2>6, <3>5, <3>6, <3>7, <3>8, <3>9, <3>10 DEF Script
    <2> QED BY <2>5, <2>6
  <1>10. CASE Rc
    <2>1. CASE NoCache
      <3>1. ~daemon.alive /\ daemon'.alive = daemon.alive
        BY <1>1, <2>1, HidesIt DEF NoCache, RcAt, Types, ConsoleTypes
      <3> QED BY <3>1
    <2>2. ASSUME NEW starts \in BOOLEAN, Sysinit(starts) PROVE SvcFollowed(s)'
      <3>1. /\ rc.pc = "off" /\ UNCHANGED <<script, sent, screen>> /\ daemon'.svc = daemon.svc
        BY <1>1, <2>2 DEF Sysinit, RcAt, Daemons
      <3>2. /\ script[s].told = "inactive" /\ sent = <<>> /\ screen = Nothing
            /\ Picture(daemon) = Nothing
        BY <1>2, <3>1 DEF RcStages
      <3>3. screen.svc[s] = "inactive" /\ daemon.svc[s] = "inactive"
        <4>1. Nothing.svc[s] = "inactive" /\ Picture(daemon).svc = daemon.svc
          BY DEF Nothing, Picture
        <4> QED BY <3>2, <4>1
      <3> QED BY <3>1, <3>2, <3>3, ShortLists DEF SvcFollowed
    <2>3. CASE RcInit
      <3>1. /\ UNCHANGED <<daemon, screen, front, sent, todo, behind>> /\ rc.pc = "sysinit"
            /\ script[s].pc \in {"idle", "done"} /\ script'[s].told = script[s].told
        BY <1>1, <2>3 DEF RcInit, RcAt, Running, consoleVars
      <3>2. SvcFollowed(s)
        BY <1>5, <3>1
      <3> QED BY <1>4, <3>1, <3>2 DEF Reporting, Visible
    <2>4. ASSUME NEW stay \in BOOLEAN, SplashExit(stay) PROVE SvcFollowed(s)'
      <3>1. /\ UNCHANGED <<daemon, screen, front, sent, script, behind>> /\ rc.pc = "default"
            /\ todo'[s] = todo[s]
        BY <1>1, <2>4 DEF SplashExit, RcAt, consoleVars
      <3>2. SvcFollowed(s)
        BY <1>5, <3>1
      <3> QED BY <1>4, <3>1, <3>2 DEF Reporting, Visible
    <2>5. CASE Cleanup
      <3>1. UNCHANGED <<daemon, screen, front, sent, script, behind, todo>> /\ rc.pc = "exit"
        BY <2>5 DEF Cleanup, RcAt, consoleVars
      <3>2. SvcFollowed(s)
        BY <1>5, <3>1
      <3> QED BY <1>4, <3>1, <3>2 DEF Reporting, Visible
    <2>6. CASE DestroyCD \/ NoTmpdir \/ (\E w \in BOOLEAN : Unmount(w)) \/ Kill
      <3>1. rc'.pc = "ended" \/ ~daemon'.alive
        BY <1>1, <2>6 DEF DestroyCD, NoTmpdir, Unmount, Kill, RcGoes, RcStates, Daemons
      <3> QED BY <3>1
    <2> QED BY <1>10, <2>1, <2>2, <2>3, <2>4, <2>5, <2>6 DEF Rc
  <1>11. CASE UNCHANGED vars
    <2>1. UNCHANGED <<daemon, screen, front, sent, script, behind, todo, rc>>
      BY <1>11 DEF vars, consoleVars
    <2>2. SvcFollowed(s)
      BY <1>5, <2>1
    <2> QED BY <1>4, <2>1, <2>2 DEF Reporting, Visible
  <1>12. ASSUME NEW x \in {"come", "leave"}, Notice(x) PROVE SvcFollowed(s)'
    <2>1. /\ daemon.alive /\ daemon'.svc = daemon.svc
          /\ daemon'.ctty = "silent" => screen' = Picture(daemon)
          /\ UNCHANGED <<front, sent, script, behind, todo, rc>>
      BY <1>1, <1>12, NoticeEffects
    <2>2. SvcFollowed(s)
      BY <1>5, <2>1
    <2>3. Visible' => screen'.svc[s] = daemon'.svc[s]
      BY <2>1 DEF Visible, Picture
    <2>4. Painted(sent, s, screen.svc[s] = daemon.svc[s]) => Painted(sent, s, screen.svc[s] = daemon.svc[s])'
      BY <2>1, <2>3 DEF Painted
    <2> QED BY <2>1, <2>2, <2>3, <2>4 DEF SvcFollowed, Reporting
  <1> QED BY <1>6, <1>7, <1>8, <1>9, <1>10, <1>11, <1>12 DEF Next, Ended

\* The progress arrives, and is painted, as long as scripts save it one at a
\* time.
LEMMA BarStep ==
  ASSUME WholeInv, Followed, [Next]_vars, daemon'.alive, rc'.pc # "ended",
         ~overlapped', "bar" \notin behind'
  PROVE  BarFollowed'
  <1> USE NamesApart
  <1> DEFINE same == screen.bar = daemon.bar
             Pending == \E t \in Services : Mentioned(todo[t], "bar")
             Saving == \E t \in Services : Counting(t) /\ BarSays(loaded[t].count)
             Saved == (\A t \in Services : ~Counting(t)) /\ BarSays(file.vars.count)
             Showing == \/ \E t \in Services : Counting(t) \/ Paint \in Range(todo[t])
                        \/ Painted(sent, "bar", same)
  <1>1. /\ script \in [Services -> [pc : {"idle", "run", "leave", "prompt", "load", "save", "write", "done"},
                                    told : States, reported : BOOLEAN]]
        /\ todo \in [Processes -> Seq(Messages)] /\ sent \in Seq(Messages)
        /\ daemon \in Daemons /\ rc \in RcStates
        /\ loaded \in [Services -> Counts]
        /\ file \in [state : {"none", "empty", "full"}, vars : Counts] /\ Types
    BY DEF WholeInv, IInv, Types, ScriptTypes, MessageTypes, ConsoleTypes, CountTypes
  <1>2. (\A s \in Services : StagesOf(s)) /\ RcStages
    BY DEF WholeInv, Stages
  <1>3. BarFollowed <=> (Pending \/ Saving \/ Saved) /\ Showing
    BY DEF BarFollowed
  <1>4. BarFollowed' <=> (Pending' \/ Saving' \/ Saved') /\ Showing'
    BY DEF BarFollowed
  <1>5. ASSUME daemon.alive, rc.pc # "ended", behind \subseteq behind', overlapped => overlapped'
        PROVE  (Pending \/ Saving \/ Saved) /\ Showing
    BY <1>3, <1>5 DEF Followed
  <1>6. Painted(sent, "bar", same)' <=> PaintFollows(sent', "bar") /\ (Visible' => same' \/ Paint \in Range(sent'))
    BY DEF Painted
  <1> HIDE DEF same
  <1>7. ASSUME sent' = sent, daemon'.bar = daemon.bar, Visible' => Visible /\ screen'.bar = screen.bar
        PROVE  /\ \A n : BarSays(n) => BarSays(n)'
               /\ Painted(sent, "bar", same) => Painted(sent, "bar", same)'
    <2>1. ASSUME NEW n, BarSays(n) PROVE BarSays(n)'
      BY <1>7, <2>1 DEF BarSays
    <2>2. Painted(sent, "bar", same) => Painted(sent, "bar", same)'
      BY <1>6, <1>7 DEF Painted, same
    <2> QED BY <2>1, <2>2
  <1>8. ASSUME sent' = sent, daemon'.bar = daemon.bar, Visible' => Visible /\ screen'.bar = screen.bar,
               file'.vars = file.vars, loaded' = loaded,
               \A t \in Services : Counting(t)' <=> Counting(t),
               \A t \in Services : Mentioned(todo[t], "bar") => Mentioned(todo'[t], "bar"),
               \A t \in Services : Paint \in Range(todo[t]) => Paint \in Range(todo'[t]),
               (Pending \/ Saving \/ Saved) /\ Showing
        PROVE  BarFollowed'
    <2>1. Pending => Pending'
      BY <1>8
    <2>2. Saving => Saving'
      BY <1>7, <1>8
    <2>3. Saved => Saved'
      BY <1>7, <1>8
    <2>4. Showing => Showing'
      BY <1>7, <1>8
    <2> QED BY <1>4, <1>8, <2>1, <2>2, <2>3, <2>4
  <1>9. ASSUME NEW n \in DOMAIN sent, Deliver(n) PROVE BarFollowed'
    <2> DEFINE m == sent[n]
               r == RemoveAt(sent, n)
    <2>1. /\ m \in Messages /\ Obey(m) /\ daemon.alive /\ rc.pc # "ended"
          /\ sent' = r /\ "bar" \notin Overtaken(n) /\ behind \subseteq behind'
          /\ UNCHANGED <<conf, script, todo, loaded, file, overlapped>>
      BY <1>1, <1>9 DEF Deliver, progressVars
    <2>2. (Pending \/ Saving \/ Saved) /\ Showing
      BY <1>5, <2>1
    <2>3. /\ "bar" \notin About(m) => daemon'.bar = daemon.bar
          /\ \A k \in Nat : m = Progress(k) => daemon'.bar = k
          /\ Visible' => \/ Visible /\ screen' = screen /\ m # Paint
                         \/ screen' = Picture(daemon')
      BY <1>1, <2>1, ObeyShows
    <2>4. /\ PaintFollows(sent, "bar") => PaintFollows(r, "bar")
          /\ PaintFollows(sent, "bar") /\ "bar" \in About(m) => Paint \in Range(r)
          /\ m # Paint /\ Paint \in Range(sent) => Paint \in Range(r)
      BY <1>1, <2>1, ReadPaints
    <2> HIDE DEF r
    <2>5. ASSUME NEW k \in Nat, BarSays(k) PROVE BarSays(k)'
      <3> DEFINE now == daemon.bar = k
                 then == daemon'.bar = k
      <3>1. now \in BOOLEAN /\ then \in BOOLEAN
        OBVIOUS
      <3>2. "bar" \notin About(m) /\ now => then
        BY <2>3
      <3>3. "bar" \in About(m) /\ m = Progress(k) => then
        BY <2>3
      <3>4. LastSays(sent, "bar", Progress(k), now)
        BY <2>5 DEF BarSays
      <3> HIDE DEF now, then
      <3>5. LastSays(r, "bar", Progress(k), then)
        BY <1>1, <2>1, <3>1, <3>2, <3>3, <3>4, ReadSays DEF r
      <3> QED BY <2>1, <3>5 DEF BarSays, then
    <2>6. ASSUME Painted(sent, "bar", same) PROVE Painted(sent, "bar", same)'
      <3>1. /\ PaintFollows(sent, "bar") /\ PaintFollows(r, "bar")
            /\ Visible => same \/ Paint \in Range(sent)
        BY <2>4, <2>6 DEF Painted
      <3>2. ASSUME Visible' PROVE same' \/ Paint \in Range(r)
        <4>1. CASE screen' = Picture(daemon')
          BY <4>1 DEF Picture, same
        <4>2. CASE Visible /\ screen' = screen /\ m # Paint
          BY <2>3, <2>4, <3>1, <4>2 DEF same
        <4> QED BY <2>3, <3>2, <4>1, <4>2
      <3> QED BY <1>6, <2>1, <3>1, <3>2
    <2>7. file.vars.count \in Nat /\ \A t \in Services : loaded[t].count \in Nat
      BY <1>1 DEF Counts
    <2>8. \A t \in Services : Counting(t)' <=> Counting(t)
      BY <2>1 DEF Counting
    <2>9. (Pending => Pending') /\ (Saving => Saving') /\ (Saved => Saved')
      BY <2>1, <2>5, <2>7, <2>8
    <2>10. Showing => Showing'
      BY <2>1, <2>6, <2>8
    <2> QED BY <1>4, <2>2, <2>9, <2>10
  <1>10. ASSUME NEW n \in DOMAIN sent, Miss(n) PROVE FALSE
    BY <1>10 DEF Miss
  <1>11. ASSUME NEW p \in Processes, Say(p) PROVE BarFollowed'
    <2> DEFINE h == Head(todo[p])
    <2>0. daemon.alive /\ rc.pc # "ended" /\ behind \subseteq behind' /\ overlapped' = overlapped
      BY <1>11 DEF Say, consoleVars, progressVars
    <2>1. /\ todo[p] # <<>> /\ todo[p] \in Seq(Messages) /\ h \in Messages
          /\ h \in Range(todo[p])
          /\ sent' = Append(sent, h)
          /\ Range(sent') = Range(sent) \union {h}
          /\ todo'[p] = Tail(todo[p]) /\ \A q \in Processes \ {p} : todo'[q] = todo[q]
          /\ UNCHANGED <<rc, script, daemon, screen, front, file, loaded>>
      BY <1>1, <1>11, <2>0, SayEffects
    <2>2. (Pending \/ Saving \/ Saved) /\ Showing
      BY <1>5, <2>0
    <2>3. /\ Visible' <=> Visible
          /\ same' <=> same
          /\ \A t \in Services : Counting(t)' <=> Counting(t)
      BY <2>1 DEF Visible, Counting, same
    <2> HIDE DEF h
    <2>4. ASSUME "bar" \notin About(h)
          PROVE  /\ \A k : BarSays(k) => BarSays(k)'
                 /\ Painted(sent, "bar", same) => Painted(sent, "bar", same)'
      <3>1. ASSUME NEW k, BarSays(k) PROVE BarSays(k)'
        <4> DEFINE now == daemon.bar = k
        <4>1. now \in BOOLEAN /\ LastSays(sent, "bar", Progress(k), now)
          BY <3>1 DEF BarSays
        <4> HIDE DEF now
        <4>2. LastSays(sent', "bar", Progress(k), now)
          BY <1>1, <2>1, <2>4, <4>1, SaidLast
        <4> QED BY <2>1, <4>2 DEF BarSays, now
      <3>2. ASSUME Painted(sent, "bar", same) PROVE Painted(sent, "bar", same)'
        <4>1. PaintFollows(sent', "bar")
          BY <1>1, <2>1, <2>4, <3>2, SaidLast DEF Painted
        <4>2. Visible => same \/ Paint \in Range(sent')
          BY <2>1, <3>2 DEF Painted
        <4> QED BY <1>6, <2>3, <4>1, <4>2
      <3> QED BY <3>1, <3>2
    <2>5. ASSUME "bar" \notin About(h),
                 \A t \in Services : Mentioned(todo[t], "bar") => Mentioned(todo'[t], "bar"),
                 h = Paint \/ (\A t \in Services : Paint \in Range(todo[t]) => Paint \in Range(todo'[t]))
          PROVE  BarFollowed'
      <3>1. (Pending => Pending') /\ (Saving => Saving') /\ (Saved => Saved')
        BY <2>1, <2>3, <2>4, <2>5
      <3>2. Showing'
        <4>1. CASE h = Paint
          <5>1. PaintFollows(sent', "bar") /\ Paint \in Range(sent')
            BY <1>1, <2>1, <4>1, SaidLast, Subjects
          <5> QED BY <1>6, <5>1
        <4>2. CASE h # Paint
          BY <2>2, <2>3, <2>4, <2>5, <4>2
        <4> QED BY <4>1, <4>2
      <3> QED BY <1>4, <2>2, <3>1, <3>2
    <2>6. CASE p = "rc"
      <3>1. "bar" \notin About(h)
        BY <1>2, <2>1, <2>6 DEF RcStages
      <3>2. \A t \in Services : todo'[t] = todo[t]
        BY <2>1, <2>6
      <3> QED BY <2>5, <3>1, <3>2
    <2>7. CASE p # "rc"
      <3>1. p \in Services
        BY <2>7 DEF Processes
      <3>2. \A t \in Services \ {p} : todo'[t] = todo[t]
        BY <2>1
      <3> DEFINE t == script[p].told
      <3>3. \/ todo[p] = <<Paint>> /\ h = Paint /\ todo'[p] = <<>>
            \/ todo[p] = <<ModeSilent>> /\ h = ModeSilent /\ todo'[p] = <<>>
            \/ todo[p] = <<Svc(p, t), Paint>> /\ h = Svc(p, t) /\ todo'[p] = <<Paint>>
            \/ todo[p] = <<Svc(p, t)>> /\ h = Svc(p, t) /\ todo'[p] = <<>>
            \/ todo[p] = <<Progress(loaded[p].count)>> /\ h = Progress(loaded[p].count)
               /\ script[p].pc = "save"
        BY <1>1, <1>2, <2>1, <3>1, HeadsOf DEF h
      <3> HIDE DEF t
      <3>4. /\ "bar" \notin About(Paint) /\ "bar" \notin About(ModeSilent) /\ ModeSilent # Paint
            /\ "bar" \notin About(Svc(p, t)) /\ Svc(p, t) # Paint
        <4>1. About(Svc(p, t)) = {p} /\ p # "bar"
          BY <3>1, Subjects
        <4> QED BY <4>1, Subjects
      <3>5. ASSUME NEW q, todo[p] = <<q>>, "bar" \notin About(q) PROVE ~Mentioned(todo[p], "bar")
        BY <3>5 DEF Mentioned
      <3>6. CASE todo[p] = <<Paint>> /\ h = Paint
        BY <2>5, <3>2, <3>4, <3>5, <3>6
      <3>7. CASE todo[p] = <<ModeSilent>> /\ h = ModeSilent
        <4>1. Paint \notin Range(todo[p])
          BY <3>4, <3>7, ShortLists
        <4> QED BY <2>5, <3>2, <3>4, <3>5, <3>7, <4>1
      <3>8. CASE todo[p] = <<Svc(p, t), Paint>> /\ h = Svc(p, t) /\ todo'[p] = <<Paint>>
        <4>1. ~Mentioned(todo[p], "bar")
          BY <3>4, <3>8 DEF Mentioned
        <4>2. Paint \in Range(todo'[p])
          BY <3>8, ShortLists
        <4> QED BY <2>5, <3>2, <3>4, <3>8, <4>1, <4>2
      <3>9. CASE todo[p] = <<Svc(p, t)>> /\ h = Svc(p, t)
        <4>1. Paint \notin Range(todo[p])
          BY <3>4, <3>9, ShortLists
        <4> QED BY <2>5, <3>2, <3>4, <3>5, <3>9, <4>1
      <3>10. CASE h = Progress(loaded[p].count) /\ script[p].pc = "save"
        <4> DEFINE k == loaded[p].count
                   now == daemon.bar = k
        <4>1. "bar" \in About(Progress(k)) /\ Progress(k) = h /\ now \in BOOLEAN
          BY <3>10, Subjects
        <4> HIDE DEF now
        <4>2. LastSays(Append(sent, Progress(k)), "bar", Progress(k), now)
          BY <1>1, <2>1, <4>1, SaidLast
        <4>3. BarSays(k)'
          BY <2>1, <4>1, <4>2 DEF BarSays, now
        <4>4. Counting(p)' /\ loaded'[p].count = k
          BY <2>1, <2>3, <3>10 DEF Counting
        <4>5. Saving' /\ Showing'
          BY <2>1, <3>1, <4>3, <4>4
        <4> QED BY <1>4, <4>5
      <3> QED BY <3>3, <3>6, <3>7, <3>8, <3>9, <3>10
    <2> QED BY <2>6, <2>7
  <1>12. ASSUME NEW s \in Services, Script(s) PROVE BarFollowed'
    <2>1. /\ rc' = rc /\ behind \subseteq behind' /\ sent' = sent /\ Quiet(s)
          /\ todo' = todo \/ \E q : todo' = [todo EXCEPT ![s] = q]
          /\ \E pc, told : Goes(s, pc, told)
          /\ overlapped => overlapped'
      <3>1. overlapped => overlapped'
        <4>1. CASE Load(s)
          BY <4>1 DEF Load
        <4>2. CASE ~Load(s)
          BY <1>12, <4>2 DEF Script, SvcStart, Report, FailVerbose, InputBegin, InputLeave, InputEnd, Truncate,
                             Write, progressVars
        <4> QED BY <4>1, <4>2
      <3> QED BY <1>12, <3>1 DEF Script, SvcStart, Report, FailVerbose, InputBegin, InputLeave, InputEnd, Load,
                                 Truncate, Write, At, consoleVars
    <2>2. \/ UNCHANGED <<daemon, screen, front>>
          \/ daemon'.bar = daemon.bar /\ daemon'.alive = daemon.alive /\ ~Visible'
      <3>1. CASE FailVerbose(s)
        BY <1>1, <3>1, HidesIt DEF FailVerbose
      <3>2. CASE InputLeave(s)
        BY <1>1, <3>2, HidesIt DEF InputLeave
      <3>3. CASE ~FailVerbose(s) /\ ~InputLeave(s)
        BY <1>12, <3>3 DEF Script, SvcStart, Report, InputBegin, InputEnd, Load, Truncate, Write,
                         consoleVars
      <3> QED BY <3>1, <3>2, <3>3
    <2>3. (Pending \/ Saving \/ Saved) /\ Showing
      BY <1>5, <2>1, <2>2
    <2>4. daemon'.bar = daemon.bar /\ (Visible' => Visible /\ screen'.bar = screen.bar)
      BY <2>2 DEF Visible
    <2>5. \A t \in Services \ {s} : script'[t] = script[t] /\ todo'[t] = todo[t]
      BY <1>1, <2>1 DEF Goes
    <2>6. todo[s] = <<>> /\ ~Mentioned(todo[s], "bar") /\ Paint \notin Range(todo[s])
      BY <2>1, ShortLists DEF Quiet, Mentioned
    <2>7. /\ \A t \in Services : Mentioned(todo[t], "bar") => Mentioned(todo'[t], "bar")
          /\ \A t \in Services : Paint \in Range(todo[t]) => Paint \in Range(todo'[t])
      BY <2>5, <2>6
    <2>8. ASSUME NEW pc, NEW told, Goes(s, pc, told)
          PROVE  script'[s].pc = pc
      BY <1>1, <2>8 DEF Goes
    <2>9. CASE \/ SvcStart(s) \/ Report(s, "ok") \/ Report(s, "failed") \/ FailVerbose(s)
               \/ InputBegin(s) \/ InputLeave(s) \/ InputEnd(s)
      <3>1. file' = file /\ loaded' = loaded
        BY <2>9 DEF SvcStart, Report, FailVerbose, InputBegin, InputLeave, InputEnd, progressVars
      <3>2. script[s].pc \in {"idle", "run", "leave", "prompt"}
            /\ script'[s].pc \in {"run", "load", "done", "leave", "prompt"}
        BY <2>8, <2>9 DEF SvcStart, Report, FailVerbose, InputBegin, InputLeave, InputEnd, At
      <3>3. \A t \in Services : Counting(t)' <=> Counting(t)
        BY <2>5, <3>2 DEF Counting
      <3> QED BY <1>8, <2>1, <2>3, <2>4, <2>7, <3>1, <3>3
    <2>10. CASE Load(s) /\ Counted(s)
      <3>1. file' = file /\ loaded' = loaded /\ script'[s].pc = "done" /\ script[s].pc = "load"
        BY <2>8, <2>10 DEF Load, At
      <3>2. \A t \in Services : Counting(t)' <=> Counting(t)
        BY <2>5, <3>1 DEF Counting
      <3> QED BY <1>8, <2>1, <2>3, <2>4, <2>7, <3>1, <3>2
    <2>11. CASE Load(s) /\ ~Counted(s)
      <3>1. /\ script'[s].pc = "save" /\ todo'[s] = <<Progress(Read.count + 1)>>
        BY <1>1, <2>8, <2>11 DEF Load
      <3>2. Counting(s)' /\ Mentioned(todo'[s], "bar")
        BY <3>1, Subjects DEF Counting, Mentioned
      <3>3. Pending' /\ Showing'
        BY <3>2
      <3> QED BY <1>4, <3>3
    <2>12. CASE Truncate(s)
      <3>1. /\ loaded' = loaded /\ file'.vars = file.vars
            /\ script'[s].pc = "write" /\ script[s].pc = "save"
        BY <1>1, <2>8, <2>12 DEF Truncate, At
      <3>2. \A t \in Services : Counting(t)' <=> Counting(t)
        BY <2>5, <3>1 DEF Counting
      <3> QED BY <1>8, <2>1, <2>3, <2>4, <2>7, <3>1, <3>2
    <2>13. CASE Write(s)
      <3>1. script[s].pc = "write" /\ script'[s].pc = "done" /\ todo'[s] = <<Paint>>
        BY <1>1, <2>8, <2>13 DEF Write, At, AfterSave
      <3>2. mounted /\ ~overlapped /\ CountedOnce
        BY <2>1, <2>2 DEF WholeInv, Leaving
      <3>3. \A t \in Services : Counting(t) => t = s
        BY <3>1, <3>2 DEF CountedOnce, Counting
      <3> DEFINE c == file.vars
      <3>4. /\ s \notin c.execed
            /\ loaded[s] = [count |-> c.count + 1, execed |-> c.execed \union {s}]
            /\ c \in Counts
        BY <1>1, <3>1, <3>2 DEF CountedOnce, Counting
      <3>5. IsFiniteSet(c.execed) /\ Cardinality(c.execed) \in Nat
        BY <3>4, ScriptsAssumption, FS_Subset, FS_CardinalityType DEF Counts
      <3>6. Cardinality(loaded[s].execed) = Cardinality(c.execed) + 1
        <4>1. loaded[s].execed = c.execed \union {s}
          BY <3>4
        <4>2. Cardinality(c.execed \union {s}) = Cardinality(c.execed) + 1
          BY <3>4, <3>5, FS_AddElement
        <4> QED BY <4>1, <4>2
      <3>7. CountsLeft(s) = {loaded[s].count}
        BY <3>5, <3>6 DEF CountsLeft
      <3>8. file'.vars = [loaded[s] EXCEPT !.count = loaded[s].count]
        BY <2>13, <3>2, <3>7 DEF Write
      <3>9. file'.vars.count = loaded[s].count
        BY <3>4, <3>8
      <3>10. ~Pending
        <4> SUFFICES ASSUME NEW t \in Services, Mentioned(todo[t], "bar") PROVE FALSE
          OBVIOUS
        <4>1. t # s /\ ~Counting(t)
          BY <2>6, <3>3
        <4>2. TodoOf(t)
          BY <1>2 DEF StagesOf
        <4>3. /\ ~Mentioned(<<>>, "bar") /\ ~Mentioned(<<Paint>>, "bar")
              /\ ~Mentioned(<<ModeSilent>>, "bar")
          BY Subjects DEF Mentioned
        <4>4. \A st : About(Svc(t, st)) = {t}
          BY Subjects
        <4>5. /\ \A st : ~Mentioned(<<Svc(t, st)>>, "bar")
              /\ ~Mentioned(<<Svc(t, "busy"), Paint>>, "bar")
          BY <4>4, Subjects DEF Mentioned
        <4>6. script[t].pc # "save"
          BY <4>1 DEF Counting
        <4> QED BY <4>2, <4>3, <4>5, <4>6, Zenon DEF TodoOf
      <3>11. ~Saved
        BY <3>1 DEF Counting
      <3>12. BarSays(loaded[s].count)
        BY <2>3, <3>3, <3>10, <3>11
      <3>13. \A t \in Services : ~Counting(t)'
        BY <2>5, <3>1, <3>3 DEF Counting
      <3>14. Saved'
        BY <1>7, <2>1, <2>4, <3>9, <3>12, <3>13
      <3>15. Paint \in Range(todo'[s])
        BY <3>1, ShortLists
      <3> QED BY <1>4, <3>14, <3>15
    <2> QED BY <1>12, <2>9, <2>10, <2>11, <2>12, <2>13 DEF Script
  <1>13. CASE Rc
    <2>1. CASE NoCache
      <3>1. ~daemon.alive /\ daemon'.alive = daemon.alive
        BY <1>1, <2>1, HidesIt DEF NoCache, RcAt, Types, ConsoleTypes
      <3> QED BY <3>1
    <2>2. ASSUME NEW starts \in BOOLEAN, Sysinit(starts) PROVE BarFollowed'
      <3>1. /\ rc.pc = "off" /\ UNCHANGED <<script, sent, screen>> /\ daemon'.bar = daemon.bar
            /\ file'.vars.count = 0
        BY <1>1, <2>2 DEF Sysinit, RcAt, Daemons, Zero
      <3>2. /\ \A t \in Services : script[t].pc = "idle"
            /\ sent = <<>> /\ screen = Nothing /\ Picture(daemon) = Nothing
        BY <1>2, <3>1 DEF RcStages, StagesOf
      <3>3. screen.bar = 0 /\ daemon.bar = 0
        <4>1. Nothing.bar = 0 /\ Picture(daemon).bar = daemon.bar
          BY DEF Nothing, Picture
        <4> QED BY <3>2, <4>1
      <3>4. Saved'
        <4>1. \A t \in Services : ~Counting(t)'
          BY <3>1, <3>2 DEF Counting
        <4>2. BarSays(file.vars.count)'
          BY <3>1, <3>2, <3>3 DEF BarSays, LastSays
        <4> QED BY <4>1, <4>2
      <3>5. Painted(sent, "bar", same)'
        BY <1>6, <3>1, <3>2, <3>3 DEF PaintFollows, same
      <3> QED BY <1>4, <3>4, <3>5
    <2>3. CASE RcInit
      <3>1. /\ UNCHANGED <<daemon, screen, front, sent, todo, behind, file, loaded, overlapped>>
            /\ rc.pc = "sysinit"
            /\ \A t \in Services : script[t].pc \in {"idle", "done"} /\ script'[t].pc \in {"idle", "done"}
        BY <1>1, <2>3 DEF RcInit, RcAt, Running, consoleVars
      <3>2. (Pending \/ Saving \/ Saved) /\ Showing
        BY <1>5, <3>1
      <3> QED BY <1>8, <3>1, <3>2 DEF Counting, Visible
    <2>4. ASSUME NEW stay \in BOOLEAN, SplashExit(stay) PROVE BarFollowed'
      <3>1. /\ UNCHANGED <<daemon, screen, front, sent, script, behind, file, loaded, overlapped>>
            /\ rc.pc = "default" /\ \A t \in Services : todo'[t] = todo[t]
        BY <1>1, <2>4 DEF SplashExit, RcAt, consoleVars, progressVars
      <3>2. (Pending \/ Saving \/ Saved) /\ Showing
        BY <1>5, <3>1
      <3> QED BY <1>8, <3>1, <3>2 DEF Counting, Visible
    <2>5. CASE Cleanup
      <3>1. /\ UNCHANGED <<daemon, screen, front, sent, script, behind, todo, file, loaded, overlapped>>
            /\ rc.pc = "exit"
        BY <2>5 DEF Cleanup, RcAt, consoleVars, progressVars
      <3>2. (Pending \/ Saving \/ Saved) /\ Showing
        BY <1>5, <3>1
      <3> QED BY <1>8, <3>1, <3>2 DEF Counting, Visible
    <2>6. CASE DestroyCD \/ NoTmpdir \/ (\E w \in BOOLEAN : Unmount(w)) \/ Kill
      <3>1. rc'.pc = "ended" \/ ~daemon'.alive
        BY <1>1, <2>6 DEF DestroyCD, NoTmpdir, Unmount, Kill, RcGoes, RcStates, Daemons
      <3> QED BY <3>1
    <2> QED BY <1>13, <2>1, <2>2, <2>3, <2>4, <2>5, <2>6 DEF Rc
  <1>14. CASE UNCHANGED vars
    <2>1. UNCHANGED <<daemon, screen, front, sent, script, behind, todo, rc, file, loaded, overlapped>>
      BY <1>14 DEF vars, consoleVars, progressVars
    <2>2. (Pending \/ Saving \/ Saved) /\ Showing
      BY <1>5, <2>1
    <2> QED BY <1>8, <2>1, <2>2 DEF Counting, Visible
  <1>15. ASSUME NEW x \in {"come", "leave"}, Notice(x) PROVE BarFollowed'
    <2>1. /\ daemon.alive /\ daemon'.bar = daemon.bar
          /\ daemon'.ctty = "silent" => screen' = Picture(daemon)
          /\ UNCHANGED <<front, sent, script, behind, todo, rc, file, loaded, overlapped>>
      BY <1>1, <1>15, NoticeEffects DEF progressVars
    <2>2. (Pending \/ Saving \/ Saved) /\ Showing
      BY <1>5, <2>1
    <2>3. Visible' => same'
      BY <2>1 DEF Visible, Picture, same
    <2>4. Painted(sent, "bar", same) => Painted(sent, "bar", same)'
      BY <1>6, <2>1, <2>3 DEF Painted
    <2>5. /\ \A n : BarSays(n)' <=> BarSays(n)
          /\ \A t \in Services : Counting(t)' <=> Counting(t)
      BY <2>1 DEF BarSays, Counting
    <2> QED BY <1>4, <2>1, <2>2, <2>4, <2>5
  <1> QED BY <1>9, <1>10, <1>11, <1>12, <1>13, <1>14, <1>15 DEF Next, Ended

\* What is told and painted follows the scripts.
LEMMA FollowedStep == WholeInv /\ Followed /\ [Next]_vars => Followed'
  <1> SUFFICES ASSUME WholeInv, Followed, [Next]_vars, daemon'.alive, rc'.pc # "ended"
               PROVE  /\ \A s \in Services \ behind' : SvcFollowed(s)'
                      /\ ~overlapped' /\ "bar" \notin behind' => BarFollowed'
    BY DEF Followed
  <1>1. Types /\ Stages
    BY DEF WholeInv, IInv
  <1>2. ASSUME NEW s \in Services \ behind' PROVE SvcFollowed(s)'
    BY <1>1, SvcStep
  <1>3. ASSUME ~overlapped', "bar" \notin behind' PROVE BarFollowed'
    BY <1>3, BarStep
  <1> QED BY <1>2, <1>3

-----------------------------------------------------------------------------
(* Theorems                                                                *)

\* The inductive invariant: the types; for every open prompt, that no switch to
\* the silent tty is to come, be it sent already or by a script that is about to
\* own one; and that only services that reported are counted and listed.
THEOREM ScriptsInvariance == Spec => []IInv
  <1>1. IInv /\ [Next]_vars => IInv'
    BY TypesStep, PromptStep, ReportsStep, ListedStep DEF IInv
  <1> QED BY InitIInv, <1>1, PTL DEF Spec

\* A prompt stays visible until it is answered, for any number of scripts
\* that prompt, fail and report meanwhile, but for the cases named in excused.
THEOREM PromptTheorem == Spec => []PromptVisible
  <1>1. IInv => PromptVisible
    BY DEF IInv, PromptsUndisturbed, Undisturbed, PromptVisible
  <1> QED BY ScriptsInvariance, <1>1, PTL

\* No more progress is sent than services have reported, for any number of
\* scripts, however they read and write the progress file at the same time.
THEOREM ProgressTheorem == Spec => []NeverAhead
  <1>1. IInv => NeverAhead
    <2> SUFFICES ASSUME IInv, ~garbled, NEW m \in Range(sent), m[1] = "progress"
                 PROVE  m[2] <= Cardinality(Reporters)
      BY DEF NeverAhead, Reporters
    <2>1. m \in Messages
      BY DEF IInv, Types, MessageTypes, Range
    <2>2. PICK n \in Nat : m = Progress(n)
      <3>1. /\ \A s \in Services, st \in States : Svc(s, st)[1] = "update_svc"
            /\ \A stay \in BOOLEAN : Exit(stay)[1] = "exit"
        BY DEF Svc, Exit
      <3>2. /\ Paint[1] = "paint" /\ Repaint[1] = "repaint"
            /\ ModeSilent[1] = "set mode silent" /\ SetTty[1] = "set tty silent"
        BY DEF Paint, Repaint, ModeSilent, SetTty
      <3>3. CASE \E s \in Services, st \in States : m = Svc(s, st)
        BY <3>1, <3>3
      <3>4. CASE m \in {Paint, Repaint, ModeSilent, SetTty}
        BY <3>2, <3>4
      <3>5. CASE \E stay \in BOOLEAN : m = Exit(stay)
        BY <3>1, <3>5
      <3>6. CASE \E n \in Nat : m = Progress(n)
        BY <3>6
      <3> QED BY <2>1, <3>3, <3>4, <3>5, <3>6 DEF Messages
    <2>3. m[2] = n
      BY <2>2 DEF Progress
    <2> QED BY <2>2, <2>3 DEF IInv, ReportsCounted, ProgressOfReports
  <1> QED BY ScriptsInvariance, <1>1, PTL

\* The inductive invariant of a whole boot: IInv; each process is about to send
\* what belongs to the place it is at; an exit on its way is the one rc asked
\* for; rc kills and unmounts in that order; and the file is being written only
\* by the script that read it, unless scripts overlapped.
THEOREM BootInvariance == Spec => []WholeInv
  <1>1. WholeInv /\ [Next]_vars => WholeInv'
    <2> SUFFICES ASSUME WholeInv, [Next]_vars PROVE WholeInv'
      OBVIOUS
    <2>1. IInv'
      BY TypesStep, PromptStep, ReportsStep, ListedStep DEF IInv, WholeInv
    <2>2. Stages'
      BY StagesStep DEF IInv, WholeInv
    <2>3. ExitAsRc' /\ Leaving' /\ CountedOnce'
      BY <2>2, ExitStep, LeavingStep, CountedStep DEF IInv, WholeInv
    <2> QED BY <2>1, <2>2, <2>3 DEF WholeInv
  <1> QED BY InitWhole, <1>1, PTL DEF Spec

\* However many messages are lost or read late, once the boot has ended
\* fbsplashd is gone, the cache unmounted and the verbose tty in front, but for
\* the cases that LeftVisible names.
THEOREM LeftTheorem == Spec => []LeftVisible
  <1>1. WholeInv => LeftVisible
    BY DEF WholeInv, Leaving, LeftVisible
  <1> QED BY BootInvariance, <1>1, PTL

\* For any number of scripts that update the progress one at a time, each that
\* reported an outcome is counted once; and no other is ever listed, even where
\* they overlap.
THEOREM CountsTheorem == Spec => []CountsEachOnce
  <1>1. WholeInv => CountsEachOnce
    <2>1. ASSUME WholeInv, ~overlapped, mounted, Running = {}
          PROVE  /\ file.vars.count = Cardinality(file.vars.execed)
                 /\ \A s \in Services : script[s].told \in {"ok", "failed"} => s \in file.vars.execed
      <3>1. \A s \in Services : ~Reporting(s)
        BY <2>1 DEF Running, Reporting
      <3> QED BY <2>1, <3>1 DEF WholeInv, CountedOnce
    <2>2. ASSUME WholeInv PROVE \A s \in file.vars.execed : script[s].reported
      BY <2>2 DEF WholeInv, IInv, OnlyReporters, Reporters
    <2> QED BY <2>1, <2>2 DEF CountsEachOnce
  <1> QED BY BootInvariance, <1>1, PTL

\* For any number of scripts, and of messages read in whatever order, the silent
\* screen shows what each script told last, and the progress saved last, once
\* all is quiet; unless its messages were overtaken.
THEOREM UpToDateTheorem == Spec => []ScreenUpToDate
  <1>1. Init => Followed
    <2> SUFFICES ASSUME Init PROVE ~daemon.alive
      BY DEF Followed
    <2>1. rc = [pc |-> "off", left |-> "", stay |-> FALSE]
      BY Zenon DEF Init
    <2> QED BY <2>1, InitIInv DEF IInv, Types, ConsoleTypes
  <1>2. WholeInv /\ WholeInv' /\ Followed /\ [Next]_vars => Followed'
    BY FollowedStep
  <1>3. Spec => []Followed
    BY BootInvariance, <1>1, <1>2, PTL DEF Spec
  <1>4. WholeInv /\ Followed => ScreenUpToDate
    <2> SUFFICES ASSUME WholeInv, Followed, Still, daemon.alive, daemon.ctty = "silent",
                        front # Verbose
                 PROVE  /\ \A s \in Services \ behind : screen.svc[s] = script[s].told
                        /\ ~overlapped /\ "bar" \notin behind => screen.bar = file.vars.count
      BY DEF ScreenUpToDate
    <2>1. sent = <<>> /\ Visible /\ rc.pc # "ended" /\ Paint \notin Range(sent)
      BY ShortLists DEF Still, Visible
    <2>2. \A s \in Services : todo[s] = <<>> /\ ~Reporting(s) /\ ~Counting(s)
      BY DEF Still, Running, Quiet, Reporting, Counting
    <2>3. Range(<<>>) = {} /\ \A x : ~Mentioned(<<>>, x)
      BY ShortLists DEF Mentioned
    <2>4. ASSUME NEW s \in Services \ behind PROVE screen.svc[s] = script[s].told
      <3>1. SvcFollowed(s)
        BY <2>1, <2>4 DEF Followed
      <3>2. CASE script[s].told = "inactive"
        BY <2>1, <3>1, <3>2 DEF SvcFollowed
      <3>3. CASE script[s].told # "inactive"
        <4>1. LastSays(sent, s, Svc(s, script[s].told), daemon.svc[s] = script[s].told)
          BY <2>2, <2>3, <3>1, <3>3 DEF SvcFollowed
        <4>2. Painted(sent, s, screen.svc[s] = daemon.svc[s])
          BY <2>2, <2>3, <3>1, <3>3 DEF SvcFollowed
        <4>3. daemon.svc[s] = script[s].told
          BY <2>1, <2>3, <4>1 DEF LastSays
        <4>4. screen.svc[s] = daemon.svc[s]
          BY <2>1, <4>2 DEF Painted
        <4> QED BY <4>3, <4>4
      <3> QED BY <3>2, <3>3
    <2>5. ASSUME ~overlapped, "bar" \notin behind PROVE screen.bar = file.vars.count
      <3>1. BarFollowed
        BY <2>1, <2>5 DEF Followed
      <3>2. BarSays(file.vars.count) /\ Painted(sent, "bar", screen.bar = daemon.bar)
        BY <2>2, <2>3, <3>1 DEF BarFollowed
      <3>3. daemon.bar = file.vars.count
        BY <2>1, <2>3, <3>2 DEF BarSays, LastSays
      <3>4. screen.bar = daemon.bar
        BY <2>1, <3>2 DEF Painted
      <3> QED BY <3>3, <3>4
    <2> QED BY <2>4, <2>5
  <1> QED BY BootInvariance, <1>3, <1>4, PTL
================================================================================
