----------------------------- MODULE MCBootScripts -----------------------------
(* Two scripts that may run side by side, and two messages on their way:     *)
(* enough for one to overtake the other.                                     *)
EXTENDS BootScripts, TLC

CONSTANTS a, b

MCServices == {a, b}
ServiceSymmetry == Permutations(MCServices)

\* The defaults, and a silent tty of one's own with a switch to verbose when
\* a service fails.
MCSettings == {[tty |-> "tty16", verboseOnErrors |-> FALSE],
               [tty |-> "tty8",  verboseOnErrors |-> TRUE]}

\* What no property looks at any more, and nothing else in the model reads: how
\* a service, or the bar, is shown whose messages were overtaken; the bar after
\* scripts updated the progress at the same time; and the whole picture once rc
\* asked for the exit, after which fbsplashd has a message unread to its end.
Unseen == IF rc.pc \in {"exit", "kill", "unmount", "ended"} THEN Services \union {"bar"}
          ELSE behind \union (IF overlapped THEN {"bar"} ELSE {})
Seen(p) == <<[s \in Services \ Unseen |-> p.svc[s]], IF "bar" \in Unseen THEN 0 ELSE p.bar>>
View == <<rc, script, todo, sent, front, daemon.alive, daemon.tty, daemon.ctty, daemon.sig,
          daemon.missed, Seen(daemon), Seen(screen), Unseen, conf, progressVars,
          promptVars, killed>>
===============================================================================
