------------------------------- MODULE Animation -------------------------------
(***************************************************************************)
(* The animations of a theme: the thread that sleeps until the next frame  *)
(* is due (thf_anim), the frames it has libmng draw on each animation's    *)
(* canvas (mng_render.c), and the commands that show, hide, paint and      *)
(* reload animations while it sleeps.                                      *)
(*                                                                         *)
(* Time passes in steps while the thread sleeps and stands still while     *)
(* anybody works.  libmng is external: a file is a number of frames, each  *)
(* with a timer but the last, after which mng_display reports the end.     *)
(* Fading and overlapping are the subject of other modules.                *)
(***************************************************************************)
EXTENDS Integers, FiniteSetsExt

CONSTANTS
  Kind,         \* [animation -> "once", "loop" or "proportional"]
  OfService,    \* the animations shown in some state of a service
  Frames,       \* [animation -> number of frames, 0 without a frame counter]
  FrameDelay,   \* [animation -> time a frame is to be seen]
  MaxProgress,  \* FBSPL_PROGRESS_MAX
  MaxDelay,     \* the 10 s after which a round begins in any case
  MaxRequests   \* bound: commands

Anims == DOMAIN Kind
Timed == {a \in Anims : Kind[a] # "proportional"}

ASSUME AnimationAssumption ==
  /\ IsFiniteSet(Anims) /\ OfService \subseteq Anims
  /\ Kind \in [Anims -> {"once", "loop", "proportional"}]
  /\ Frames \in [Anims -> Nat] /\ \A a \in Timed : Frames[a] > 1
  /\ FrameDelay \in [Anims -> 1..MaxDelay]
  /\ {MaxProgress, MaxDelay} \subseteq Nat \ {0} /\ MaxRequests \in Nat

VARIABLES
  pc,         \* thf_anim: "top" of a round, mtx_paint "unlocked", in the "wait"
  delay,      \* for which it waits
  elapsed,    \* since it began to
  signalled,  \* cnd_anim was signalled meanwhile
  anim,       \* [visible, invalid, displayed_first, frame on the canvas,
              \*  wait_msecs, curr_progress]
  screen,     \* the frame of each animation that is on the screen
  blit,       \* theme->blit: the animations whose area waits to be painted
  silent,     \* ctty = CTTY_SILENT
  on,         \* the services are in the states that show their animations
  progress,
  requests,   \* so far
  \* What the properties compare with:
  age,        \* time since the canvas was drawn
  unheard,    \* animations shown, or loaded, without a signal to the thread
  hurried,    \* animations loaded when the thread had slept for a while
  frozen,     \* animations whose time a round did not count
  undrawn     \* animations hidden before they were drawn, and not drawn since

threadVars  == <<pc, delay, elapsed, signalled>>
screenVars  == <<screen, blit, undrawn>>
historyVars == <<unheard, hurried, frozen>>
vars == <<threadVars, anim, screenVars, silent, on, progress, requests, age, historyVars>>

None == <<>>             \* nothing of an animation on the screen
Shown(r) == <<r.frame>>  \* frame 0 is a canvas that was never drawn

-----------------------------------------------------------------------------
(* libmng and mng_render.c                                                 *)

F_ANIM_ONCE == 0

\* a->flags & F_ANIM_ONCE
IsOnce(a) == Kind[a] = "once" /\ F_ANIM_ONCE # 0

StaysAtEndFault(a) == TRUE  \* Fault: no animation is begun again.
StaysAtEnd(a) == IsOnce(a)

\* anim_render_canvas: the next frame, and its timer; at the end the file is
\* begun again.
Draw(a, r) ==
  LET next == IF r.displayed_first THEN r.frame + 1 ELSE 1
      end  == next = Frames[a]
  IN  [r EXCEPT !.frame = next, !.wait = IF end THEN 0 ELSE FrameDelay[a],
                !.displayed_first = ~end \/ StaysAtEnd(a), !.invalid = TRUE]

\* mng_render_proportional
FrameOf(a, p) ==
  IF Frames[a] = 0 THEN 1 ELSE Min({Frames[a], ((p * Frames[a]) \div MaxProgress) + 1})

\* anim_prerender of an invalid animation, and the removal of the mark.
Prerender(a, r, force) ==
  IF a \in Timed \/ ~r.visible \/ (r.curr = progress /\ ~force) THEN [r EXCEPT !.invalid = FALSE]
  ELSE [r EXCEPT !.invalid = FALSE, !.curr = progress, !.frame = FrameOf(a, progress),
                 !.displayed_first = TRUE]

\* Whether anim_prerender puts the area of an animation on the list.
Touched(r, a, force) == r.visible /\ (force \/ (r.invalid /\ (a \in Timed \/ r.curr # progress)))

\* fbsplashr_render_screen.  The areas on the list are painted whoever put them
\* there: what is hidden leaves the screen, what is visible shows its canvas
\* even if it was not prerendered.  paint_img empties the list, put_img keeps it.
Render(A, force) ==
  LET areas == blit \union {a \in Anims : Touched(A[a], a, force)}
  IN  /\ anim' = [a \in Anims |-> IF force \/ A[a].invalid THEN Prerender(a, A[a], force) ELSE A[a]]
      /\ screen' = [a \in Anims |->
           IF ~force /\ a \notin areas THEN screen[a]
           ELSE IF A[a].visible THEN Shown(anim'[a]) ELSE None]
      /\ blit' = IF force THEN areas ELSE {}
      /\ undrawn' = {a \in undrawn : ~anim'[a].displayed_first}

RenderIfSilent(A) == IF silent THEN Render(A, TRUE) ELSE anim' = A /\ UNCHANGED screenVars

-----------------------------------------------------------------------------
(* Themes                                                                  *)

NewAnim(a) == [visible |-> a \notin OfService, invalid |-> TRUE, displayed_first |-> FALSE,
               frame |-> 0, wait |-> 0, curr |-> 0]

\* fbsplashr_theme_load draws the first frames of what is visible then.
Loaded == [a \in Anims |-> IF a \in Timed \ OfService THEN Draw(a, NewAnim(a)) ELSE NewAnim(a)]

Init ==
  /\ pc = "top" /\ delay = MaxDelay /\ elapsed = 0 /\ signalled = FALSE
  /\ anim = Loaded /\ screen = [a \in Anims |-> None] /\ blit = {} /\ undrawn = {}
  /\ silent \in BOOLEAN /\ on = {} /\ progress = 0 /\ requests = 0
  /\ age = [a \in Anims |-> 0] /\ unheard = {} /\ hurried = {} /\ frozen = {}

-----------------------------------------------------------------------------
(* thf_anim                                                                *)

Playing(a, A) == a \in Timed /\ A[a].visible

SleepFault(A) ==  \* Fault: the longest time an animation may wait.
  LET waits == {A[a].wait : a \in {b \in Anims : Playing(b, A) /\ A[b].wait > 0}}
  IN  IF waits = {} THEN MaxDelay ELSE Max(waits)

\* The shortest delay.
Sleep(A) == Min({MaxDelay} \union {A[a].wait : a \in {b \in Anims : Playing(b, A) /\ A[b].wait > 0}})

\* What the canvases that were drawn in a step do to the history.
Drawn(D) ==
  /\ age' = [a \in Anims |-> IF a \in D THEN 0 ELSE age[a]]
  /\ hurried' = hurried \ D

\* The beginning of a round: new animations are drawn, and shown at once.
Round ==
  LET new == {a \in Anims : Playing(a, anim) /\ ~anim[a].displayed_first}
      A == [a \in Anims |-> IF a \in new THEN Draw(a, anim[a]) ELSE anim[a]]
  IN  /\ pc = "top" /\ pc' = "unlocked"
      /\ IF new = {} THEN UNCHANGED <<anim, screenVars>> ELSE RenderIfSilent(A)
      /\ Drawn(new) /\ frozen' = frozen \ new
      /\ delay' = Sleep(A) /\ unheard' = {}
      /\ UNCHANGED <<elapsed, signalled, silent, on, progress, requests>>

\* pthread_cond_timedwait under mtx_anim: signals sent before are not heard.
Wait ==
  /\ pc = "unlocked" /\ pc' = "wait"
  /\ elapsed' = 0 /\ signalled' = FALSE
  /\ UNCHANGED <<delay, anim, screenVars, silent, on, progress, requests, age, historyVars>>

\* Time passes, while there is nothing to do for the thread.
Tick ==
  /\ pc = "wait" /\ elapsed < delay /\ ~signalled
  /\ elapsed' = elapsed + 1
  /\ age' = [a \in Anims |-> Min({age[a] + 1, MaxDelay + 1})]
  /\ UNCHANGED <<pc, delay, signalled, anim, screenVars, silent, on, progress, requests,
                 historyVars>>

RdelayFault == delay  \* Fault: it is not seen that a signal came first.

\* What the thread has waited.
Rdelay == elapsed

\* The thread is woken: frames that are due are drawn; nothing in the verbose
\* mode.
Wake ==
  LET counted == IF silent THEN {a \in Anims : Playing(a, anim) /\ anim[a].wait > 0} ELSE {}
      due == {a \in counted : anim[a].wait <= Rdelay}
      A == [a \in Anims |-> IF a \in due THEN Draw(a, anim[a])
                            ELSE IF a \in counted THEN [anim[a] EXCEPT !.wait = @ - Rdelay]
                            ELSE anim[a]]
  IN  /\ pc = "wait" /\ (signalled \/ elapsed = delay)
      /\ pc' = "top" /\ delay' = MaxDelay /\ signalled' = FALSE /\ elapsed' = 0
      /\ RenderIfSilent(A)
      /\ Drawn(due)
      /\ frozen' = (frozen \ due) \union
                     (IF elapsed > 0 THEN {a \in Timed \ counted : anim[a].wait > 0} ELSE {})
      /\ UNCHANGED <<silent, on, progress, requests, unheard>>

-----------------------------------------------------------------------------
(* Commands, under mtx_paint                                               *)

Request == requests < MaxRequests /\ requests' = requests + 1

\* cmd_update_svc: the services reach or leave the states that show these
\* animations.  The area of what is hidden is put on the list.
UpdateSvc(S) ==
  LET shown == S \ on
      hidden == S \intersect on
  IN  /\ Request
      /\ on' = (on \ S) \union shown
      /\ anim' = [a \in Anims |-> IF a \in S THEN [anim[a] EXCEPT !.visible = a \in on',
                                                                  !.invalid = TRUE]
                                  ELSE anim[a]]
      /\ signalled' = (pc = "wait")
      /\ unheard' = IF pc = "unlocked" THEN unheard \union shown ELSE unheard
      /\ blit' = blit \union hidden
      /\ undrawn' = undrawn \union {a \in hidden \ Timed : ~anim[a].displayed_first}
      /\ UNCHANGED <<pc, delay, elapsed, screen, silent, progress, age, hurried, frozen>>

\* cmd_set_theme: reload_theme, of the same theme.
SetTheme ==
  /\ Request
  /\ anim' = [a \in Anims |-> [Loaded[a] EXCEPT !.visible = @ \/ a \in on]]
  /\ age' = [a \in Anims |-> 0]
  /\ unheard' = IF pc = "top" THEN unheard ELSE {a \in Anims : anim'[a].visible}
  /\ hurried' = IF pc = "wait" /\ elapsed > 0 THEN Timed \ OfService ELSE {}
  /\ frozen' = {} /\ blit' = {}
  /\ UNCHANGED <<threadVars, screen, undrawn, silent, on, progress>>

\* cmd_progress
Progress(p) ==
  /\ Request /\ p # progress /\ progress' = p
  /\ anim' = [a \in Anims |-> IF a \in Timed THEN anim[a] ELSE [anim[a] EXCEPT !.invalid = TRUE]]
  /\ UNCHANGED <<threadVars, screenVars, silent, on, age, historyVars>>

\* cmd_paint and cmd_repaint
Paint(force) ==
  /\ Request /\ silent
  /\ Render(anim, force)
  /\ UNCHANGED <<threadVars, silent, on, progress, age, historyVars>>

\* The silent tty comes to the front and is repainted, or leaves.
SwitchSilent ==
  /\ Request /\ ~silent /\ silent' = TRUE
  /\ Render(anim, TRUE)
  /\ UNCHANGED <<threadVars, on, progress, age, historyVars>>
SwitchVerbose ==
  /\ Request /\ silent /\ silent' = FALSE
  /\ UNCHANGED <<threadVars, anim, screenVars, on, progress, age, historyVars>>

-----------------------------------------------------------------------------
Thread == Round \/ Wait \/ Tick \/ Wake

Next ==
  \/ Thread
  \/ \E S \in (SUBSET OfService) \ {{}} : UpdateSvc(S)
  \/ SetTheme
  \/ \E p \in 0..MaxProgress : Progress(p)
  \/ \E force \in BOOLEAN : Paint(force)
  \/ SwitchSilent \/ SwitchVerbose

\* Time passes, and the thread is scheduled.
Fairness == WF_vars(Thread)

Spec == Init /\ [][Next]_vars /\ Fairness

-----------------------------------------------------------------------------
(* Properties                                                              *)

Next1(a, f) == IF f = Frames[a] THEN 1 ELSE f + 1

\* A frame is replaced by the one that follows it, and not before its time;
\* except the first frame after 'set theme', from which the thread takes the
\* time it had slept before.
NotTooEarly ==
  [][\A a \in Timed :
       anim'[a].frame # anim[a].frame =>
         \/ requests' # requests   \* 'set theme'
         \/ /\ anim'[a].frame = Next1(a, anim[a].frame)
            /\ \/ anim[a].frame \in {0, Frames[a]}
               \/ age[a] >= FrameDelay[a] \/ a \in hurried]_vars

\* While the thread waits and the silent screen shows an animation, what is
\* seen is current: not a canvas that was never drawn, a frame no longer than
\* its time, however often the thread was woken, and of a proportional
\* animation that is not marked the frame for the progress.  Except if the
\* thread was not told of the animation, or passed it over in a round; and a
\* proportional one hidden before it was drawn: shown again with the progress
\* it had, it is not drawn, but its area is on the list, and an empty canvas is
\* painted.  If the list was emptied meanwhile, nothing is painted (None); and
\* one not drawn since its theme was loaded leaves what was on the screen.
ShownIsCurrent ==
  \A a \in Anims \ (unheard \union frozen) :
    pc = "wait" /\ ~signalled /\ silent /\ anim[a].visible =>
      /\ a \notin undrawn => screen[a] # <<0>>
      /\ a \in Timed /\ anim[a].wait > 0 => age[a] <= FrameDelay[a]
      /\ a \notin Timed /\ ~anim[a].invalid /\ anim[a].displayed_first =>
           screen[a] \in {None, <<IF Frames[a] = 0 THEN 1
                                   ELSE Cardinality({k \in 1..Frames[a] :
                                     k = 1 \/ (k - 1) * MaxProgress <= progress * Frames[a]})>>}

\* While the silent screen shows an animation that is looped, it goes on: every
\* frame comes to the screen again and again.
AnimationsGoOn ==
  \A a \in {b \in Anims : Kind[b] = "loop"} :
    <>[](silent /\ anim[a].visible) =>
      \A f \in {f \in 1..Max({Frames[b] : b \in Anims}) : f <= Frames[a]} : []<>(screen[a] = <<f>>)
=============================================================================
