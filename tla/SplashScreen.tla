----------------------------- MODULE SplashScreen -----------------------------
(***************************************************************************)
(* What the splash screen shows: the objects of a theme, their blend-in    *)
(* and blend-out effects, and the two ways the screen is brought up to     *)
(* date (core/src/render.c, effects.c, ttf.c, the animation thread in      *)
(* daemon.c and the painting commands in daemon_cmd.c).                    *)
(*                                                                         *)
(* A repaint draws everything; a paint draws the objects marked invalid    *)
(* and the regions on the re-blit list.  The animation thread advances the *)
(* effects and repaints.  Objects do not overlap here, so that a region is *)
(* an object and its rendering goes from the buffer to the screen in one   *)
(* step; regions and the buffer are Painting's.  Each action runs under    *)
(* mtx_paint, or, where the code takes no mutex, is what DaemonThreads     *)
(* calls an unguarded access; the races are left to that module.           *)
(***************************************************************************)
EXTENDS Integers, Sequences, FiniteSets, SequencesExt

CONSTANTS Objs,        \* the objects of the theme
          Kind,        \* what they are, see Kinds
          SvcState,    \* for icons: the service state that shows them
          Textbox,     \* the objects inside <textbox>
          Blendin, Blendout, \* their effects in ms, 0 for none
          States,      \* the states reported by update_svc
          Values,      \* the values progress, message and log may take
          MaxRequests, \* bound: requests of clients and users
          FreedReads   \* outcomes of reading a freed list item: is it fatal?

Kinds == {"box", "icon", "bar", "message", "log"}

ASSUME ScreenAssumption ==
  /\ Kind \in [Objs -> Kinds]
  /\ IsFiniteSet(Objs) /\ Textbox \subseteq Objs
  /\ Blendin \in [Objs -> Nat] /\ Blendout \in [Objs -> Nat]
  /\ \A o \in Objs : Blendin[o] < 2^16 /\ Blendout[o] < 2^16
  /\ DOMAIN SvcState = {o \in Objs : Kind[o] = "icon"}
  /\ \A o \in DOMAIN SvcState : SvcState[o] # "none"
  /\ Textbox \intersect DOMAIN SvcState = {}
  /\ Values \subseteq Nat /\ 0 \in Values
  /\ MaxRequests \in Nat
  /\ FreedReads \in (SUBSET BOOLEAN) \ {{}}

VARIABLES obj,       \* per object: visible, opacity, step, timed, invalid
          fx,        \* theme->fxobjs
          shown,     \* per object: the content rendered last (cache, curr)
          seen,      \* progress when the message was rendered last
          blit,      \* the objects on the re-blit list
          fb,        \* per object: what the framebuffer shows
          value,     \* progress, message and log
          svc,       \* the state of the service
          textbox,   \* config.textbox_visible
          ctty,      \* "silent", "verbose", or "arriving": silent, not painted yet
          requests,  \* requests so far
          wild,      \* a freed list item was followed: the daemon is gone
          lost,      \* history: objects the last request did not reach
          reloaded   \* history: no repaint since the theme was loaded

themeVars == <<obj, fx, shown, seen, blit>>
inputVars == <<value, svc, textbox>>
vars == <<themeVars, fb, inputVars, ctty, requests, wild, lost, reloaded>>

-----------------------------------------------------------------------------
(* Objects and effects                                                     *)

\* obj_opacity_steps
OpacitySteps(ms) ==
  IF ms < 500 THEN 10
  ELSE LET t == (20 * ms) \div 1000 IN IF t > 255 THEN 255 ELSE t

\* The effect obj_visibility_set starts; a time below the number of steps
\* makes op_tstep zero, and the object is never due.
Effect(ob, ms, up) ==
  LET n == OpacitySteps(ms)
  IN  [ob EXCEPT !.step = IF up THEN 255 \div n ELSE -(255 \div n),
                 !.timed = ms \div n > 0,
                 !.opacity = IF up THEN 0 ELSE @]

VisibilityFault(ob, o, vis) ==  \* Fault: an object that fades in is not faded out.
  CASE ~vis /\ ob.visible -> [ob EXCEPT !.visible = FALSE]
    [] vis /\ ~ob.visible ->
         [IF Blendin[o] > 0 THEN Effect(ob, Blendin[o], TRUE) ELSE ob
          EXCEPT !.visible = TRUE]
    [] OTHER -> ob

\* obj_visibility_set: a hidden object stays visible until it has faded.
Visibility(ob, o, vis) ==
  CASE ~vis /\ ob.visible ->
         IF Blendout[o] > 0 THEN Effect(ob, Blendout[o], FALSE)
         ELSE [ob EXCEPT !.visible = FALSE]
    [] vis /\ ~ob.visible ->
         [IF Blendin[o] > 0 THEN Effect(ob, Blendin[o], TRUE) ELSE ob
          EXCEPT !.visible = TRUE]
    [] OTHER -> ob

StartsEffect(ob, o, vis) ==
  \/ ~vis /\ ob.visible /\ Blendout[o] > 0
  \/ vis /\ ~ob.visible /\ Blendin[o] > 0

\* A request to show an object that fades out changes nothing.
Ignored(ob, o, vis) == vis /\ ob.visible /\ ob.step < 0 /\ Contains(fx, o)

\* Sets the visibility of the objects in S as vis says and invalidates them.
SetVisibility(obs, S, vis) ==
  [o \in Objs |->
     IF o \in S THEN [Visibility(obs[o], o, vis[o]) EXCEPT !.invalid = TRUE]
     ELSE obs[o]]
EffectsOf(obs, S, vis) == SetToSeq({o \in S : StartsEffect(obs[o], o, vis[o])})

UncoveredFault(obs, S, vis) == {}  \* Fault: no blit_add for what is hidden.

\* What obj_visibility_set adds to the re-blit list.
Uncovered(obs, S, vis) == {o \in S : ~vis[o] /\ obs[o].visible}

\* One step of an effect in thf_anim; opacity is an 8-bit number that wraps
\* when the effect is over.
Wrapped(ob) ==
  LET next == (ob.opacity + ob.step) % 256
  IN  IF ob.step > 0 THEN ob.opacity > next ELSE ob.opacity < next

StepFault(ob) ==  \* Fault: a faded object stays, transparent.
  [ob EXCEPT !.opacity = IF ~Wrapped(ob) THEN (@ + ob.step) % 256
                         ELSE IF ob.step > 0 THEN 255 ELSE 0,
             !.invalid = TRUE]

Step(ob) ==
  [ob EXCEPT !.opacity = IF ~Wrapped(ob) THEN (@ + ob.step) % 256
                         ELSE IF ob.step > 0 THEN 255 ELSE 0,
             !.visible = @ /\ ~(ob.step < 0 /\ Wrapped(ob)),
             !.invalid = TRUE]

\* One object of the loop over fxobjs; due are the positions whose waiting
\* time is over.  An object listed twice is stepped twice.
FxStep(acc, i, due) ==
  LET o    == fx[i]
      over == Wrapped(acc.obj[o])
  IN  IF i \notin due THEN [acc EXCEPT !.keep = Append(@, o)]
      ELSE [obj  |-> [acc.obj EXCEPT ![o] = Step(@)],
            keep |-> IF over THEN acc.keep ELSE Append(acc.keep, o),
            tail |-> over /\ i = Len(fx)]

FxLoop(due) ==
  LET loop[i \in 0..Len(fx)] ==
        IF i = 0 THEN [obj |-> obj, keep |-> <<>>, tail |-> FALSE]
        ELSE FxStep(loop[i - 1], i, due)
  IN  loop[Len(fx)]

-----------------------------------------------------------------------------
(* Rendering                                                               *)

TextKinds == {"message", "log"}

Content(o) == IF Kind[o] \in DOMAIN value THEN value[Kind[o]] ELSE 0

\* Only icons fade.  box_render tests `opacity == 0xff, 1' and shows a box in
\* full; text_render scales by opacity / 255, an integer division.
Alpha(o, ob) ==
  CASE Kind[o] = "icon"                       -> ob.opacity
    [] Kind[o] \in TextKinds /\ ob.opacity < 255 -> 0
    [] OTHER                                  -> 255

Blank == <<0, 0>>
LookOf(o, ob, content) ==
  IF ob.visible /\ Alpha(o, ob) > 0 THEN <<Alpha(o, ob), content>> ELSE Blank

\* What o should look like.
Look(o) == LookOf(o, obj[o], Content(o))

\* box_prerender, icon_prerender and text_prerender: unless forced, an object
\* whose content is the one rendered last is left alone.  The message is
\* compared by progress.
Unchanged(o) ==
  CASE Kind[o] \in {"bar", "log"} -> shown[o] = Content(o)
    [] Kind[o] = "message"       -> seen = value["bar"]
    [] OTHER                     -> FALSE

\* The objects obs that render_objs puts on the re-blit list.
Prerendered(obs, force) ==
  {o \in Objs : obs[o].invalid /\ obs[o].visible /\ (force \/ ~Unchanged(o))}

Validate(obs) == [o \in Objs |-> [obs[o] EXCEPT !.invalid = FALSE]]
Update(S)     == [o \in Objs |-> IF o \in S THEN Content(o) ELSE shown[o]]
SeenAfter(S)  == IF \E o \in S : Kind[o] = "message" THEN value["bar"] ELSE seen

\* What no rendering of this theme produces: another theme's picture, or the
\* text of the console.
Garbage == <<-1, -1>>
Garbled == [o \in Objs |-> Garbage]

InvalidateAll(obs) == [o \in Objs |-> [obs[o] EXCEPT !.invalid = TRUE]]

\* fbsplashr_render_screen with repaint: the re-blit list is not emptied.
RepaintFrom(obs) ==
  LET S == Prerendered(InvalidateAll(obs), TRUE)
  IN  /\ obj' = Validate(obs)
      /\ shown' = Update(S) /\ seen' = SeenAfter(S)
      /\ blit' = blit \union S
      /\ fb' = [o \in Objs |-> LookOf(o, obs[o], Update(S)[o])]
      /\ reloaded' = FALSE

\* fbsplashr_render_screen without repaint: the regions on the re-blit list,
\* those of uncovered among them, are rendered, and then copied.
PaintFrom(obs, listed) ==
  LET S == Prerendered(obs, FALSE)
      R == S \union listed
  IN  /\ obj' = Validate(obs)
      /\ shown' = Update(S) /\ seen' = SeenAfter(S)
      /\ fb' = [o \in Objs |-> IF o \in R THEN LookOf(o, obs[o], Update(S)[o]) ELSE fb[o]]
      /\ blit' = {}
      /\ UNCHANGED reloaded

-----------------------------------------------------------------------------
(* Loading a theme                                                         *)

\* obj_alloc and the parser: only the icons of services start hidden.
NewObject(o) ==
  LET ob == [visible |-> Kind[o] # "icon", opacity |-> 255, step |-> 0,
             timed |-> FALSE, invalid |-> TRUE]
  IN  IF ob.visible /\ Blendin[o] > 0 THEN Effect(ob, Blendin[o], TRUE) ELSE ob

NewObjects == [o \in Objs |-> NewObject(o)]
NewEffects == SetToSeq({o \in Objs : Kind[o] # "icon" /\ Blendin[o] > 0})

Icons == DOMAIN SvcState
IconVis(state) == [o \in Icons |-> SvcState[o] = state]
TextboxVis(on) == [o \in Textbox |-> on]

\* main: the theme is loaded and the textbox hidden, or left alone.
Init ==
  /\ value = [bar |-> 0, message |-> 0, log |-> 0]
  /\ svc = "none"
  /\ textbox \in BOOLEAN
  /\ obj = SetVisibility(NewObjects, Textbox, TextboxVis(textbox))
  /\ fx = NewEffects \o EffectsOf(NewObjects, Textbox, TextboxVis(textbox))
  /\ blit = Uncovered(NewObjects, Textbox, TextboxVis(textbox))
  /\ shown = [o \in Objs |-> 0] /\ seen = 0
  /\ fb = Garbled
  /\ ctty \in {"silent", "verbose"}
  /\ requests = 0 /\ wild = FALSE /\ lost = {} /\ reloaded = TRUE

-----------------------------------------------------------------------------
(* Requests.  MaxRequests bounds them.                                     *)

Request == ~wild /\ requests < MaxRequests /\ requests' = requests + 1
Silent  == ctty # "verbose"

Lost(S, vis) == (lost \ S) \union {o \in S : Ignored(obj[o], o, vis[o])}

\* cmd_update_svc
UpdateSvc(state) ==
  /\ Request
  /\ svc' = state
  /\ obj' = SetVisibility(obj, Icons, IconVis(state))
  /\ fx' = fx \o EffectsOf(obj, Icons, IconVis(state))
  /\ blit' = blit \union Uncovered(obj, Icons, IconVis(state))
  /\ lost' = Lost(Icons, IconVis(state))
  /\ UNCHANGED <<shown, seen, fb, value, textbox, ctty, wild, reloaded>>

\* cmd_progress; the main message is a text that depends on the progress.
Progress(v) ==
  /\ Request
  /\ value' = [value EXCEPT !.bar = v]
  /\ obj' = [o \in Objs |-> [obj[o] EXCEPT !.invalid = @ \/ Kind[o] \in {"bar", "message"}]]
  /\ UNCHANGED <<fx, shown, seen, blit, fb, svc, textbox, ctty, wild, lost, reloaded>>

\* cmd_set_mesg
SetMessage(v) ==
  /\ Request
  /\ value' = [value EXCEPT !.message = v]
  /\ obj' = [o \in Objs |-> [obj[o] EXCEPT !.invalid = @ \/ Kind[o] = "message"]]
  /\ UNCHANGED <<fx, shown, seen, blit, fb, svc, textbox, ctty, wild, lost, reloaded>>

\* cmd_log marks nothing.
Log ==
  /\ Request
  /\ value.log + 1 \in Values
  /\ value' = [value EXCEPT !.log = @ + 1]
  /\ UNCHANGED <<themeVars, fb, svc, textbox, ctty, wild, lost, reloaded>>

\* The F3 key in either monitor thread, with its cmd_paint.
KeyF3 ==
  LET vis  == TextboxVis(~textbox)
      next == SetVisibility(obj, Textbox, vis)
      cleared == blit \union Uncovered(obj, Textbox, vis)
  IN  /\ Request
      /\ textbox' = ~textbox
      /\ fx' = fx \o EffectsOf(obj, Textbox, vis)
      /\ lost' = Lost(Textbox, vis)
      /\ IF Silent THEN PaintFrom(next, cleared)
         ELSE obj' = next /\ blit' = cleared /\ UNCHANGED <<shown, seen, fb, reloaded>>
      /\ UNCHANGED <<value, svc, ctty, wild>>

CmdPaint ==
  /\ Request /\ Silent
  /\ PaintFrom(obj, blit)
  /\ UNCHANGED <<fx, inputVars, ctty, wild, lost>>

CmdRepaint ==
  /\ Request /\ Silent
  /\ RepaintFrom(obj)
  /\ UNCHANGED <<fx, inputVars, ctty, wild, lost>>

\* cmd_set_theme: reload_theme replays the services, not the textbox.  The
\* screen keeps the picture of the old theme.
SetTheme ==
  LET icons == IF svc = "none" THEN {} ELSE Icons
  IN  /\ Request
      /\ obj' = SetVisibility(NewObjects, icons, IconVis(svc))
      /\ fx' = NewEffects \o EffectsOf(NewObjects, icons, IconVis(svc))
      /\ blit' = {}
      /\ value' = [value EXCEPT !.log = 0]
      /\ shown' = [o \in Objs |-> IF Kind[o] \in DOMAIN value THEN value'[Kind[o]] ELSE 0]
      /\ seen' = value.bar
      /\ fb' = Garbled
      /\ lost' = IF textbox THEN {} ELSE Textbox
      /\ reloaded' = TRUE
      /\ UNCHANGED <<svc, textbox, ctty, wild>>

\* process_switch_sig: USR1, USR2 and the cmd_repaint of switch_silent.
SwitchVerbose ==
  /\ Request
  /\ ctty = "silent" /\ ctty' = "verbose"
  /\ fb' = Garbled
  /\ UNCHANGED <<themeVars, inputVars, wild, lost, reloaded>>

SwitchSilent ==
  /\ Request
  /\ ctty = "verbose" /\ ctty' = "arriving"
  /\ UNCHANGED <<themeVars, fb, inputVars, wild, lost, reloaded>>

Arrive ==
  /\ ~wild
  /\ ctty = "arriving" /\ ctty' = "silent"
  /\ RepaintFrom(obj)
  /\ UNCHANGED <<fx, inputVars, requests, wild, lost>>

AnimRoundFault(due) ==  \* Fault: a paint, not a repaint.
  LET loop == FxLoop(due)
  IN  /\ ~wild
      /\ \A i \in due : obj[fx[i]].timed
      /\ fx' = loop.keep
      /\ wild' \in (IF loop.tail THEN FreedReads ELSE {FALSE})
      /\ IF Silent THEN PaintFrom(loop.obj, blit)
         ELSE obj' = loop.obj /\ UNCHANGED <<shown, seen, blit, fb, reloaded>>
      /\ UNCHANGED <<inputVars, ctty, requests, lost>>

\* A round of thf_anim.  Removing the last item follows its next pointer
\* after it was freed.
AnimRound(due) ==
  LET loop == FxLoop(due)
  IN  /\ ~wild
      /\ \A i \in due : obj[fx[i]].timed
      /\ fx' = loop.keep
      /\ wild' \in (IF loop.tail THEN FreedReads ELSE {FALSE})
      /\ IF Silent THEN RepaintFrom(loop.obj)
         ELSE obj' = loop.obj /\ UNCHANGED <<shown, seen, blit, fb, reloaded>>
      /\ UNCHANGED <<inputVars, ctty, requests, lost>>

Next ==
  \/ \E state \in States : UpdateSvc(state)
  \/ \E v \in Values : Progress(v) \/ SetMessage(v)
  \/ Log \/ KeyF3 \/ CmdPaint \/ CmdRepaint \/ SetTheme
  \/ SwitchVerbose \/ SwitchSilent \/ Arrive
  \/ \E due \in SUBSET DOMAIN fx : AnimRound(due)

Spec == Init /\ [][Next]_vars

\* Every round waits at most ten seconds, and less if an effect is running;
\* an effect that is waiting is due after finitely many rounds.
Steps(o) == \E due \in SUBSET DOMAIN fx : (\E i \in due : fx[i] = o) /\ AnimRound(due)
Fairness ==
  /\ WF_vars(Arrive)
  /\ WF_vars(\E due \in SUBSET DOMAIN fx : AnimRound(due))
  /\ \A o \in Objs : WF_vars(Steps(o))

FairSpec == Spec /\ Fairness

-----------------------------------------------------------------------------
(* Properties                                                              *)

\* While the splash is on screen, whatever differs from what its object now
\* looks like is marked so that the next paint draws it, invalid and visible
\* or on the re-blit list: invalidation in render.c misses nothing that a
\* paint could not make up for.  A new theme's objects are all marked, except
\* the hidden ones, in whose place the old theme stays until a repaint, and
\* bars, of which a paint draws only the progress made.  Texts are compared
\* by something else than their look, and so are bars inside the textbox.
StaleIsMarked ==
  ctty = "silent" =>
    \A o \in Objs :
      \/ fb[o] = Look(o)
      \/ obj[o].invalid /\ obj[o].visible
      \/ o \in blit
      \/ Kind[o] \in TextKinds
      \/ Kind[o] = "bar" /\ (o \in Textbox \/ reloaded)
      \/ reloaded /\ ~obj[o].visible

\* Objects whose effects can run in both directions, or that have none.
Regular(o) ==
  \/ Blendin[o] = 0 /\ Blendout[o] = 0
  \/ Blendin[o] >= 10 /\ (Blendout[o] = 0 \/ Blendout[o] >= 10)

\* Whether the theme, the service and the user want o on the screen.
Wanted(o) ==
  CASE o \in Icons   -> svc = SvcState[o]
    [] o \in Textbox -> textbox
    [] OTHER         -> TRUE

\* When no effect is left, whatever requests came while effects were
\* running (a second hiding, a showing after half a fade, entries listed
\* twice), an object is fully shown or hidden, as wanted.
SettledAsWanted ==
  \A o \in Objs : Regular(o) /\ o \notin lost /\ ~Contains(fx, o) =>
    IF Wanted(o) THEN obj[o].visible /\ obj[o].opacity = 255 ELSE ~obj[o].visible

\* An icon with effects in both directions appears and disappears on the
\* screen smoothly: no step changes it by more than one step of the effect
\* per entry of fxobjs, whichever requests interrupt the effect.
Entries(o) == Cardinality({i \in DOMAIN fx : fx[i] = o})
OneStep(o) == 255 \div OpacitySteps(IF Blendin[o] < Blendout[o] THEN Blendin[o] ELSE Blendout[o])
Smooth(o) ==
  LET d == fb'[o][1] - fb[o][1]
  IN  (IF d < 0 THEN -d ELSE d) <= OneStep(o) * Entries(o)
NoFlicker ==
  [][ctty = "silent" /\ ctty' = "silent" /\ ~reloaded /\ ~reloaded' =>
       \A o \in Icons : Regular(o) /\ Blendin[o] > 0 /\ Blendout[o] > 0 => Smooth(o)]_vars

\* Once the requests stop the screen shows what was asked for, texts included.
Goal(o) == IF Wanted(o) THEN <<255, Content(o)>> ELSE Blank
EventuallyAsAsked ==
  <>[](wild \/ ctty = "verbose" \/ \A o \in Objs : Regular(o) /\ o \notin lost => fb[o] = Goal(o))
=============================================================================
