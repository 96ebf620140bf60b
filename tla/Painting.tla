------------------------------- MODULE Painting -------------------------------
(***************************************************************************)
(* Painting overlapping objects in parts (core/src/render.c, effects.c,    *)
(* libfbsplashrender.c): which rectangles the objects of a theme put on    *)
(* the re-blit list of module BlitList when the progress or their          *)
(* visibility changes, and how the two passes of render_objs bring the     *)
(* buffer, and paint_img or put_img the screen, up to date.                *)
(*                                                                         *)
(* One thread paints, under mtx_paint.  'progress' takes no mutex: its     *)
(* handler runs between any two steps of a paint.  Showing and hiding      *)
(* objects, loading a theme and 'paint rect' happen between paints.        *)
(* Opacity and effects are module SplashScreen's.                          *)
(***************************************************************************)
EXTENDS BlitList

CONSTANTS Theme,       \* the objects in the order of theme->objs, see ThemeObjects
          PMax,        \* FBSPL_PROGRESS_MAX
          PaintRects,  \* the arguments of 'paint rect'
          MaxRequests  \* bound: requests other than for a paint

\* Fixed boxes and icons; interpolated boxes by the gradient that decides how
\* they grow (any other gradient, or a change of colour, is "mixed"); cropped
\* icons; texts that show the progress.
Graded == {"solid", "vgrad", "hgrad"}
Bars   == Graded \union {"mixed"}
Kinds  == Bars \union {"fixed", "crop", "text"}

ThemeObjects == [kind : Kinds, from : Rects, to : Rects, switched : BOOLEAN]

ASSUME PaintingAssumption ==
  /\ Theme \in Seq(ThemeObjects)
  /\ \A o \in DOMAIN Theme : Theme[o].kind = "fixed" => Theme[o].from = Theme[o].to
  /\ PMax \in Nat \ {0} /\ MaxRequests \in Nat
  /\ PaintRects \subseteq Rects

Objs == DOMAIN Theme

VARIABLES visible, invalid, \* per object
          bnd,       \* per object: the bounding rectangle
          curr,      \* per object: what was prerendered last (curr, crop_curr, cache)
          progress,  \* config.progress
          pc,        \* where the painting thread is
          force,     \* it repaints
          pos,      \* the object the first pass is at
          buf, fb,   \* per cell: the layers of the buffer and of the screen
          requests,
          late,      \* history: objects invalidated since the paint passed them
          missed,    \* history: objects whose mark a paint took away unseen
          unseen,    \* history: objects shown that were not drawn as a whole
          reloaded   \* history: no repaint since the theme was loaded

objVars   == <<visible, invalid, bnd, curr, progress>>
imageVars == <<buf, fb>>
histVars  == <<late, missed, unseen, reloaded>>
vars == <<blitVars, objVars, pc, force, pos, imageVars, requests, histVars>>

-----------------------------------------------------------------------------
(* Objects                                                                 *)

\* The division of C, towards zero.
Divided(n) == IF n >= 0 THEN n \div PMax ELSE -((-n) \div PMax)

rect_interpolate(a, b, p) ==
  LET at(from, to) == Divided(from * (PMax - p) + to * p)
  IN  [x1 |-> at(a.x1, b.x1), y1 |-> at(a.y1, b.y1), x2 |-> at(a.x2, b.x2), y2 |-> at(a.y2, b.y2)]

\* Where an object belongs: bars and cropped icons may lie outside the screen in
\* part or whole, everything else is brought onto it.
Place(o, p) ==
  LET re == rect_interpolate(Theme[o].from, Theme[o].to, p)
  IN  CASE Theme[o].kind = "fixed" -> rect_sanitize(Theme[o].from)
        [] Theme[o].kind = "text"  -> rect_sanitize(re)
        [] OTHER                   -> re

\* What prerendering computes: the rectangle, the colours or the string, and the
\* attributes of a box, which say by which gradient it grows.
At == [o \in Objs |-> [p \in 0..PMax |->
         [re   |-> Place(o, p),
          tint |-> IF Theme[o].kind \in {"mixed", "text"} THEN p ELSE 0,
          attr |-> Theme[o].kind \in Graded]]]

DependsOnProgress(o) == Theme[o].kind # "fixed"

\* The layer an object with rectangle re contributes to each of its cells; a
\* gradient depends on the extent it runs along.
Layer(o, cu) ==
  <<o, CASE Theme[o].kind = "vgrad" -> <<cu.re.y1, cu.re.y2>>
         [] Theme[o].kind = "hgrad" -> <<cu.re.x1, cu.re.x2>>
         [] Theme[o].kind = "mixed" -> <<cu.re, cu.tint>>
         [] Theme[o].kind = "text"  -> <<cu.re, cu.tint>>
         [] OTHER                   -> <<>> >>

\* The layers of cell c when the objects are drawn with the rectangles box and
\* the contents cu; the numbers of the objects say which one is on top.
Layers(c, box(_), cu(_)) == {Layer(o, cu(o)) : o \in {x \in Objs : visible[x] /\ In(box(x), c)}}

\* What the theme, the progress and the user want in cell c.
Wanted(c) == Layers(c, LAMBDA o : At[o][progress].re, LAMBDA o : At[o][progress])

\* What the second pass draws there.
Drawn(c) == Layers(c, LAMBDA o : bnd[o], LAMBDA o : curr[o])

Garbage == {<<0, <<>> >>}  \* no object is number 0

-----------------------------------------------------------------------------
(* First pass of render_objs: what an object puts on the re-blit list      *)

\* The strips by which an interval a1..a2 grows or shrinks to b1..b2.
Strips(a1, a2, b1, b2) ==
  (IF a1 # b1 THEN << <<Smaller(a1, b1), Larger(a1, b1)>> >> ELSE <<>>) \o
  (IF a2 # b2 THEN << <<Smaller(a2, b2), Larger(a2, b2)>> >> ELSE <<>>)

MapSeq(s, Op(_)) == [n \in DOMAIN s |-> Op(s[n])]

\* box_prerender of an interpolated box whose contents have changed.
BarMarks(o, new, whole) ==
  LET old == curr[o].re
      kind == Theme[o].kind
      re == new.re
  IN  CASE ~whole /\ kind \in {"solid", "vgrad"} /\ old.y1 = re.y1 /\ old.y2 = re.y2 ->
             MapSeq(Strips(old.x1, old.x2, re.x1, re.x2),
                    LAMBDA s : [x1 |-> s[1], y1 |-> re.y1, x2 |-> s[2], y2 |-> re.y2])
        [] ~whole /\ kind \in {"solid", "hgrad"} /\ old.x1 = re.x1 /\ old.x2 = re.x2 ->
             MapSeq(Strips(old.y1, old.y2, re.y1, re.y2),
                    LAMBDA s : [x1 |-> re.x1, y1 |-> s[1], x2 |-> re.x2, y2 |-> s[2]])
        [] OTHER -> IF re # bnd[o] THEN <<bnd[o], re>> ELSE <<re>>

MarksFault(o, new, whole) ==  \* Fault: the place a cropped icon leaves is not marked.
  CASE Theme[o].kind \in Bars   -> BarMarks(o, new, whole)
    [] Theme[o].kind = "crop"   -> <<new.re>>
    [] Theme[o].kind = "text"   -> <<new.re, bnd[o]>>
    [] Theme[o].kind = "fixed"  -> <<bnd[o]>>

\* obj_prerender of a visible object: the rectangles it adds to the list.
Marks(o, new, whole) ==
  CASE Theme[o].kind \in Bars   -> BarMarks(o, new, whole)
    [] Theme[o].kind = "crop"   -> <<bnd[o], new.re>>
    [] Theme[o].kind = "text"   -> <<new.re, bnd[o]>>
    [] Theme[o].kind = "fixed"  -> <<bnd[o]>>

\* Unless forced, an object that is as it was prerendered last is left alone.
Skipped(o, whole) ==
  ~whole /\ DependsOnProgress(o) /\ curr[o] = At[o][progress]

MarkedBy(o, whole) ==
  IF ~visible[o] \/ Skipped(o, whole) THEN <<>> ELSE Marks(o, At[o][progress], whole)

BlitAll(list, rects) == list \o [n \in DOMAIN rects |-> rect_sanitize(rects[n])]

\* Boxes are compared as memory, with pointers in them that were never set, so
\* that equal ones may be taken for different.  A graded bar would only mark
\* the strips between equal ends then, which is nothing.
TakenForNew(o) == IF Theme[o].kind = "mixed" THEN BOOLEAN ELSE {FALSE}

\* The mark of an object is taken away after it was prerendered; pos is then
\* minus the object.
Prerender(o, new) ==
  /\ pc = "mark" /\ pos = o /\ invalid[o]
  /\ blit' = BlitAll(blit, MarkedBy(o, force \/ new))
  /\ IF visible[o] /\ ~Skipped(o, force \/ new) /\ DependsOnProgress(o)
       THEN /\ curr' = [curr EXCEPT ![o] = At[o][progress]]
            /\ bnd' = [bnd EXCEPT ![o] = At[o][progress].re]
       ELSE UNCHANGED <<curr, bnd>>
  /\ pos' = -o
  /\ unseen' = IF /\ visible[o] /\ ~Skipped(o, force \/ new)
                   /\ Area(At[o][progress].re) \subseteq Covered(MarkedBy(o, force \/ new))
                 THEN unseen \ {o} ELSE unseen
  /\ missed' = missed \ {o} /\ late' = late \ {o}
  /\ UNCHANGED <<i, j, visible, invalid, progress, pc, force, imageVars, requests, reloaded>>

Validate(o) ==
  /\ pc = "mark" /\ pos = -o
  /\ invalid' = [invalid EXCEPT ![o] = FALSE]
  /\ pos' = o + 1
  /\ missed' = IF o \in late THEN missed \union {o} ELSE missed
  /\ late' = late \ {o}
  /\ UNCHANGED <<blitVars, visible, bnd, curr, progress, pc, force, imageVars, requests,
                 unseen, reloaded>>

SkipValid(o) ==
  /\ pc = "mark" /\ pos = o /\ ~invalid[o]
  /\ pos' = o + 1
  /\ UNCHANGED <<blitVars, objVars, pc, force, imageVars, requests, histVars>>

Normalize ==
  /\ pc = "mark" /\ pos = Len(Theme) + 1
  /\ IF blit = <<>> THEN pc' = "copy" /\ pos' = 0 /\ UNCHANGED blitVars
     ELSE pc' = "normalize" /\ pos' = 0 /\ NormalizeBegin
  /\ UNCHANGED <<objVars, force, imageVars, requests, histVars>>

Normalizing ==
  /\ pc = "normalize"
  /\ \/ NormalizeStep /\ UNCHANGED pc
     \/ NormalizeEnd /\ pc' = "render"
  /\ UNCHANGED <<objVars, force, pos, imageVars, requests, histVars>>

-----------------------------------------------------------------------------
(* Second pass, and the copy to the screen                                 *)

\* Within each rectangle of the list the background and then every object.
Render ==
  /\ pc = "render"
  /\ buf' = [c \in Cells |-> IF c \in Covered(blit) THEN Drawn(c) ELSE buf[c]]
  /\ pc' = "copy"
  /\ UNCHANGED <<blitVars, objVars, force, pos, fb, requests, histVars>>

PaintImgFault ==  \* Fault: the last rectangle is freed before it is copied.
  /\ pc = "copy" /\ ~force
  /\ fb' = [c \in Cells |-> IF blit # <<>> /\ c \in Covered(Front(blit)) THEN buf[c] ELSE fb[c]]
  /\ blit' = <<>> /\ UNCHANGED <<i, j>>
  /\ pc' = "idle" /\ late' = {}
  /\ UNCHANGED <<objVars, force, pos, buf, requests, missed, unseen, reloaded>>

\* paint_img: the rectangles of the list, which it empties.
PaintImg ==
  /\ pc = "copy" /\ ~force
  /\ fb' = [c \in Cells |-> IF c \in Covered(blit) THEN buf[c] ELSE fb[c]]
  /\ blit' = <<>> /\ UNCHANGED <<i, j>>
  /\ pc' = "idle" /\ late' = {}
  /\ UNCHANGED <<objVars, force, pos, buf, requests, missed, unseen, reloaded>>

\* put_img: the whole buffer; the list stays.
PutImg ==
  /\ pc = "copy" /\ force
  /\ fb' = buf
  /\ pc' = "idle" /\ force' = FALSE /\ late' = {}
  /\ reloaded' = FALSE
  /\ UNCHANGED <<blitVars, objVars, pos, buf, requests, missed, unseen>>

-----------------------------------------------------------------------------
(* Requests                                                                *)

Request == requests < MaxRequests /\ requests' = requests + 1

\* fbsplashr_render_screen without repaint: 'paint', F3.
CmdPaint ==
  /\ pc = "idle"
  /\ pc' = "mark" /\ pos' = 1
  /\ UNCHANGED <<blitVars, objVars, force, imageVars, requests, histVars>>

\* With repaint: 'repaint', the animation thread, a switch to the silent tty.
CmdRepaint ==
  /\ pc = "idle"
  /\ pc' = "mark" /\ pos' = 1 /\ force' = TRUE
  /\ buf' = [c \in Cells |-> {}]
  /\ invalid' = [o \in Objs |-> TRUE]
  /\ UNCHANGED <<blitVars, visible, bnd, curr, progress, fb, requests, histVars>>

\* fbsplashr_progress_set, invalidate_progress.
Progress(p) ==
  LET depends == {o \in Objs : DependsOnProgress(o)}
  IN  /\ Request
      /\ progress' = p
      /\ invalid' = [o \in Objs |-> invalid[o] \/ o \in depends]
      /\ late' = IF pc = "idle" THEN {} ELSE late \union depends
      /\ UNCHANGED <<blitVars, visible, bnd, curr, pc, force, pos, imageVars, missed, unseen,
                     reloaded>>

\* obj_visibility_set and the mark set before it, without effects.
Switch(o) ==
  /\ pc = "idle" /\ Request /\ Theme[o].switched
  /\ invalid' = [invalid EXCEPT ![o] = TRUE]
  /\ visible' = [visible EXCEPT ![o] = ~@]
  /\ IF visible[o] THEN BlitAdd(bnd[o]) /\ unseen' = unseen \ {o}
     ELSE unseen' = unseen \union {o} /\ UNCHANGED blitVars
  /\ UNCHANGED <<bnd, curr, progress, pc, force, pos, imageVars, late, missed,
                 reloaded>>

\* 'paint rect': both corners are brought onto the screen.  daemon_comm matches
\* commands by prefix and goes on, so that the line runs 'paint' as well.
PaintRect(a) ==
  LET re == rect_sanitize([x1 |-> Smaller(a.x1, a.x2), y1 |-> Smaller(a.y1, a.y2),
                           x2 |-> Larger(a.x1, a.x2),  y2 |-> Larger(a.y1, a.y2)])
  IN  /\ pc = "idle" /\ Request
      /\ fb' = [c \in Cells |-> IF c \in Area(re) THEN buf[c] ELSE fb[c]]
      /\ pc' = "mark" /\ pos' = 1
      /\ UNCHANGED <<blitVars, objVars, force, buf, histVars>>

\* The bounding rectangle of a bar or a cropped icon takes in all it may grow
\* to; texts and contents are computed for the progress there is, those of a
\* box before the gradient is added to its attributes.
NewBnd(o, p) ==
  IF Theme[o].kind = "text" THEN At[o][p].re ELSE rect_sanitize(rect_bnd(Theme[o].from, Theme[o].to))

NewCurr(o, p) == [re |-> At[o][p].re, tint |-> At[o][p].tint, attr |-> FALSE]

NewTheme(p) ==
  /\ visible' = [o \in Objs |-> TRUE]
  /\ invalid' = [o \in Objs |-> TRUE]
  /\ bnd' = [o \in Objs |-> NewBnd(o, p)]
  /\ curr' = [o \in Objs |-> NewCurr(o, p)]

\* reload_theme
SetTheme ==
  /\ pc = "idle" /\ Request
  /\ NewTheme(progress)
  /\ blit' = <<>> /\ UNCHANGED <<i, j>>
  /\ buf' = [c \in Cells |-> Garbage]
  /\ reloaded' = TRUE /\ missed' = {} /\ unseen' = {}
  /\ UNCHANGED <<progress, pc, force, pos, fb, late>>

\* daemon_start has loaded the theme; the first repaint comes with the first
\* switch to the silent tty.
Init ==
  /\ BlitInit
  /\ visible = [o \in Objs |-> TRUE] /\ invalid = [o \in Objs |-> TRUE]
  /\ progress = 0
  /\ bnd = [o \in Objs |-> NewBnd(o, 0)] /\ curr = [o \in Objs |-> NewCurr(o, 0)]
  /\ pc = "idle" /\ force = FALSE /\ pos = 0
  /\ buf = [c \in Cells |-> Garbage] /\ fb = buf
  /\ requests = 0
  /\ late = {} /\ missed = {} /\ unseen = {} /\ reloaded = TRUE

FirstPass ==
  \E o \in Objs : Validate(o) \/ SkipValid(o) \/ \E new \in TakenForNew(o) : Prerender(o, new)

Painter == FirstPass \/ Normalize \/ Normalizing \/ Render \/ PaintImg \/ PutImg

Next ==
  \/ Painter
  \/ CmdPaint \/ CmdRepaint \/ SetTheme
  \/ \E p \in 0..PMax : Progress(p)
  \/ \E o \in Objs : Switch(o)
  \/ \E a \in PaintRects : PaintRect(a)

Spec == Init /\ [][Next]_vars
FairSpec == Spec /\ WF_vars(Painter)

-----------------------------------------------------------------------------
(* Properties                                                              *)

\* The variables stay within their types; what is rendered and copied is on
\* the screen.
TypeOK ==
  /\ BlitTypeOK
  /\ visible \in [Objs -> BOOLEAN] /\ invalid \in [Objs -> BOOLEAN]
  /\ bnd \in [Objs -> Rects]
  /\ curr \in [Objs -> [re : Rects, tint : 0..PMax, attr : BOOLEAN]]
  /\ progress \in 0..PMax
  /\ pc \in {"idle", "mark", "normalize", "render", "copy"} /\ force \in BOOLEAN
  /\ pos \in -Len(Theme)..Len(Theme) + 1
  /\ DOMAIN buf = Cells /\ DOMAIN fb = Cells
  /\ requests \in 0..MaxRequests
  /\ late \subseteq Objs /\ missed \subseteq Objs /\ unseen \subseteq Objs
  /\ reloaded \in BOOLEAN

\* Between paints the screen shows the buffer: paint_img copies all that the
\* second pass has drawn, so 'paint rect' has nothing new to show.
ScreenShowsBuffer == pc = "idle" /\ ~reloaded => fb = buf

\* A paint comes to an end, although blit_normalize starts again each time it
\* replaces a rectangle and requests add marks meanwhile.
PaintEnds == pc # "idle" ~> pc = "idle"

\* The objects the first pass has still to look at.
Pending(o) == pc = "idle" \/ (pc = "mark" /\ IF pos > 0 THEN o >= pos ELSE o > -pos)

AreaOf(o, whole) == UNION {Covered(BlitAll(<<>>, rects)) : rects \in {MarkedBy(o, whole)}}
ExtentOf(o)      == Area(bnd[o]) \union Area(At[o][progress].re)

\* Cells the painter does not bring up to date: of an object whose mark was
\* set between its prerendering and the removal of its mark; of one shown
\* again at the progress it was hidden at, or drawn in strips since.
Overlooked ==
  IF reloaded THEN Cells
  ELSE UNION {ExtentOf(o) : o \in {x \in Objs : visible[x] /\
                (x \in missed \/ (x \in unseen /\ DependsOnProgress(x)))}}

\* The painter, seen from outside: the normalized list, the two passes and the
\* copy make one change of the marked cells, and every cell that is not as the
\* theme, the progress and the user want it is marked or overlooked.
Screen == INSTANCE ScreenContract WITH
  picture    <- fb,
  image      <- [c \in Cells |-> Wanted(c)],
  marked     <- Covered(blit) \union
                UNION {AreaOf(o, force) : o \in {x \in Objs : invalid[x] /\ Pending(x)}},
  late       <- UNION {AreaOf(o, FALSE) : o \in {x \in Objs : x \in late /\ invalid[x] /\ ~Pending(x)}},
  overlooked <- Overlooked

PaintsAsAsked == Screen!Contract
=============================================================================
