------------------------------- MODULE BlitList -------------------------------
(***************************************************************************)
(* Rectangles and the re-blit list of a theme (core/src/render.c): what an *)
(* object, or the place it leaves, puts on the list, and blit_normalize,   *)
(* which drops rectangles contained in others while it walks the list.     *)
(*                                                                         *)
(* The linked list theme->blit is a sequence; blit_normalize's pointers i  *)
(* and j are positions in it, prev is always the position before j.  One   *)
(* action is one round of one of its loops.                                *)
(***************************************************************************)
EXTENDS Integers, Sequences, SequencesExt

CONSTANTS XRes, YRes  \* the size of the theme's picture

ASSUME ScreenAssumption == XRes \in Nat \ {0} /\ YRes \in Nat \ {0}

VARIABLES blit,  \* theme->blit
          i, j   \* positions of blit_normalize, 0 when it is not running

blitVars == <<blit, i, j>>

-----------------------------------------------------------------------------
(* Rectangles: both corners belong to them                                 *)

Rects == [x1 : Int, y1 : Int, x2 : Int, y2 : Int]

Cells == (0..XRes-1) \X (0..YRes-1)

\* Whether cell c belongs to rectangle a, and the cells of the screen that do.
In(a, c) == a.x1 <= c[1] /\ c[1] <= a.x2 /\ a.y1 <= c[2] /\ c[2] <= a.y2

Area(a) == {c \in Cells : In(a, c)}

\* The area a list of rectangles covers.
Covered(list) == UNION {Area(a) : a \in Range(list)}

Smaller(a, b) == IF a < b THEN a ELSE b
Larger(a, b)  == IF a > b THEN a ELSE b

rect_bnd(a, b) == [x1 |-> Smaller(a.x1, b.x1), y1 |-> Smaller(a.y1, b.y1),
                   x2 |-> Larger(a.x2, b.x2),  y2 |-> Larger(a.y2, b.y2)]

rect_contains(a, b) == a.x1 <= b.x1 /\ a.y1 <= b.y1 /\ a.x2 >= b.x2 /\ a.y2 >= b.y2

ClampFault(v, res) ==  \* Fault: off by one.
  IF v < 0 THEN 0 ELSE IF v > res THEN res - 1 ELSE v

Clamp(v, res) == IF v < 0 THEN 0 ELSE IF v >= res THEN res - 1 ELSE v

rect_sanitize(a) == [x1 |-> Clamp(a.x1, XRes), y1 |-> Clamp(a.y1, YRes),
                     x2 |-> Clamp(a.x2, XRes), y2 |-> Clamp(a.y2, YRes)]

-----------------------------------------------------------------------------
(* The list                                                                *)

blit_add(list, a) == Append(list, rect_sanitize(a))

\* The rectangles that sanitized corners can make.
ScreenRects == [x1 : 0..XRes-1, y1 : 0..YRes-1, x2 : 0..XRes-1, y2 : 0..YRes-1]

BlitInit == blit = <<>> /\ i = 0 /\ j = 0

BlitAdd(a) == i = 0 /\ blit' = blit_add(blit, a) /\ UNCHANGED <<i, j>>

NormalizeBegin == i = 0 /\ blit # <<>> /\ i' = 1 /\ j' = 2 /\ UNCHANGED blit

Comparing == i > 0 /\ j <= Len(blit)

DropContainedEndless ==  \* Fault: the item stays, and j is set back to it.
  /\ Comparing
  /\ rect_contains(blit[i], blit[j])
  /\ UNCHANGED blitVars

DropContainedFault ==  \* Fault: the cursor skips the item after the dropped one.
  /\ Comparing
  /\ rect_contains(blit[i], blit[j])
  /\ blit' = RemoveAt(blit, j)
  /\ j' = j + 1
  /\ UNCHANGED i

\* blit[i] contains blit[j]: the latter goes, j moves back to prev.
DropContained ==
  /\ Comparing
  /\ rect_contains(blit[i], blit[j])
  /\ blit' = RemoveAt(blit, j)
  /\ UNCHANGED <<i, j>>

ReplaceContainedFault ==  \* Fault: the larger rectangle is freed, not the smaller.
  /\ Comparing
  /\ ~rect_contains(blit[i], blit[j])
  /\ rect_contains(blit[j], blit[i])
  /\ blit' = RemoveAt(blit, j)
  /\ j' = i + 1
  /\ UNCHANGED i

\* blit[j] contains blit[i] and takes its place; the inner loop starts again.
ReplaceContained ==
  /\ Comparing
  /\ ~rect_contains(blit[i], blit[j])
  /\ rect_contains(blit[j], blit[i])
  /\ blit' = RemoveAt([blit EXCEPT ![i] = blit[j]], j)
  /\ j' = i + 1
  /\ UNCHANGED i

NextInner ==
  /\ Comparing
  /\ ~rect_contains(blit[i], blit[j]) /\ ~rect_contains(blit[j], blit[i])
  /\ j' = j + 1
  /\ UNCHANGED <<blit, i>>

NextOuter ==
  /\ i > 0 /\ j > Len(blit) /\ i < Len(blit)
  /\ i' = i + 1 /\ j' = i + 2
  /\ UNCHANGED blit

NormalizeEnd ==
  /\ i > 0 /\ j > Len(blit) /\ i >= Len(blit)
  /\ i' = 0 /\ j' = 0
  /\ UNCHANGED blit

NormalizeStep == DropContained \/ ReplaceContained \/ NextInner \/ NextOuter

blit_normalize == NormalizeBegin \/ NormalizeStep \/ NormalizeEnd

-----------------------------------------------------------------------------
(* Properties                                                              *)

\* The list holds rectangles of the screen; the pointers of blit_normalize
\* are on it, or at its end.
BlitTypeOK ==
  /\ blit \in Seq(ScreenRects)
  /\ i \in 0..Len(blit)
  /\ IF i = 0 THEN j = 0 ELSE j \in i+1..Len(blit)+1

\* Neither rectangle makes the other superfluous.
Apart(a, b) == ~rect_contains(a, b) /\ ~rect_contains(b, a)

\* When blit_normalize leaves an item behind, no later one contains it or is
\* contained in it, whatever was removed or put in place of it since; so when
\* it is done no rectangle is copied to the screen twice.
PassedApart ==
  \A k \in 1..Len(blit), m \in 1..Len(blit) :
    k < m /\ i > 0 /\ (k < i \/ (k = i /\ m < j)) => Apart(blit[k], blit[m])

\* blit_normalize never changes the area that will be brought up to date,
\* not even between two of its steps.
CoverageKept == [][i > 0 => Covered(blit') = Covered(blit)]_blitVars
=============================================================================
