----------------------------- MODULE PaintingProofs -----------------------------
(***************************************************************************)
(* Proofs about Painting and BlitList for any theme, any screen and any    *)
(* bound on requests: the variables keep their types, blit_normalize has   *)
(* compared every pair it leaves behind and keeps the area covered, and    *)
(* the painter implements ScreenContract.                                  *)
(***************************************************************************)
EXTENDS Painting, TLAPS

-----------------------------------------------------------------------------
(* Lists                                                                   *)

\* What removing an item (list_del) leaves of a list.
LEMMA RemoveAtFacts ==
  ASSUME NEW S, NEW s \in Seq(S), NEW n \in 1..Len(s)
  PROVE  /\ RemoveAt(s, n) \in Seq(S)
         /\ Len(RemoveAt(s, n)) = Len(s) - 1
         /\ \A m \in 1..Len(s)-1 : RemoveAt(s, n)[m] = IF m < n THEN s[m] ELSE s[m+1]
  <1> DEFINE u == SubSeq(s, 1, n-1)
             v == SubSeq(s, n+1, Len(s))
  <1>1. u \in Seq(S) /\ Len(u) = n-1 /\ \A m \in 1..n-1 : u[m] = s[m]
    OBVIOUS
  <1>2. v \in Seq(S) /\ Len(v) = Len(s)-n /\ \A m \in 1..Len(s)-n : v[m] = s[m+n]
    OBVIOUS
  <1>3. RemoveAt(s, n) = u \o v
    BY DEF RemoveAt
  <1> HIDE DEF u, v
  <1>4. u \o v \in Seq(S) /\ Len(u \o v) = Len(s) - 1
    BY <1>1, <1>2
  <1>5. ASSUME NEW m \in 1..Len(s)-1
        PROVE  (u \o v)[m] = IF m < n THEN s[m] ELSE s[m+1]
    <2>1. CASE m < n
      BY <1>1, <1>2, <2>1
    <2>2. CASE m >= n
      <3>1. (u \o v)[m] = v[m - (n-1)] /\ m - (n-1) \in 1..Len(s)-n
        BY <1>1, <1>2, <2>2
      <3> QED BY <1>2, <2>2, <3>1
    <2>3. m < n \/ m >= n
      OBVIOUS
    <2> QED BY <2>1, <2>2, <2>3, Zenon
  <1> QED BY <1>3, <1>4, <1>5

\* The rectangles a list covers, by position.
LEMMA RangeIsPositions ==
  ASSUME NEW S, NEW s \in Seq(S)
  PROVE  Range(s) = {s[m] : m \in 1..Len(s)}
  BY DEF Range

-----------------------------------------------------------------------------
(* Rectangles                                                              *)

\* A rectangle contained in another covers nothing that the other does not.
LEMMA AreaMonotone ==
  ASSUME NEW a \in ScreenRects, NEW b \in ScreenRects, rect_contains(a, b)
  PROVE  Area(b) \subseteq Area(a)
  <1> SUFFICES ASSUME NEW c \in Cells, In(b, c) PROVE In(a, c)
    BY DEF Area
  <1>1. c[1] \in Int /\ c[2] \in Int
    BY ScreenAssumption DEF Cells
  <1>2. /\ a.x1 \in Int /\ a.y1 \in Int /\ a.x2 \in Int /\ a.y2 \in Int
        /\ b.x1 \in Int /\ b.y1 \in Int /\ b.x2 \in Int /\ b.y2 \in Int
    BY ScreenAssumption DEF ScreenRects
  <1> QED BY <1>1, <1>2 DEF In, rect_contains

\* rect_sanitize brings every rectangle onto the screen.
LEMMA SanitizeOnScreen ==
  ASSUME NEW a \in Rects
  PROVE  rect_sanitize(a) \in ScreenRects
  <1>1. \A v \in Int, res \in Nat \ {0} : Clamp(v, res) \in 0..res-1
    BY DEF Clamp
  <1> QED BY <1>1, ScreenAssumption DEF rect_sanitize, Rects, ScreenRects

-----------------------------------------------------------------------------
(* blit_normalize                                                          *)

\* A round of blit_normalize keeps the pointers on the list.
LEMMA NormalizeTypes ==
  ASSUME BlitTypeOK, blit_normalize
  PROVE  BlitTypeOK'
  <1> USE DEF BlitTypeOK
  <1>1. CASE NormalizeBegin
    BY <1>1 DEF NormalizeBegin
  <1>2. CASE DropContained
    <2>1. j \in 1..Len(blit) /\ i \in 1..Len(blit) /\ i < j
      BY <1>2 DEF DropContained, Comparing
    <2> QED BY <1>2, <2>1, RemoveAtFacts DEF DropContained
  <1>3. CASE ReplaceContained
    <2> DEFINE s == [blit EXCEPT ![i] = blit[j]]
    <2>1. j \in 1..Len(blit) /\ i \in 1..Len(blit) /\ i < j
      BY <1>3 DEF ReplaceContained, Comparing
    <2>2. s \in Seq(ScreenRects) /\ Len(s) = Len(blit)
      BY <2>1
    <2>3. blit' = RemoveAt(s, j) /\ i' = i /\ j' = i + 1
      BY <1>3 DEF ReplaceContained
    <2> HIDE DEF s
    <2>4. blit' \in Seq(ScreenRects) /\ Len(blit') = Len(blit) - 1
      BY <2>1, <2>2, <2>3, RemoveAtFacts
    <2> QED BY <2>1, <2>3, <2>4
  <1>4. CASE NextInner
    BY <1>4 DEF NextInner, Comparing
  <1>5. CASE NextOuter
    BY <1>5 DEF NextOuter
  <1>6. CASE NormalizeEnd
    BY <1>6 DEF NormalizeEnd
  <1> QED BY <1>1, <1>2, <1>3, <1>4, <1>5, <1>6 DEF blit_normalize, NormalizeStep

\* A round of blit_normalize leaves no pair behind that it has not compared:
\* items that were passed stay apart from whatever replaces a later one.
LEMMA NormalizePassed ==
  ASSUME BlitTypeOK, PassedApart, blit_normalize
  PROVE  PassedApart'
  <1> SUFFICES ASSUME NEW k \in 1..Len(blit'), NEW m \in 1..Len(blit'), k < m, i' > 0,
                      k < i' \/ (k = i' /\ m < j')
               PROVE  Apart(blit'[k], blit'[m])
    BY DEF PassedApart, Apart
  <1>1. CASE NormalizeBegin
    BY <1>1 DEF NormalizeBegin
  <1>2. CASE DropContained
    <2>1. j \in 1..Len(blit) /\ i \in 1..Len(blit) /\ i < j /\ i' = i /\ j' = j
      BY <1>2 DEF DropContained, Comparing, BlitTypeOK
    <2>2. blit' = RemoveAt(blit, j) /\ blit \in Seq(ScreenRects)
      BY <1>2 DEF DropContained, BlitTypeOK
    <2>3. /\ Len(blit') = Len(blit) - 1
          /\ \A n \in 1..Len(blit)-1 : blit'[n] = IF n < j THEN blit[n] ELSE blit[n+1]
      BY <2>1, <2>2, RemoveAtFacts
    <2>4. blit'[k] = blit[k]
      BY <2>1, <2>3
    <2>5. CASE m < j
      <3>1. blit'[m] = blit[m] /\ m \in 1..Len(blit) /\ k \in 1..Len(blit)
        BY <2>1, <2>2, <2>3, <2>5
      <3>2. i > 0 /\ (k < i \/ (k = i /\ m < j))
        BY <2>1
      <3> QED BY <2>4, <3>1, <3>2 DEF PassedApart
    <2>6. CASE m >= j
      <3>1. blit'[m] = blit[m+1] /\ k < i /\ m + 1 \in 1..Len(blit)
        BY <2>1, <2>2, <2>3, <2>6
      <3> QED BY <2>1, <2>2, <2>3, <2>4, <3>1 DEF PassedApart
    <2> QED BY <2>1, <2>2, <2>5, <2>6
  <1>3. CASE ReplaceContained
    <2> DEFINE s == [blit EXCEPT ![i] = blit[j]]
    <2>1. j \in 1..Len(blit) /\ i \in 1..Len(blit) /\ i < j /\ i' = i /\ j' = i + 1
      BY <1>3 DEF ReplaceContained, Comparing, BlitTypeOK
    <2>2. /\ blit \in Seq(ScreenRects) /\ s \in Seq(ScreenRects) /\ Len(s) = Len(blit)
          /\ \A n \in 1..Len(blit) : s[n] = IF n = i THEN blit[j] ELSE blit[n]
      BY <2>1 DEF BlitTypeOK
    <2>3. blit' = RemoveAt(s, j)
      BY <1>3 DEF ReplaceContained
    <2> HIDE DEF s
    <2>4. /\ Len(blit') = Len(blit) - 1
          /\ \A n \in 1..Len(blit)-1 : blit'[n] = IF n < j THEN s[n] ELSE s[n+1]
      BY <2>1, <2>2, <2>3, RemoveAtFacts
    <2>5. k < i /\ blit'[k] = blit[k]
      BY <2>1, <2>2, <2>4
    <2>6. PICK n \in 1..Len(blit) : k < n /\ blit'[m] = blit[n]
      <3>1. CASE m < j /\ m # i
        <4>1. m \in 1..Len(blit)-1 /\ m \in 1..Len(blit)
          BY <2>1, <2>4, <3>1
        <4>2. blit'[m] = s[m]
          BY <2>4, <3>1, <4>1
        <4>3. s[m] = blit[m]
          BY <2>2, <3>1, <4>1
        <4> QED BY <4>1, <4>2, <4>3
      <3>2. CASE m = i
        BY <2>1, <2>2, <2>4, <2>5, <3>2
      <3>3. CASE m >= j
        <4>1. m + 1 \in 1..Len(blit) /\ m + 1 # i /\ k < m + 1
          BY <2>1, <2>2, <2>4, <3>3
        <4>2. blit'[m] = blit[m+1]
          BY <2>1, <2>2, <2>4, <3>3, <4>1
        <4> QED BY <4>1, <4>2
      <3> QED BY <2>1, <2>2, <3>1, <3>2, <3>3
    <2> QED BY <2>1, <2>2, <2>5, <2>6 DEF PassedApart
  <1>4. CASE NextInner
    <2>1. /\ j \in 1..Len(blit) /\ i \in 1..Len(blit) /\ i < j
          /\ i' = i /\ j' = j + 1 /\ blit' = blit /\ Apart(blit[i], blit[j])
      BY <1>4 DEF NextInner, Comparing, BlitTypeOK, Apart
    <2>2. CASE k = i /\ m = j
      BY <2>1, <2>2
    <2>3. CASE k < i \/ (k = i /\ m < j)
      BY <2>1, <2>3 DEF PassedApart
    <2> QED BY <2>1, <2>2, <2>3
  <1>5. CASE NextOuter
    <2>1. /\ i > 0 /\ i \in Int /\ j \in Int /\ j > Len(blit)
          /\ i' = i + 1 /\ j' = i + 2 /\ blit' = blit /\ blit \in Seq(ScreenRects)
      BY <1>5 DEF NextOuter, BlitTypeOK
    <2>2. k < i \/ (k = i /\ m < j)
      BY <2>1
    <2> QED BY <2>1, <2>2 DEF PassedApart
  <1>6. CASE NormalizeEnd
    BY <1>6 DEF NormalizeEnd
  <1> QED BY <1>1, <1>2, <1>3, <1>4, <1>5, <1>6 DEF blit_normalize, NormalizeStep

\* The cells a list covers, by position.
LEMMA CoveredAt ==
  ASSUME NEW S, NEW s \in Seq(S), NEW c
  PROVE  c \in Covered(s) <=> \E n \in 1..Len(s) : c \in Area(s[n])
  BY RangeIsPositions DEF Covered

\* A list that holds some items of another, and for each of the others one that
\* covers it, covers the same area.
LEMMA SameCover ==
  ASSUME NEW s \in Seq(ScreenRects), NEW t \in Seq(ScreenRects),
         \A n \in 1..Len(s) : \E m \in 1..Len(t) : Area(s[n]) \subseteq Area(t[m]),
         \A m \in 1..Len(t) : \E n \in 1..Len(s) : t[m] = s[n]
  PROVE  Covered(t) = Covered(s)
  <1>1. \A c : c \in Covered(s) <=> \E n \in 1..Len(s) : c \in Area(s[n])
    BY CoveredAt
  <1>2. \A c : c \in Covered(t) <=> \E m \in 1..Len(t) : c \in Area(t[m])
    BY CoveredAt
  <1> QED BY <1>1, <1>2, Zenon

\* Neither the larger of two rectangles nor the other drops out of the area: a
\* round of blit_normalize removes what another item covers.
LEMMA NormalizeCovers ==
  ASSUME BlitTypeOK, blit_normalize
  PROVE  Covered(blit') = Covered(blit)
  <1>1. CASE DropContained
    <2>1. j \in 1..Len(blit) /\ i \in 1..Len(blit) /\ i < j /\ blit \in Seq(ScreenRects)
      BY <1>1 DEF DropContained, Comparing, BlitTypeOK
    <2>2. blit' = RemoveAt(blit, j) /\ rect_contains(blit[i], blit[j])
      BY <1>1 DEF DropContained
    <2>3. Area(blit[j]) \subseteq Area(blit[i])
      BY <2>1, <2>2, AreaMonotone
    <2>4. /\ blit' \in Seq(ScreenRects) /\ Len(blit') = Len(blit) - 1
          /\ \A n \in 1..Len(blit)-1 : blit'[n] = IF n < j THEN blit[n] ELSE blit[n+1]
      BY <2>1, <2>2, RemoveAtFacts
    <2>5. ASSUME NEW n \in 1..Len(blit)
          PROVE  \E m \in 1..Len(blit') : Area(blit[n]) \subseteq Area(blit'[m])
      <3>1. CASE n < j
        BY <2>1, <2>4, <3>1
      <3>2. CASE n = j
        <4>1. i \in 1..Len(blit') /\ blit'[i] = blit[i]
          BY <2>1, <2>4
        <4> QED BY <2>3, <3>2, <4>1
      <3>3. CASE n > j
        <4>1. n-1 \in 1..Len(blit') /\ blit'[n-1] = blit[n]
          BY <2>1, <2>4, <3>3
        <4> QED BY <4>1
      <3> QED BY <2>1, <3>1, <3>2, <3>3
    <2>6. ASSUME NEW m \in 1..Len(blit')
          PROVE  \E n \in 1..Len(blit) : blit'[m] = blit[n]
      <3>1. CASE m < j
        BY <2>1, <2>4, <3>1
      <3>2. CASE m >= j
        <4>1. m+1 \in 1..Len(blit) /\ blit'[m] = blit[m+1]
          BY <2>1, <2>4, <3>2
        <4> QED BY <4>1
      <3> QED BY <2>1, <2>4, <3>1, <3>2
    <2> QED BY <2>1, <2>4, <2>5, <2>6, SameCover
  <1>2. CASE ReplaceContained
    <2> DEFINE s == [blit EXCEPT ![i] = blit[j]]
    <2>1. j \in 1..Len(blit) /\ i \in 1..Len(blit) /\ i < j /\ blit \in Seq(ScreenRects)
      BY <1>2 DEF ReplaceContained, Comparing, BlitTypeOK
    <2>2. blit' = RemoveAt(s, j) /\ rect_contains(blit[j], blit[i])
      BY <1>2 DEF ReplaceContained
    <2>3. Area(blit[i]) \subseteq Area(blit[j])
      BY <2>1, <2>2, AreaMonotone
    <2>4. /\ s \in Seq(ScreenRects) /\ Len(s) = Len(blit)
          /\ \A n \in 1..Len(blit) : s[n] = IF n = i THEN blit[j] ELSE blit[n]
      BY <2>1
    <2> HIDE DEF s
    <2>5. /\ blit' \in Seq(ScreenRects) /\ Len(blit') = Len(blit) - 1
          /\ \A n \in 1..Len(blit)-1 : blit'[n] = IF n < j THEN s[n] ELSE s[n+1]
      BY <2>1, <2>2, <2>4, RemoveAtFacts
    <2>6. ASSUME NEW n \in 1..Len(blit)
          PROVE  \E m \in 1..Len(blit') : Area(blit[n]) \subseteq Area(blit'[m])
      <3>1. CASE n = i \/ n = j
        <4>1. i \in 1..Len(blit') /\ blit'[i] = blit[j]
          BY <2>1, <2>4, <2>5
        <4> QED BY <2>3, <3>1, <4>1
      <3>2. CASE n < j /\ n # i
        <4>1. n \in 1..Len(blit') /\ blit'[n] = blit[n]
          BY <2>1, <2>4, <2>5, <3>2
        <4> QED BY <4>1
      <3>3. CASE n > j
        <4>1. n-1 \in 1..Len(blit') /\ blit'[n-1] = blit[n]
          BY <2>1, <2>4, <2>5, <3>3
        <4> QED BY <4>1
      <3> QED BY <2>1, <3>1, <3>2, <3>3
    <2>7. ASSUME NEW m \in 1..Len(blit')
          PROVE  \E n \in 1..Len(blit) : blit'[m] = blit[n]
      <3>1. CASE m < j
        BY <2>1, <2>4, <2>5, <3>1
      <3>2. CASE m >= j
        <4>1. m+1 \in 1..Len(blit) /\ blit'[m] = blit[m+1]
          BY <2>1, <2>4, <2>5, <3>2
        <4> QED BY <4>1
      <3> QED BY <2>1, <2>5, <3>1, <3>2
    <2> QED BY <2>1, <2>5, <2>6, <2>7, SameCover
  <1>3. CASE blit' = blit
    BY <1>3
  <1> QED BY <1>1, <1>2, <1>3 DEF blit_normalize, NormalizeStep, NormalizeBegin, NextInner,
                                  NextOuter, NormalizeEnd

-----------------------------------------------------------------------------
(* What objects put on the list                                            *)

\* The objects of a theme, by their number.
LEMMA ObjectTypes ==
  ASSUME NEW o \in Objs
  PROVE  Theme[o] \in ThemeObjects
  BY PaintingAssumption DEF Objs

\* What prerendering computes is a rectangle, a colour and an attribute.
LEMMA AtTypes ==
  ASSUME NEW o \in Objs, NEW p \in 0..PMax
  PROVE  At[o][p] \in [re : Rects, tint : 0..PMax, attr : BOOLEAN]
  <1>1. /\ Theme[o].from \in Rects /\ Theme[o].to \in Rects
        /\ PMax \in Nat \ {0}
    BY PaintingAssumption, ObjectTypes DEF ThemeObjects
  <1>2. \A n \in Int : Divided(n) \in Int
    BY <1>1 DEF Divided
  <1>3. rect_interpolate(Theme[o].from, Theme[o].to, p) \in Rects
    <2> DEFINE at(from, to) == Divided(from * (PMax - p) + to * p)
    <2>1. \A x \in Int, y \in Int : x * (PMax - p) + y * p \in Int
      BY <1>1
    <2>2. \A x \in Int, y \in Int : at(x, y) \in Int
      BY <1>2, <2>1
    <2>3. rect_interpolate(Theme[o].from, Theme[o].to, p)
            = [x1 |-> at(Theme[o].from.x1, Theme[o].to.x1), y1 |-> at(Theme[o].from.y1, Theme[o].to.y1),
               x2 |-> at(Theme[o].from.x2, Theme[o].to.x2), y2 |-> at(Theme[o].from.y2, Theme[o].to.y2)]
      BY DEF rect_interpolate
    <2>4. /\ at(Theme[o].from.x1, Theme[o].to.x1) \in Int /\ at(Theme[o].from.y1, Theme[o].to.y1) \in Int
          /\ at(Theme[o].from.x2, Theme[o].to.x2) \in Int /\ at(Theme[o].from.y2, Theme[o].to.y2) \in Int
      <3> HIDE DEF at
      <3> QED BY <1>1, <2>2 DEF Rects
    <2> HIDE DEF at
    <2> QED BY <2>3, <2>4 DEF Rects
  <1>4. (IF Theme[o].kind \in {"mixed", "text"} THEN p ELSE 0) \in 0..PMax
    BY <1>1
  <1>5. ScreenRects \subseteq Rects
    BY ScreenAssumption DEF ScreenRects, Rects
  <1>6. Place(o, p) \in Rects
    BY <1>1, <1>3, <1>5, SanitizeOnScreen DEF Place
  <1>7. At[o][p] = [re   |-> Place(o, p),
                    tint |-> IF Theme[o].kind \in {"mixed", "text"} THEN p ELSE 0,
                    attr |-> Theme[o].kind \in Graded]
    BY DEF At
  <1>8. (Theme[o].kind \in Graded) \in BOOLEAN
    OBVIOUS
  <1> QED BY <1>4, <1>6, <1>7, <1>8

\* So are the contents of an object of a theme just loaded.
LEMMA NewTypes ==
  ASSUME NEW o \in Objs, NEW p \in 0..PMax
  PROVE  /\ NewCurr(o, p) \in [re : Rects, tint : 0..PMax, attr : BOOLEAN]
         /\ NewCurr(o, p).attr = FALSE
  <1>1. At[o][p] \in [re : Rects, tint : 0..PMax, attr : BOOLEAN]
    BY AtTypes
  <1> QED BY <1>1 DEF NewCurr

ObjTypeOK ==
  /\ bnd \in [Objs -> Rects]
  /\ curr \in [Objs -> [re : Rects, tint : 0..PMax, attr : BOOLEAN]]
  /\ progress \in 0..PMax

\* A strip lies between two ends.
LEMMA StripTypes ==
  ASSUME NEW a1 \in Int, NEW a2 \in Int, NEW b1 \in Int, NEW b2 \in Int
  PROVE  Strips(a1, a2, b1, b2) \in Seq(Int \X Int)
  <1>1. \A x \in Int, y \in Int : << <<Smaller(x, y), Larger(x, y)>> >> \in Seq(Int \X Int)
    BY DEF Smaller, Larger
  <1>2. <<>> \in Seq(Int \X Int)
    OBVIOUS
  <1> DEFINE u == IF a1 # b1 THEN << <<Smaller(a1, b1), Larger(a1, b1)>> >> ELSE <<>>
             v == IF a2 # b2 THEN << <<Smaller(a2, b2), Larger(a2, b2)>> >> ELSE <<>>
  <1>3. u \in Seq(Int \X Int) /\ v \in Seq(Int \X Int)
    BY <1>1, <1>2
  <1> HIDE DEF u, v
  <1>4. u \o v \in Seq(Int \X Int)
    BY <1>3
  <1> QED BY <1>4 DEF Strips, u, v

\* The rectangles an object adds to the list.
LEMMA MarkTypes ==
  ASSUME ObjTypeOK, NEW o \in Objs, NEW whole
  PROVE  MarkedBy(o, whole) \in Seq(Rects)
  <1> DEFINE new == At[o][progress]
             old == curr[o].re
             re  == new.re
  <1>1. re \in Rects /\ old \in Rects /\ bnd[o] \in Rects
    BY AtTypes DEF ObjTypeOK
  <1> HIDE DEF new, old
  <1>2. /\ re.x1 \in Int /\ re.y1 \in Int /\ re.x2 \in Int /\ re.y2 \in Int
        /\ old.x1 \in Int /\ old.y1 \in Int /\ old.x2 \in Int /\ old.y2 \in Int
    BY <1>1 DEF Rects
  <1> DEFINE h == Strips(old.x1, old.x2, re.x1, re.x2)
             v == Strips(old.y1, old.y2, re.y1, re.y2)
  <1>3. h \in Seq(Int \X Int) /\ v \in Seq(Int \X Int)
    BY <1>2, StripTypes
  <1> HIDE DEF h, v
  <1>4. [n \in DOMAIN h |-> [x1 |-> h[n][1], y1 |-> re.y1, x2 |-> h[n][2], y2 |-> re.y2]] \in Seq(Rects)
    <2>1. \A n \in 1..Len(h) : h[n][1] \in Int /\ h[n][2] \in Int
      BY <1>3
    <2>2. DOMAIN h = 1..Len(h) /\ Len(h) \in Nat
      BY <1>3
    <2>3. \A n \in 1..Len(h) : [x1 |-> h[n][1], y1 |-> re.y1, x2 |-> h[n][2], y2 |-> re.y2] \in Rects
      BY <1>2, <2>1 DEF Rects
    <2> QED BY <2>2, <2>3
  <1>5. [n \in DOMAIN v |-> [x1 |-> re.x1, y1 |-> v[n][1], x2 |-> re.x2, y2 |-> v[n][2]]] \in Seq(Rects)
    <2>1. \A n \in 1..Len(v) : v[n][1] \in Int /\ v[n][2] \in Int
      BY <1>3
    <2>2. DOMAIN v = 1..Len(v) /\ Len(v) \in Nat
      BY <1>3
    <2>3. \A n \in 1..Len(v) : [x1 |-> re.x1, y1 |-> v[n][1], x2 |-> re.x2, y2 |-> v[n][2]] \in Rects
      BY <1>2, <2>1 DEF Rects
    <2> QED BY <2>2, <2>3
  <1>6. /\ <<>> \in Seq(Rects) /\ <<bnd[o], re>> \in Seq(Rects) /\ <<re>> \in Seq(Rects)
        /\ <<re, bnd[o]>> \in Seq(Rects) /\ <<bnd[o]>> \in Seq(Rects)
    BY <1>1
  <1>7. BarMarks(o, new, whole) \in Seq(Rects)
    BY <1>4, <1>5, <1>6 DEF BarMarks, MapSeq, h, v, old
  <1>8. Theme[o].kind \in Kinds
    BY ObjectTypes DEF ThemeObjects
  <1>9. Marks(o, new, whole) \in Seq(Rects)
    BY <1>6, <1>7, <1>8 DEF Marks, Kinds, Bars, Graded
  <1> QED BY <1>6, <1>9 DEF MarkedBy, new

\* Rectangles added one by one, each sanitized, leave a list of rectangles on
\* the screen.
LEMMA BlitAllTypes ==
  ASSUME NEW list \in Seq(ScreenRects), NEW rects \in Seq(Rects)
  PROVE  BlitAll(list, rects) \in Seq(ScreenRects)
  <1>1. [n \in DOMAIN rects |-> rect_sanitize(rects[n])] \in Seq(ScreenRects)
    BY SanitizeOnScreen
  <1> QED BY <1>1 DEF BlitAll

-----------------------------------------------------------------------------
(* The invariant                                                           *)

\* blit_normalize runs in the state of the painting thread named after it.
WhenNormalizing == i > 0 <=> pc = "normalize"

\* Unless the screen is to be repainted, it differs from the buffer only while
\* a paint is about to copy it, where the list covers it.
UnshownIsCovered ==
  /\ buf = [c \in Cells |-> buf[c]] /\ fb = [c \in Cells |-> fb[c]]
  /\ pc = "idle" => ~force
  /\ ~reloaded /\ ~force =>
       \A c \in Cells : fb[c] # buf[c] => pc = "copy" /\ c \in Covered(blit)

IInv == TypeOK /\ WhenNormalizing /\ PassedApart /\ UnshownIsCovered

\* The number of an object is one of the positions of the first pass.
LEMMA ObjNumbers ==
  Objs = 1..Len(Theme) /\ Len(Theme) \in Nat
  BY PaintingAssumption DEF Objs

\* bnd_init yields rectangles.
LEMMA BndTypes ==
  ASSUME NEW o \in Objs, NEW p \in 0..PMax
  PROVE  NewBnd(o, p) \in Rects
  <1>1. ScreenRects \subseteq Rects
    BY ScreenAssumption DEF ScreenRects, Rects
  <1>2. Theme[o].from \in Rects /\ Theme[o].to \in Rects
    BY ObjectTypes DEF ThemeObjects
  <1>3. rect_bnd(Theme[o].from, Theme[o].to) \in Rects
    BY <1>2 DEF rect_bnd, Rects, Smaller, Larger
  <1> QED BY <1>1, <1>3, SanitizeOnScreen, AtTypes DEF NewBnd

\* A theme just loaded satisfies the inductive invariant.
LEMMA InitIInv == Init => IInv
  <1> SUFFICES ASSUME Init PROVE IInv
    OBVIOUS
  <1>1. BlitTypeOK
    BY DEF Init, BlitInit, BlitTypeOK
  <1>2. 0 \in 0..PMax /\ 0 \in 0..MaxRequests
    BY PaintingAssumption
  <1>3. bnd \in [Objs -> Rects] /\ curr \in [Objs -> [re : Rects, tint : 0..PMax, attr : BOOLEAN]]
    BY <1>2, BndTypes, NewTypes DEF Init
  <1>4. DOMAIN buf = Cells /\ DOMAIN fb = Cells
    BY DEF Init
  <1>5. pos \in -Len(Theme)..Len(Theme) + 1
    BY ObjNumbers DEF Init
  <1>6. visible \in [Objs -> BOOLEAN] /\ invalid \in [Objs -> BOOLEAN]
    BY DEF Init
  <1>7. TypeOK
    BY <1>1, <1>2, <1>3, <1>4, <1>5, <1>6 DEF Init, TypeOK
  <1>8. UnshownIsCovered
    BY DEF Init, UnshownIsCovered
  <1> QED BY <1>7, <1>8 DEF IInv, WhenNormalizing, PassedApart, Init, BlitInit

\* Each action keeps the types.
LEMMA TypeStep == TypeOK /\ WhenNormalizing /\ [Next]_vars => TypeOK'
  <1> SUFFICES ASSUME TypeOK, WhenNormalizing, [Next]_vars PROVE TypeOK'
    OBVIOUS
  <1> USE ObjNumbers
  <1>0. ObjTypeOK
    BY DEF TypeOK, ObjTypeOK
  <1>1. ASSUME NEW o \in Objs, NEW new \in TakenForNew(o), Prerender(o, new) PROVE TypeOK'
    <2>1. BlitAll(blit, MarkedBy(o, force \/ new)) \in Seq(ScreenRects)
      BY <1>0, MarkTypes, BlitAllTypes DEF TypeOK, BlitTypeOK
    <2>2. i = 0 /\ j = 0 /\ i' = 0 /\ j' = 0
      BY <1>1 DEF Prerender, WhenNormalizing, TypeOK, BlitTypeOK
    <2>3. BlitTypeOK'
      BY <1>1, <2>1, <2>2 DEF Prerender, BlitTypeOK
    <2>4. At[o][progress] \in [re : Rects, tint : 0..PMax, attr : BOOLEAN]
      BY AtTypes DEF TypeOK
    <2>5. bnd' \in [Objs -> Rects] /\ curr' \in [Objs -> [re : Rects, tint : 0..PMax, attr : BOOLEAN]]
      BY <1>1, <2>4 DEF Prerender, TypeOK
    <2> QED BY <1>1, <2>3, <2>5 DEF Prerender, TypeOK, imageVars
  <1>2. ASSUME NEW o \in Objs, Validate(o) PROVE TypeOK'
    <2>1. BlitTypeOK'
      BY <1>2 DEF Validate, TypeOK, BlitTypeOK, blitVars
    <2>2. /\ invalid' \in [Objs -> BOOLEAN] /\ pos' \in -Len(Theme)..Len(Theme) + 1
          /\ missed' \subseteq Objs /\ late' \subseteq Objs
      BY <1>2 DEF Validate, TypeOK
    <2> QED BY <1>2, <2>1, <2>2 DEF Validate, TypeOK, imageVars
  <1>3. ASSUME NEW o \in Objs, SkipValid(o) PROVE TypeOK'
    <2>1. BlitTypeOK'
      BY <1>3 DEF SkipValid, TypeOK, BlitTypeOK, blitVars
    <2>2. pos' \in -Len(Theme)..Len(Theme) + 1
      BY <1>3 DEF SkipValid
    <2> QED BY <1>3, <2>1, <2>2 DEF SkipValid, TypeOK, objVars, imageVars, histVars
  <1>4. CASE Normalize
    <2>1. BlitTypeOK'
      <3>1. CASE blit = <<>>
        BY <1>4, <3>1 DEF Normalize, TypeOK, BlitTypeOK, blitVars
      <3>2. CASE blit # <<>>
        BY <1>4, <3>2, NormalizeTypes DEF Normalize, TypeOK, blit_normalize
      <3> QED BY <3>1, <3>2
    <2> QED BY <1>4, <2>1 DEF Normalize, TypeOK, objVars, imageVars, histVars
  <1>5. CASE Normalizing
    <2>1. BlitTypeOK'
      BY <1>5, NormalizeTypes DEF Normalizing, TypeOK, blit_normalize
    <2> QED BY <1>5, <2>1 DEF Normalizing, TypeOK, objVars, imageVars, histVars
  <1>6. CASE Render
    BY <1>6 DEF Render, TypeOK, BlitTypeOK, blitVars, objVars, histVars
  <1>7. CASE PaintImg
    <2>1. BlitTypeOK'
      BY <1>7 DEF PaintImg, TypeOK, BlitTypeOK, WhenNormalizing
    <2> QED BY <1>7, <2>1 DEF PaintImg, TypeOK, objVars
  <1>8. CASE PutImg
    BY <1>8 DEF PutImg, TypeOK, BlitTypeOK, blitVars, objVars
  <1>9. CASE CmdPaint
    BY <1>9 DEF CmdPaint, TypeOK, BlitTypeOK, blitVars, objVars, imageVars, histVars
  <1>10. CASE CmdRepaint
    BY <1>10 DEF CmdRepaint, TypeOK, BlitTypeOK, blitVars, histVars
  <1>11. CASE SetTheme
    <2>1. BlitTypeOK'
      BY <1>11 DEF SetTheme, TypeOK, BlitTypeOK, WhenNormalizing
    <2>2. bnd' \in [Objs -> Rects] /\ curr' \in [Objs -> [re : Rects, tint : 0..PMax, attr : BOOLEAN]]
      BY <1>11, BndTypes, NewTypes DEF SetTheme, NewTheme, TypeOK
    <2>3. requests' \in 0..MaxRequests
      BY <1>11, PaintingAssumption DEF SetTheme, Request, TypeOK
    <2> QED BY <1>11, <2>1, <2>2, <2>3 DEF SetTheme, NewTheme, TypeOK
  <1>12. ASSUME NEW p \in 0..PMax, Progress(p) PROVE TypeOK'
    <2>1. BlitTypeOK'
      BY <1>12 DEF Progress, TypeOK, BlitTypeOK, blitVars
    <2>2. requests' \in 0..MaxRequests
      BY <1>12, PaintingAssumption DEF Progress, Request, TypeOK
    <2>3. /\ invalid' \in [Objs -> BOOLEAN] /\ late' \subseteq Objs
      BY <1>12 DEF Progress, TypeOK
    <2> QED BY <1>12, <2>1, <2>2, <2>3 DEF Progress, TypeOK, imageVars
  <1>13. ASSUME NEW o \in Objs, Switch(o) PROVE TypeOK'
    <2>1. BlitTypeOK'
      <3>1. CASE visible[o]
        <4>1. rect_sanitize(bnd[o]) \in ScreenRects
          BY SanitizeOnScreen DEF TypeOK
        <4>2. blit' = Append(blit, rect_sanitize(bnd[o])) /\ i = 0 /\ j = 0 /\ i' = 0 /\ j' = 0
          BY <1>13, <3>1 DEF Switch, BlitAdd, blit_add, TypeOK, BlitTypeOK
        <4> QED BY <4>1, <4>2 DEF TypeOK, BlitTypeOK
      <3>2. CASE ~visible[o]
        BY <1>13, <3>2 DEF Switch, TypeOK, BlitTypeOK, blitVars
      <3> QED BY <3>1, <3>2
    <2>2. requests' \in 0..MaxRequests
      BY <1>13, PaintingAssumption DEF Switch, Request, TypeOK
    <2>3. visible' \in [Objs -> BOOLEAN] /\ invalid' \in [Objs -> BOOLEAN] /\ unseen' \subseteq Objs
      BY <1>13 DEF Switch, TypeOK
    <2> QED BY <1>13, <2>1, <2>2, <2>3 DEF Switch, TypeOK, imageVars
  <1>14. ASSUME NEW a \in PaintRects, PaintRect(a) PROVE TypeOK'
    <2>1. BlitTypeOK'
      BY <1>14 DEF PaintRect, TypeOK, BlitTypeOK, blitVars
    <2>2. requests' \in 0..MaxRequests
      BY <1>14, PaintingAssumption DEF PaintRect, Request, TypeOK
    <2> QED BY <1>14, <2>1, <2>2 DEF PaintRect, TypeOK, objVars, histVars
  <1>15. CASE UNCHANGED vars
    BY <1>15 DEF vars, TypeOK, BlitTypeOK, blitVars, objVars, imageVars, histVars
  <1> QED BY <1>1, <1>2, <1>3, <1>4, <1>5, <1>6, <1>7, <1>8, <1>9, <1>10, <1>11, <1>12,
             <1>13, <1>14, <1>15 DEF Next, Painter, FirstPass

\* Only the actions of blit_normalize touch its pointers, and they run in the
\* state named after it.
LEMMA PointersStep == TypeOK /\ WhenNormalizing /\ [Next]_vars => WhenNormalizing'
  <1> SUFFICES ASSUME TypeOK, WhenNormalizing, [Next]_vars PROVE WhenNormalizing'
    OBVIOUS
  <1> USE DEF WhenNormalizing
  <1>1. CASE FirstPass
    BY <1>1 DEF FirstPass, Prerender, Validate, SkipValid, blitVars
  <1>2. CASE Normalize
    BY <1>2 DEF Normalize, NormalizeBegin, blitVars
  <1>3. CASE Normalizing
    <2>1. i > 0 /\ i \in Int
      BY <1>3 DEF Normalizing, TypeOK, BlitTypeOK
    <2> QED BY <1>3, <2>1 DEF Normalizing, NormalizeStep, DropContained, ReplaceContained,
                              NextInner, NextOuter, NormalizeEnd
  <1>4. CASE Render \/ PaintImg \/ PutImg
    BY <1>4 DEF Render, PaintImg, PutImg, blitVars
  <1>5. CASE CmdPaint \/ CmdRepaint \/ SetTheme
    BY <1>5 DEF CmdPaint, CmdRepaint, SetTheme, blitVars
  <1>6. ASSUME NEW p \in 0..PMax, Progress(p) PROVE WhenNormalizing'
    BY <1>6 DEF Progress, blitVars
  <1>7. ASSUME NEW o \in Objs, Switch(o) PROVE WhenNormalizing'
    BY <1>7 DEF Switch, BlitAdd, blitVars
  <1>8. ASSUME NEW a \in PaintRects, PaintRect(a) PROVE WhenNormalizing'
    BY <1>8 DEF PaintRect, blitVars
  <1>9. CASE UNCHANGED vars
    BY <1>9 DEF vars, blitVars
  <1> QED BY <1>1, <1>2, <1>3, <1>4, <1>5, <1>6, <1>7, <1>8, <1>9 DEF Next, Painter

\* While blit_normalize runs, a step is one of its rounds, or leaves list and
\* pointers alone ('progress').
LEMMA OnlyNormalize ==
  ASSUME TypeOK, WhenNormalizing, [Next]_vars, i > 0
  PROVE  blit_normalize \/ UNCHANGED blitVars
  <1>1. pc = "normalize"
    BY DEF WhenNormalizing
  <1> QED BY <1>1 DEF Next, Painter, FirstPass, Prerender, Validate, SkipValid, Normalize,
          Normalizing, Render, PaintImg, PutImg, CmdPaint, CmdRepaint, SetTheme, Progress,
          Switch, PaintRect, blit_normalize, vars

\* Every step of blit_normalize leaves the pairs it has passed apart, and
\* nothing else runs while it walks the list.
LEMMA PassedStep == IInv /\ [Next]_vars => PassedApart'
  <1> SUFFICES ASSUME IInv, [Next]_vars PROVE PassedApart'
    OBVIOUS
  <1>1. CASE i > 0
    <2>1. blit_normalize \/ UNCHANGED blitVars
      BY <1>1, OnlyNormalize DEF IInv
    <2>2. CASE blit_normalize
      BY <2>2, NormalizePassed DEF IInv, TypeOK
    <2>3. CASE UNCHANGED blitVars
      BY <2>3 DEF IInv, PassedApart, Apart, blitVars
    <2> QED BY <2>1, <2>2, <2>3
  <1>2. CASE i = 0
    <2>1. CASE Normalize
      <3>1. CASE NormalizeBegin
        BY <3>1, NormalizePassed DEF IInv, TypeOK, blit_normalize
      <3>2. CASE UNCHANGED blitVars
        BY <1>2, <3>2 DEF PassedApart, blitVars
      <3> QED BY <2>1, <3>1, <3>2 DEF Normalize
    <2>2. CASE ~Normalize
      <3>1. pc # "normalize"
        BY <1>2 DEF IInv, WhenNormalizing
      <3>2. i' = 0
        BY <1>2, <2>2, <3>1 DEF Next, Painter, FirstPass, Prerender, Validate, SkipValid,
           Normalizing, Render, PaintImg, PutImg, CmdPaint, CmdRepaint, SetTheme, Progress,
           Switch, BlitAdd, PaintRect, vars, blitVars
      <3> QED BY <3>2 DEF PassedApart
    <2> QED BY <2>1, <2>2
  <1>3. i > 0 \/ i = 0
    BY DEF IInv, TypeOK, BlitTypeOK
  <1> QED BY <1>1, <1>2, <1>3

\* Only Render changes what the screen has not, and only where paint_img will
\* copy it.
LEMMA BufferStep == UnshownIsCovered /\ [Next]_vars => UnshownIsCovered'
  <1> SUFFICES ASSUME UnshownIsCovered, [Next]_vars PROVE UnshownIsCovered'
    OBVIOUS
  <1> USE DEF UnshownIsCovered
  <1>1. ASSUME UNCHANGED <<imageVars, force, reloaded>>, pc # "copy", pc' = "idle" => pc = "idle"
        PROVE  UnshownIsCovered'
    BY <1>1 DEF imageVars
  <1>2. CASE FirstPass \/ Normalize \/ Normalizing
    <2>1. pc \in {"mark", "normalize"} /\ pc' # "idle" /\ UNCHANGED <<imageVars, force, reloaded>>
      BY <1>2 DEF FirstPass, Prerender, Validate, SkipValid, Normalize, Normalizing, histVars
    <2> QED BY <1>1, <2>1
  <1>3. CASE Render
    BY <1>3 DEF Render, blitVars, histVars
  <1>4. CASE PaintImg
    <2>1. fb' = [c \in Cells |-> IF c \in Covered(blit) THEN buf[c] ELSE fb[c]] /\ buf' = buf
          /\ reloaded' = reloaded /\ force' = force /\ ~force
      BY <1>4 DEF PaintImg
    <2> QED BY <2>1
  <1>5. CASE PutImg
    BY <1>5 DEF PutImg
  <1>6. CASE CmdPaint
    BY <1>1, <1>6 DEF CmdPaint, histVars
  <1>7. CASE CmdRepaint
    BY <1>7 DEF CmdRepaint
  <1>8. CASE SetTheme
    BY <1>8 DEF SetTheme
  <1>9. ASSUME NEW p \in 0..PMax, Progress(p) PROVE UnshownIsCovered'
    BY <1>9 DEF Progress, imageVars, blitVars
  <1>10. ASSUME NEW o \in Objs, Switch(o) PROVE UnshownIsCovered'
    BY <1>1, <1>10 DEF Switch
  <1>11. ASSUME NEW a \in PaintRects, PaintRect(a) PROVE UnshownIsCovered'
    <2>1. PICK A : fb' = [c \in Cells |-> IF c \in A THEN buf[c] ELSE fb[c]]
      BY <1>11 DEF PaintRect
    <2>2. buf' = buf /\ force' = force /\ reloaded' = reloaded /\ pc = "idle" /\ pc' = "mark"
      BY <1>11 DEF PaintRect, histVars
    <2> QED BY <2>1, <2>2
  <1>12. CASE UNCHANGED vars
    BY <1>12 DEF vars, imageVars, histVars, blitVars
  <1> QED BY <1>2, <1>3, <1>4, <1>5, <1>6, <1>7, <1>8, <1>9, <1>10, <1>11, <1>12 DEF Next, Painter

-----------------------------------------------------------------------------
(* What the marks of an object cover                                       *)

\* rect_sanitize keeps what is on the screen.
LEMMA SanitizeKeeps ==
  ASSUME NEW a \in Rects
  PROVE  Area(a) \subseteq Area(rect_sanitize(a))
  <1> SUFFICES ASSUME NEW c \in Cells, In(a, c) PROVE In(rect_sanitize(a), c)
    BY DEF Area
  <1>1. c[1] \in 0..XRes-1 /\ c[2] \in 0..YRes-1 /\ XRes \in Nat \ {0} /\ YRes \in Nat \ {0}
    BY ScreenAssumption DEF Cells
  <1>2. \A v \in Int, x \in Int, res \in Nat \ {0} :
          x \in 0..res-1 => (v <= x => Clamp(v, res) <= x) /\ (x <= v => x <= Clamp(v, res))
    BY DEF Clamp
  <1>3. a.x1 \in Int /\ a.y1 \in Int /\ a.x2 \in Int /\ a.y2 \in Int
    BY DEF Rects
  <1>4. a.x1 <= c[1] /\ c[1] <= a.x2 /\ a.y1 <= c[2] /\ c[2] <= a.y2
    BY DEF In
  <1>5. /\ Clamp(a.x1, XRes) <= c[1] /\ c[1] <= Clamp(a.x2, XRes)
        /\ Clamp(a.y1, YRes) <= c[2] /\ c[2] <= Clamp(a.y2, YRes)
    BY <1>1, <1>2, <1>3, <1>4
  <1> QED BY <1>5 DEF In, rect_sanitize

\* A list to which rectangles were added covers what it covered, and them.
LEMMA AllCovered ==
  ASSUME NEW list \in Seq(ScreenRects), NEW rects \in Seq(Rects)
  PROVE  Covered(list) \union Covered(rects) \subseteq Covered(BlitAll(list, rects))
  <1> DEFINE more == [n \in DOMAIN rects |-> rect_sanitize(rects[n])]
  <1>1. /\ more \in Seq(ScreenRects) /\ Len(more) = Len(rects)
        /\ \A n \in 1..Len(rects) : more[n] = rect_sanitize(rects[n])
    BY SanitizeOnScreen
  <1>2. BlitAll(list, rects) = list \o more
    BY DEF BlitAll
  <1> HIDE DEF more
  <1>3. list \o more \in Seq(ScreenRects) /\ Len(list \o more) = Len(list) + Len(rects)
    BY <1>1
  <1>4. ASSUME NEW c \in Covered(list) PROVE c \in Covered(list \o more)
    <2>1. PICK n \in 1..Len(list) : c \in Area(list[n])
      BY CoveredAt
    <2>2. n \in 1..Len(list \o more) /\ (list \o more)[n] = list[n]
      BY <1>1, <1>3
    <2> QED BY <1>3, <2>1, <2>2, CoveredAt
  <1>5. ASSUME NEW c \in Covered(rects) PROVE c \in Covered(list \o more)
    <2>1. PICK n \in 1..Len(rects) : c \in Area(rects[n])
      BY CoveredAt
    <2>2. Len(list) + n \in 1..Len(list \o more) /\ (list \o more)[Len(list) + n] = more[n]
      BY <1>1, <1>3
    <2>3. c \in Area(more[n])
      BY <1>1, <2>1, SanitizeKeeps
    <2> QED BY <1>3, <2>2, <2>3, CoveredAt
  <1> QED BY <1>2, <1>4, <1>5

\* What one more rectangle adds.
LEMMA AppendCovers ==
  ASSUME NEW S, NEW s \in Seq(S), NEW a \in S
  PROVE  Covered(Append(s, a)) = Covered(s) \union Area(a)
  <1>1. /\ Append(s, a) \in Seq(S) /\ Len(Append(s, a)) = Len(s) + 1
        /\ \A n \in 1..Len(s) : Append(s, a)[n] = s[n]
        /\ Append(s, a)[Len(s) + 1] = a
    OBVIOUS
  <1>2. \A c : c \in Covered(Append(s, a)) <=> c \in Covered(s) \/ c \in Area(a)
    <2> TAKE c
    <2>1. c \in Covered(s) <=> \E n \in 1..Len(s) : c \in Area(s[n])
      BY CoveredAt
    <2>2. c \in Covered(Append(s, a)) <=> \E n \in 1..Len(s) + 1 : c \in Area(Append(s, a)[n])
      BY <1>1, CoveredAt
    <2>3. \A n \in 1..Len(s) + 1 : n \in 1..Len(s) \/ n = Len(s) + 1
      OBVIOUS
    <2>4. 1..Len(s) \subseteq 1..Len(s) + 1 /\ Len(s) + 1 \in 1..Len(s) + 1
      OBVIOUS
    <2> QED BY <1>1, <2>1, <2>2, <2>3, <2>4
  <1> QED BY <1>2

\* The areas of one rectangle, and of two.
LEMMA OneTwo ==
  ASSUME NEW a, NEW b
  PROVE  Covered(<<a>>) = Area(a) /\ Covered(<<a, b>>) = Area(a) \union Area(b)
  <1>1. Range(<<a>>) = {a} /\ Range(<<a, b>>) = {a, b}
    BY DEF Range
  <1> QED BY <1>1 DEF Covered

\* Two lists of one item make one of two.
LEMMA TwoItems ==
  ASSUME NEW S, NEW a \in S, NEW b \in S
  PROVE  <<a>> \o <<b>> = <<a, b>>
  <1>1. <<a>> \in Seq(S) /\ <<b>> \in Seq(S) /\ <<a, b>> \in Seq(S)
    OBVIOUS
  <1>2. Len(<<a>> \o <<b>>) = 2 /\ (<<a>> \o <<b>>)[1] = a /\ (<<a>> \o <<b>>)[2] = b
    BY <1>1
  <1>3. <<a>> \o <<b>> \in Seq(S) /\ <<a>> \o <<b>> = [n \in 1..2 |-> (<<a>> \o <<b>>)[n]]
    BY <1>1, <1>2
  <1>4. <<a, b>> = [n \in 1..2 |-> IF n = 1 THEN a ELSE b]
    OBVIOUS
  <1> DEFINE w == <<a>> \o <<b>>
  <1>5. \A n \in 1..2 : w[n] = IF n = 1 THEN a ELSE b
    BY <1>2
  <1>6. w = [n \in 1..2 |-> w[n]]
    BY <1>3
  <1> HIDE DEF w
  <1>7. [n \in 1..2 |-> w[n]] = [n \in 1..2 |-> IF n = 1 THEN a ELSE b]
    BY <1>5
  <1> QED BY <1>4, <1>6, <1>7 DEF w

\* A fixed object never changes.
FixedAsIs ==
  \A o \in Objs : ~DependsOnProgress(o) => curr[o] = At[o][progress] /\ bnd[o] = At[o][progress].re

\* In cell c, drawing the object would leave the screen as it is wanted.
Agrees(o, c) ==
  /\ In(bnd[o], c) <=> In(At[o][progress].re, c)
  /\ In(bnd[o], c) => Layer(o, curr[o]) = Layer(o, At[o][progress])

\* The layers of a cell, object by object.
LEMMA LayersAre ==
  ASSUME NEW c
  PROVE  /\ Drawn(c) = {Layer(o, curr[o]) : o \in {x \in Objs : visible[x] /\ In(bnd[x], c)}}
         /\ Wanted(c) = {Layer(o, At[o][progress]) :
                           o \in {x \in Objs : visible[x] /\ In(At[x][progress].re, c)}}
  BY DEF Drawn, Wanted, Layers

\* Where all that is visible agrees, the second pass draws what is wanted.
LEMMA DrawnAsWanted ==
  ASSUME NEW c, \A o \in Objs : visible[o] => Agrees(o, c)
  PROVE  Drawn(c) = Wanted(c)
  BY LayersAre DEF Agrees

\* Marked as a whole, as all but graded bars always are: the place an object
\* leaves and the one it takes.
LEMMA WholeMarks ==
  ASSUME ObjTypeOK, FixedAsIs, NEW o \in Objs, visible[o], NEW whole \in BOOLEAN, ~Skipped(o, whole),
         whole \/ Theme[o].kind \notin Graded
  PROVE  Area(bnd[o]) \union Area(At[o][progress].re) \subseteq Covered(MarkedBy(o, whole))
  <1> DEFINE new == At[o][progress]
  <1>1. new.re \in Rects /\ bnd[o] \in Rects
    BY AtTypes DEF ObjTypeOK
  <1>2. Theme[o].kind \in Kinds
    BY ObjectTypes DEF ThemeObjects
  <1>3. MarkedBy(o, whole) = Marks(o, new, whole)
    BY DEF MarkedBy
  <1>8. /\ Covered(<<new.re>>) = Area(new.re) /\ Covered(<<bnd[o]>>) = Area(bnd[o])
        /\ Covered(<<bnd[o], new.re>>) = Area(bnd[o]) \union Area(new.re)
        /\ Covered(<<new.re, bnd[o]>>) = Area(bnd[o]) \union Area(new.re)
    BY OneTwo
  <1>4. CASE Theme[o].kind \in Bars
    <2>1. whole \/ Theme[o].kind = "mixed"
      BY <1>4 DEF Bars
    <2>2. Marks(o, new, whole) = BarMarks(o, new, whole)
      BY <1>4 DEF Marks, Bars, Graded
    <2>3. BarMarks(o, new, whole) = IF new.re # bnd[o] THEN <<bnd[o], new.re>> ELSE <<new.re>>
      BY <2>1 DEF BarMarks, Graded
    <2> HIDE DEF new
    <2>4. CASE new.re # bnd[o]
      <3>1. MarkedBy(o, whole) = <<bnd[o], new.re>>
        BY <1>3, <2>2, <2>3, <2>4
      <3> QED BY <1>8, <3>1 DEF new
    <2>5. CASE new.re = bnd[o]
      <3>1. MarkedBy(o, whole) = <<new.re>>
        BY <1>3, <2>2, <2>3, <2>5
      <3> QED BY <1>8, <2>5, <3>1 DEF new
    <2> QED BY <2>4, <2>5
  <1>5. CASE Theme[o].kind = "crop"
    <2>1. MarkedBy(o, whole) = <<bnd[o], new.re>>
      BY <1>3, <1>5 DEF Marks, Bars, Graded
    <2> QED BY <1>8, <2>1
  <1>6. CASE Theme[o].kind = "text"
    <2>1. MarkedBy(o, whole) = <<new.re, bnd[o]>>
      BY <1>3, <1>6 DEF Marks, Bars, Graded
    <2> QED BY <1>8, <2>1
  <1>7. CASE Theme[o].kind = "fixed"
    <2>1. MarkedBy(o, whole) = <<bnd[o]>> /\ bnd[o] = new.re
      BY <1>3, <1>7 DEF Marks, Bars, Graded, FixedAsIs, DependsOnProgress
    <2> QED BY <1>8, <2>1
  <1> QED BY <1>2, <1>4, <1>5, <1>6, <1>7 DEF Kinds

\* Two intervals that start or end at different places: a point of only one of
\* them lies in the strip between the starts or in that between the ends.
LEMMA StripsCover ==
  ASSUME NEW a1 \in Int, NEW a2 \in Int, NEW b1 \in Int, NEW b2 \in Int, NEW x \in Int,
         ~ (a1 <= x /\ x <= a2 <=> b1 <= x /\ x <= b2)
  PROVE  \E n \in 1..Len(Strips(a1, a2, b1, b2)) :
           Strips(a1, a2, b1, b2)[n][1] <= x /\ x <= Strips(a1, a2, b1, b2)[n][2]
  <1> DEFINE p == <<Smaller(a1, b1), Larger(a1, b1)>>
             q == <<Smaller(a2, b2), Larger(a2, b2)>>
             between(s) == s[1] <= x /\ x <= s[2]
  <1>1. \/ a1 # b1 /\ between(p)
        \/ a2 # b2 /\ between(q)
    BY DEF Smaller, Larger
  <1>0. p \in Int \X Int /\ q \in Int \X Int
    BY DEF Smaller, Larger
  <1>2. Strips(a1, a2, b1, b2) = (IF a1 # b1 THEN <<p>> ELSE <<>>) \o (IF a2 # b2 THEN <<q>> ELSE <<>>)
    BY DEF Strips
  <1> HIDE DEF p, q
  <1>3. CASE a1 # b1 /\ a2 # b2
    <2>1. Strips(a1, a2, b1, b2) = <<p>> \o <<q>>
      BY <1>2, <1>3
    <2>2. Strips(a1, a2, b1, b2) = <<p, q>>
      BY <1>0, <2>1, TwoItems
    <2>3. \E n \in 1..2 : between(<<p, q>>[n])
      BY <1>1
    <2> QED BY <2>2, <2>3
  <1>4. CASE a1 # b1 /\ a2 = b2
    <2>1. Strips(a1, a2, b1, b2) = <<p>>
      BY <1>2, <1>4
    <2> QED BY <1>1, <1>4, <2>1
  <1>5. CASE a1 = b1 /\ a2 # b2
    <2>1. Strips(a1, a2, b1, b2) = <<q>>
      BY <1>2, <1>5
    <2> QED BY <1>1, <1>5, <2>1
  <1> QED BY <1>1, <1>3, <1>4, <1>5

\* Marked in strips: the strips take in every cell in which a bar that is drawn
\* as it was prerendered last does not agree with what is wanted.
LEMMA StripMarks ==
  ASSUME ObjTypeOK, NEW o \in Objs, visible[o], NEW whole \in BOOLEAN, ~Skipped(o, whole),
         ~whole, Theme[o].kind \in Bars,
         bnd[o] = curr[o].re, NEW c \in Cells, ~Agrees(o, c)
  PROVE  c \in Covered(MarkedBy(o, whole))
  <1> DEFINE new == At[o][progress]
             old == curr[o].re
             re  == new.re
             kind == Theme[o].kind
             h == Strips(old.x1, old.x2, re.x1, re.x2)
             v == Strips(old.y1, old.y2, re.y1, re.y2)
             columns == [n \in DOMAIN h |-> [x1 |-> h[n][1], y1 |-> re.y1, x2 |-> h[n][2], y2 |-> re.y2]]
             rows    == [n \in DOMAIN v |-> [x1 |-> re.x1, y1 |-> v[n][1], x2 |-> re.x2, y2 |-> v[n][2]]]
  <1>1. re \in Rects /\ old \in Rects
    BY AtTypes DEF ObjTypeOK
  <1>2. MarkedBy(o, whole) = BarMarks(o, new, whole)
    BY DEF MarkedBy, Marks, Bars, Graded
  <1>3. \/ /\ kind \in {"solid", "vgrad"} /\ old.y1 = re.y1 /\ old.y2 = re.y2
           /\ BarMarks(o, new, whole) = columns
        \/ /\ kind \in {"solid", "hgrad"} /\ old.x1 = re.x1 /\ old.x2 = re.x2
           /\ BarMarks(o, new, whole) = rows
        \/ BarMarks(o, new, whole) = IF re # bnd[o] THEN <<bnd[o], re>> ELSE <<re>>
    <2> DEFINE first  == ~whole /\ kind \in {"solid", "vgrad"} /\ old.y1 = re.y1 /\ old.y2 = re.y2
               second == ~whole /\ kind \in {"solid", "hgrad"} /\ old.x1 = re.x1 /\ old.x2 = re.x2
               rest   == IF re # bnd[o] THEN <<bnd[o], re>> ELSE <<re>>
    <2>1. BarMarks(o, new, whole) = CASE first -> columns [] second -> rows [] OTHER -> rest
      BY DEF BarMarks, MapSeq
    <2> HIDE DEF columns, rows, rest
    <2>2. \/ first /\ BarMarks(o, new, whole) = columns
          \/ second /\ BarMarks(o, new, whole) = rows
          \/ BarMarks(o, new, whole) = rest
      <3> HIDE DEF first, second
      <3> QED BY <2>1
    <2> QED BY <2>2 DEF rest
  <1>4. MarkedBy(o, whole) \in Seq(Rects)
    BY MarkTypes
  <1>5. In(old, c) \/ In(re, c)
    BY DEF Agrees
  <1>6. (In(old, c) <=> In(re, c)) => Layer(o, curr[o]) # Layer(o, new)
    BY DEF Agrees
  <1> HIDE DEF new, h, v
  <1>7. /\ re.x1 \in Int /\ re.y1 \in Int /\ re.x2 \in Int /\ re.y2 \in Int
        /\ old.x1 \in Int /\ old.y1 \in Int /\ old.x2 \in Int /\ old.y2 \in Int
        /\ c[1] \in Int /\ c[2] \in Int
    BY <1>1, ScreenAssumption DEF Rects, Cells
  <1>8. h \in Seq(Int \X Int) /\ v \in Seq(Int \X Int)
    BY <1>7, StripTypes DEF h, v
  <1>9. CASE /\ kind \in {"solid", "vgrad"} /\ old.y1 = re.y1 /\ old.y2 = re.y2
             /\ BarMarks(o, new, whole) = columns
    <2>1. Layer(o, curr[o]) = Layer(o, new)
      BY <1>9 DEF Layer
    <2>2. ~ (old.x1 <= c[1] /\ c[1] <= old.x2 <=> re.x1 <= c[1] /\ c[1] <= re.x2)
          /\ re.y1 <= c[2] /\ c[2] <= re.y2
      BY <1>5, <1>6, <1>9, <2>1 DEF In
    <2>3. PICK n \in 1..Len(h) : h[n][1] <= c[1] /\ c[1] <= h[n][2]
      BY <1>7, <2>2, StripsCover DEF h
    <2>4. n \in 1..Len(columns) /\ In(columns[n], c)
      BY <1>8, <2>2, <2>3 DEF In
    <2> HIDE DEF columns
    <2> QED BY <1>2, <1>4, <1>9, <2>4, CoveredAt DEF Area
  <1>10. CASE /\ kind \in {"solid", "hgrad"} /\ old.x1 = re.x1 /\ old.x2 = re.x2
              /\ BarMarks(o, new, whole) = rows
    <2>1. Layer(o, curr[o]) = Layer(o, new)
      BY <1>10 DEF Layer
    <2>2. ~ (old.y1 <= c[2] /\ c[2] <= old.y2 <=> re.y1 <= c[2] /\ c[2] <= re.y2)
          /\ re.x1 <= c[1] /\ c[1] <= re.x2
      BY <1>5, <1>6, <1>10, <2>1 DEF In
    <2>3. PICK n \in 1..Len(v) : v[n][1] <= c[2] /\ c[2] <= v[n][2]
      BY <1>7, <2>2, StripsCover DEF v
    <2>4. n \in 1..Len(rows) /\ In(rows[n], c)
      BY <1>8, <2>2, <2>3 DEF In
    <2> HIDE DEF rows
    <2> QED BY <1>2, <1>4, <1>10, <2>4, CoveredAt DEF Area
  <1>11. CASE BarMarks(o, new, whole) = IF re # bnd[o] THEN <<bnd[o], re>> ELSE <<re>>
    <2>1. c \in Area(bnd[o]) \union Area(re)
      BY <1>5 DEF Area
    <2>2. CASE re # bnd[o]
      <3>1. Covered(<<bnd[o], re>>) = Area(bnd[o]) \union Area(re)
        BY OneTwo
      <3> QED BY <1>2, <1>11, <2>1, <2>2, <3>1
    <2>3. CASE re = bnd[o]
      <3>1. Covered(<<re>>) = Area(re)
        BY OneTwo
      <3> QED BY <1>2, <1>11, <2>1, <2>3, <3>1
    <2> QED BY <2>2, <2>3
  <1> QED BY <1>3, <1>9, <1>10, <1>11

\* Whatever an object that is prerendered would leave wrong on the screen, it
\* marks, if its bounding rectangle is that of its contents or it is marked as a
\* whole.
LEMMA MarksSuffice ==
  ASSUME ObjTypeOK, FixedAsIs, NEW o \in Objs, visible[o], NEW whole \in BOOLEAN, ~Skipped(o, whole),
         whole \/ bnd[o] = curr[o].re, NEW c \in Cells, ~Agrees(o, c)
  PROVE  c \in Covered(MarkedBy(o, whole))
  <1>1. CASE whole \/ Theme[o].kind \notin Bars
    <2>1. c \in Area(bnd[o]) \union Area(At[o][progress].re)
      BY DEF Agrees, Area
    <2>2. whole \/ Theme[o].kind \notin Graded
      BY <1>1 DEF Bars
    <2> QED BY <2>1, <2>2, WholeMarks
  <1>2. CASE ~whole /\ Theme[o].kind \in Bars
    BY <1>2, StripMarks
  <1> QED BY <1>1, <1>2 DEF Bars

-----------------------------------------------------------------------------
(* What the screen, the buffer and the marks have to do with the objects   *)

\* The object will be prerendered by the paint now under way, or the next one.
Todo(o) == invalid[o] /\ Pending(o)

\* A bar that was never prerendered: its bounding rectangle is that of all it may
\* grow to, and its contents do not have the gradient among their attributes.
Fresh(o) == Theme[o].kind \in Graded /\ ~curr[o].attr

\* What the second pass draws in cell c, but for such bars.
Known(c) == {Layer(o, curr[o]) : o \in {x \in Objs : visible[x] /\ ~Fresh(x) /\ In(bnd[x], c)}}

\* Once it was repainted, a cell of the screen is as the second pass would draw
\* it, on the list, or under an object shown since.
ScreenIsDrawn ==
  ~reloaded => \A c \in Cells :
    \/ fb[c] = Known(c) \/ c \in Covered(blit)
    \/ \E o \in unseen : ~Fresh(o) /\ c \in Area(bnd[o])

\* A bar that is visible and was never prerendered will be before anything is
\* drawn; one that was is drawn where its contents are.
FreshIsTodo ==
  \A o \in Objs : /\ visible[o] /\ Fresh(o) => Todo(o)
                  /\ Theme[o].kind \in Graded /\ curr[o].attr => bnd[o] = curr[o].re

\* The cleared buffer of a repaint is filled as far as the objects were marked
\* and the list rendered.
BufferIsDrawn ==
  force => \A c \in Cells :
    \/ buf[c] = Drawn(c) \/ (pc # "copy" /\ c \in Covered(blit))
    \/ \E o \in Objs : Todo(o) /\ visible[o] /\ c \in Area(bnd[o])

\* Whatever paint_img will copy is as the second pass would draw it.
ListIsRendered == pc = "copy" => \A c \in Covered(blit) : buf[c] = Drawn(c)

\* An object is drawn where it was prerendered, unless it was not since the
\* theme was loaded.
Settled(o) == bnd[o] = curr[o].re /\ ~Fresh(o)

BoxIsCurrent ==
  \A o \in Objs : visible[o] /\ (force \/ ~reloaded) =>
    Settled(o) \/ (~force /\ o \in unseen) \/ (force /\ Todo(o))

\* An object that is not as it should be is marked for this paint, or for the
\* next one, or its mark was taken away unseen.
ChangesAreMarked ==
  \A o \in Objs : visible[o] /\ curr[o] # At[o][progress] =>
    (invalid[o] /\ (Pending(o) \/ o \in late)) \/ o \in missed

\* Of the objects shown and not drawn since, the fixed ones are still marked.
ShownIsMarked == \A o \in unseen : visible[o] /\ (DependsOnProgress(o) \/ Todo(o))

\* A mark this paint no longer sees was set since, or is about to be removed.
InvalidIsPending == \A o \in Objs : invalid[o] /\ ~Pending(o) => o \in late \/ pos = -o

PassPosition ==
  /\ pc = "idle" => late = {}
  /\ pc = "mark" <=> pos # 0

DInv ==
  /\ FixedAsIs /\ PassPosition
  /\ ScreenIsDrawn /\ BufferIsDrawn /\ ListIsRendered
  /\ FreshIsTodo /\ BoxIsCurrent /\ ChangesAreMarked /\ ShownIsMarked /\ InvalidIsPending

\* The first pass visits the objects in order.
LEMMA PendingIs ==
  ASSUME TypeOK, PassPosition, NEW o \in Objs
  PROVE  /\ pc = "idle" => Pending(o)
         /\ pc \notin {"idle", "mark"} => ~Pending(o)
         /\ pc = "mark" /\ pos = 1 => Pending(o)
         /\ pos = Len(Theme) + 1 => (pc = "mark" /\ ~Pending(o))
  <1>1. o \in 1..Len(Theme) /\ Len(Theme) \in Nat
    BY ObjNumbers
  <1> QED BY <1>1 DEF Pending, PassPosition

\* Objects leave the first pass one by one, when they are prerendered or passed.
LEMMA PendingStep ==
  ASSUME TypeOK, NEW o \in Objs, NEW x \in Objs
  PROVE  /\ \A new \in TakenForNew(o) : Prerender(o, new) =>
              (Pending(x)' <=> Pending(x) /\ x # o) /\ Pending(o)
         /\ Validate(o) => (Pending(x)' <=> Pending(x)) /\ ~Pending(o)
         /\ SkipValid(o) => (Pending(x)' <=> Pending(x) /\ x # o)
  <1>1. o \in 1..Len(Theme) /\ x \in 1..Len(Theme) /\ Len(Theme) \in Nat
    BY ObjNumbers
  <1>2. ASSUME NEW new \in TakenForNew(o), Prerender(o, new)
        PROVE  (Pending(x)' <=> Pending(x) /\ x # o) /\ Pending(o)
    <2>1. pc = "mark" /\ pc' = "mark" /\ pos = o /\ pos' = -o
      BY <1>2 DEF Prerender
    <2> QED BY <1>1, <2>1 DEF Pending
  <1>3. ASSUME Validate(o)
        PROVE  (Pending(x)' <=> Pending(x)) /\ ~Pending(o)
    <2>1. pc = "mark" /\ pc' = "mark" /\ pos = -o /\ pos' = o + 1
      BY <1>3 DEF Validate
    <2> QED BY <1>1, <2>1 DEF Pending
  <1>4. ASSUME SkipValid(o)
        PROVE  Pending(x)' <=> Pending(x) /\ x # o
    <2>1. pc = "mark" /\ pc' = "mark" /\ pos = o /\ pos' = o + 1
      BY <1>4 DEF SkipValid
    <2> QED BY <1>1, <2>1 DEF Pending
  <1> QED BY <1>2, <1>3, <1>4

\* What the second pass draws depends on the objects alone.
LEMMA DrawnKept ==
  ASSUME UNCHANGED <<visible, bnd, curr>>, NEW c
  PROVE  Drawn(c)' = Drawn(c)
  BY DEF Drawn, Layers

\* So does what it draws but for bars that were never prerendered.
LEMMA KnownKept ==
  ASSUME UNCHANGED <<visible, bnd, curr>>, NEW c
  PROVE  Known(c)' = Known(c)
  BY DEF Known, Fresh

\* Once the first pass is over, that is all it draws.
LEMMA DrawnIsKnown ==
  ASSUME NEW c, \A o \in Objs : visible[o] /\ In(bnd[o], c) => ~Fresh(o)
  PROVE  Drawn(c) = Known(c)
  BY LayersAre DEF Known

\* Prerendering an object changes what the second pass draws where the object,
\* as it was, does not agree with what is wanted.
LEMMA DrawnChanges ==
  ASSUME TypeOK, NEW o \in Objs, NEW new \in TakenForNew(o), Prerender(o, new), NEW c \in Cells,
         Drawn(c)' # Drawn(c)
  PROVE  visible[o] /\ ~Skipped(o, force \/ new) /\ DependsOnProgress(o) /\ ~Agrees(o, c)
  <1>1. visible' = visible
    BY DEF Prerender
  <1>2. visible[o] /\ ~Skipped(o, force \/ new) /\ DependsOnProgress(o)
    <2> SUFFICES ASSUME ~(visible[o] /\ ~Skipped(o, force \/ new) /\ DependsOnProgress(o)) PROVE FALSE
      OBVIOUS
    <2>1. UNCHANGED <<visible, bnd, curr>>
      BY <1>1 DEF Prerender
    <2> QED BY <2>1, DrawnKept
  <1>3. /\ curr' = [curr EXCEPT ![o] = At[o][progress]]
        /\ bnd' = [bnd EXCEPT ![o] = At[o][progress].re]
    BY <1>2 DEF Prerender
  <1>4. ASSUME Agrees(o, c) PROVE FALSE
    <2>1. \A x \in Objs : In(bnd'[x], c) <=> In(bnd[x], c)
      BY <1>3, <1>4 DEF Agrees, TypeOK
    <2>2. \A x \in Objs : In(bnd[x], c) => Layer(x, curr'[x]) = Layer(x, curr[x])
      BY <1>3, <1>4 DEF Agrees, TypeOK
    <2>3. Drawn(c)' = {Layer(x, curr'[x]) : x \in {y \in Objs : visible'[y] /\ In(bnd'[y], c)}}
      BY DEF Drawn, Layers
    <2>4. Drawn(c)' = Drawn(c)
      BY <1>1, <2>1, <2>2, <2>3, LayersAre
    <2> QED BY <2>4
  <1> QED BY <1>2, <1>4

\* What was prerendered has the gradient among its attributes.
LEMMA PrerenderedAttr ==
  ASSUME NEW o \in Objs, NEW p \in 0..PMax
  PROVE  /\ Theme[o].kind \in Graded => At[o][p].attr
         /\ Theme[o].kind \notin Graded => ~At[o][p].attr
  BY DEF At

\* The same, but for bars that were never prerendered: the object is one, or does
\* not agree with what is wanted.
LEMMA KnownChanges ==
  ASSUME TypeOK, NEW o \in Objs, NEW new \in TakenForNew(o), Prerender(o, new), NEW c \in Cells,
         Known(c)' # Known(c)
  PROVE  /\ visible[o] /\ ~Skipped(o, force \/ new) /\ DependsOnProgress(o)
         /\ IF Fresh(o) THEN c \in Area(At[o][progress].re) ELSE ~Agrees(o, c)
  <1>1. visible' = visible
    BY DEF Prerender
  <1>2. visible[o] /\ ~Skipped(o, force \/ new) /\ DependsOnProgress(o)
    <2> SUFFICES ASSUME ~(visible[o] /\ ~Skipped(o, force \/ new) /\ DependsOnProgress(o)) PROVE FALSE
      OBVIOUS
    <2>1. UNCHANGED <<visible, bnd, curr>>
      BY <1>1 DEF Prerender
    <2> QED BY <2>1, KnownKept
  <1>3. /\ curr' = [curr EXCEPT ![o] = At[o][progress]]
        /\ bnd' = [bnd EXCEPT ![o] = At[o][progress].re]
    BY <1>2 DEF Prerender
  <1>4. /\ curr'[o] = At[o][progress] /\ bnd'[o] = At[o][progress].re
        /\ \A x \in Objs : x # o => curr'[x] = curr[x] /\ bnd'[x] = bnd[x]
    BY <1>3 DEF TypeOK
  <1>5. ~Fresh(o)' /\ \A x \in Objs : x # o => (Fresh(x)' <=> Fresh(x))
    <2>1. ~Fresh(o)'
      BY <1>4, PrerenderedAttr DEF Fresh, TypeOK
    <2>2. ASSUME NEW x \in Objs, x # o PROVE Fresh(x)' <=> Fresh(x)
      BY <1>4, <2>2 DEF Fresh
    <2> QED BY <2>1, <2>2
  <1>6. Known(c)' = {Layer(x, curr'[x]) : x \in {y \in Objs : visible'[y] /\ ~Fresh(y)' /\ In(bnd'[y], c)}}
    BY DEF Known
  <1> DEFINE in(x)  == visible[x] /\ ~Fresh(x) /\ In(bnd[x], c)
             in2(x) == visible'[x] /\ ~Fresh(x)' /\ In(bnd'[x], c)
  <1>7. \A x \in Objs : x # o => (in2(x) <=> in(x)) /\ Layer(x, curr'[x]) = Layer(x, curr[x])
    BY <1>1, <1>4, <1>5
  <1>8. (in2(o) <=> in(o)) /\ (in(o) => Layer(o, curr'[o]) = Layer(o, curr[o])) => FALSE
    <2> SUFFICES ASSUME in2(o) <=> in(o), in(o) => Layer(o, curr'[o]) = Layer(o, curr[o])
                 PROVE  Known(c)' = Known(c)
      OBVIOUS
    <2>1. \A x \in Objs : (in2(x) <=> in(x)) /\ (in(x) => Layer(x, curr'[x]) = Layer(x, curr[x]))
      BY <1>7
    <2>2. Known(c) = {Layer(x, curr[x]) : x \in {y \in Objs : in(y)}}
      BY DEF Known
    <2>3. Known(c)' = {Layer(x, curr'[x]) : x \in {y \in Objs : in2(y)}}
      BY <1>6
    <2> HIDE DEF in, in2
    <2> QED BY <2>1, <2>2, <2>3
  <1>9. CASE Fresh(o)
    <2>1. ~in(o)
      BY <1>9
    <2>2. in2(o)
      BY <1>8, <2>1
    <2>3. In(bnd'[o], c)
      BY <2>2
    <2> QED BY <1>2, <1>4, <1>9, <2>3 DEF Area
  <1>10. CASE ~Fresh(o)
    BY <1>1, <1>2, <1>4, <1>5, <1>8, <1>10 DEF Agrees
  <1> QED BY <1>2, <1>9, <1>10

\* A fixed object's contents do not depend on the progress.
LEMMA FixedAt ==
  ASSUME NEW o \in Objs, ~DependsOnProgress(o), NEW p \in 0..PMax
  PROVE  At[o][p] = [re |-> rect_sanitize(Theme[o].from), tint |-> 0, attr |-> FALSE]
  <1>1. Theme[o].kind = "fixed"
    BY DEF DependsOnProgress
  <1>2. At[o][p] = [re   |-> Place(o, p),
                    tint |-> IF Theme[o].kind \in {"mixed", "text"} THEN p ELSE 0,
                    attr |-> Theme[o].kind \in Graded]
    BY DEF At
  <1>3. Place(o, p) = rect_sanitize(Theme[o].from)
    BY <1>1 DEF Place
  <1>4. (Theme[o].kind \in Graded) = FALSE /\ Theme[o].kind \notin {"mixed", "text"}
    BY <1>1 DEF Graded
  <1> QED BY <1>2, <1>3, <1>4

\* A fixed object is bounded by its rectangle, brought onto the screen.
LEMMA FixedBnd ==
  ASSUME NEW o \in Objs, ~DependsOnProgress(o), NEW p \in 0..PMax
  PROVE  NewBnd(o, p) = At[o][p].re /\ NewCurr(o, p) = At[o][p]
  <1>1. Theme[o].kind = "fixed" /\ Theme[o].from = Theme[o].to /\ Theme[o].from \in Rects
    BY PaintingAssumption, ObjectTypes DEF Objs, DependsOnProgress, ThemeObjects
  <1>2. \A a \in Rects : rect_bnd(a, a) = a
    BY DEF Rects, rect_bnd, Smaller, Larger
  <1>3. NewBnd(o, p) = rect_sanitize(Theme[o].from)
    BY <1>1, <1>2 DEF NewBnd
  <1>4. At[o][p] = [re |-> rect_sanitize(Theme[o].from), tint |-> 0, attr |-> FALSE]
    BY FixedAt
  <1> QED BY <1>3, <1>4 DEF NewCurr

\* A theme just loaded: nothing on the screen, every object to be prerendered.
LEMMA InitDInv == Init => DInv
  <1> SUFFICES ASSUME Init PROVE DInv
    OBVIOUS
  <1>1. 0 \in 0..PMax
    BY PaintingAssumption
  <1>2. FixedAsIs
    BY <1>1, FixedBnd DEF Init, FixedAsIs
  <1>3. FreshIsTodo
    BY <1>1, NewTypes DEF Init, FreshIsTodo, Todo, Pending
  <1> QED BY <1>2, <1>3 DEF Init, DInv, PassPosition, ScreenIsDrawn, BufferIsDrawn, ListIsRendered,
                  BoxIsCurrent, ChangesAreMarked, ShownIsMarked, InvalidIsPending, Pending, Todo

\* Only prerendering and loading a theme touch bounding rectangles, and only the
\* progress changes what they should be, but not for fixed objects.
LEMMA FixedStep == TypeOK /\ FixedAsIs /\ [Next]_vars => FixedAsIs'
  <1> SUFFICES ASSUME TypeOK, FixedAsIs, [Next]_vars,
                      NEW x \in Objs, ~DependsOnProgress(x)
               PROVE  curr'[x] = At[x][progress'] /\ bnd'[x] = At[x][progress'].re
    BY DEF FixedAsIs
  <1>0. curr[x] = At[x][progress] /\ bnd[x] = At[x][progress].re /\ progress \in 0..PMax
    BY DEF FixedAsIs, TypeOK
  <1>1. CASE UNCHANGED <<bnd, curr, progress>>
    BY <1>0, <1>1
  <1>2. ASSUME NEW o \in Objs, NEW new \in TakenForNew(o), Prerender(o, new)
        PROVE  curr'[x] = At[x][progress'] /\ bnd'[x] = At[x][progress'].re
    BY <1>0, <1>2 DEF Prerender, TypeOK
  <1>3. CASE SetTheme
    BY <1>0, <1>3, FixedBnd DEF SetTheme, NewTheme
  <1>4. ASSUME NEW p \in 0..PMax, Progress(p)
        PROVE  curr'[x] = At[x][progress'] /\ bnd'[x] = At[x][progress'].re
    <2>1. progress' = p /\ bnd' = bnd /\ curr' = curr
      BY <1>4 DEF Progress
    <2>2. At[x][p] = At[x][progress]
      <3>1. At[x][p] = [re |-> rect_sanitize(Theme[x].from), tint |-> 0, attr |-> FALSE]
        BY FixedAt
      <3>2. At[x][progress] = [re |-> rect_sanitize(Theme[x].from), tint |-> 0, attr |-> FALSE]
        BY <1>0, FixedAt
      <3> QED BY <3>1, <3>2
    <2> QED BY <1>0, <2>1, <2>2
  <1> QED BY <1>1, <1>2, <1>3, <1>4 DEF Next, Painter, FirstPass, Validate, SkipValid, Normalize,
          Normalizing, Render, PaintImg, PutImg, CmdPaint, CmdRepaint, Switch, PaintRect, vars, objVars

\* The position of the first pass is set while it runs; what was marked late is
\* forgotten when the paint ends.
LEMMA PositionStep == TypeOK /\ PassPosition /\ [Next]_vars => PassPosition'
  <1> SUFFICES ASSUME TypeOK, PassPosition, [Next]_vars PROVE PassPosition'
    OBVIOUS
  <1> USE DEF PassPosition
  <1>1. ASSUME NEW o \in Objs, NEW new \in TakenForNew(o), Prerender(o, new) PROVE PassPosition'
    BY <1>1, ObjNumbers DEF Prerender
  <1>2. ASSUME NEW o \in Objs, Validate(o) \/ SkipValid(o) PROVE PassPosition'
    BY <1>2, ObjNumbers DEF Validate, SkipValid
  <1>3. CASE Normalize \/ Normalizing \/ Render \/ PaintImg \/ PutImg
    BY <1>3 DEF Normalize, Normalizing, Render, PaintImg, PutImg, histVars
  <1>4. CASE CmdPaint \/ CmdRepaint \/ SetTheme
    BY <1>4 DEF CmdPaint, CmdRepaint, SetTheme, histVars
  <1>5. ASSUME NEW p \in 0..PMax, Progress(p) PROVE PassPosition'
    BY <1>5 DEF Progress
  <1>6. ASSUME NEW o \in Objs, Switch(o) PROVE PassPosition'
    BY <1>6 DEF Switch
  <1>7. ASSUME NEW a \in PaintRects, PaintRect(a) PROVE PassPosition'
    BY <1>7 DEF PaintRect, histVars
  <1>8. CASE UNCHANGED vars
    BY <1>8 DEF vars, histVars
  <1> QED BY <1>1, <1>2, <1>3, <1>4, <1>5, <1>6, <1>7, <1>8 DEF Next, Painter, FirstPass

\* The marks this paint still has to see, and those set since.
LEMMA InvalidStep == TypeOK /\ PassPosition /\ InvalidIsPending /\ [Next]_vars => InvalidIsPending'
  <1> SUFFICES ASSUME TypeOK, PassPosition, InvalidIsPending, [Next]_vars, NEW x \in Objs,
                      invalid'[x], ~Pending(x)'
               PROVE  x \in late' \/ pos' = -x
    BY DEF InvalidIsPending
  <1> DEFINE Goal == x \in late' \/ pos' = -x
  <1>0. /\ x \in 1..Len(Theme) /\ Objs = 1..Len(Theme) /\ Len(Theme) \in Nat
        /\ invalid[x] /\ ~Pending(x) => x \in late \/ pos = -x
    BY ObjNumbers DEF InvalidIsPending
  <1>1. ASSUME NEW o \in Objs, NEW new \in TakenForNew(o), Prerender(o, new) PROVE Goal
    <2>1. pos = o /\ pos' = -o /\ late' = late \ {o} /\ invalid' = invalid
      BY <1>1 DEF Prerender
    <2>2. Pending(x)' <=> Pending(x) /\ x # o
      BY <1>1, PendingStep
    <2> QED BY <1>0, <2>1, <2>2
  <1>2. ASSUME NEW o \in Objs, Validate(o) PROVE Goal
    <2>1. pos = -o /\ invalid' = [invalid EXCEPT ![o] = FALSE] /\ late' = late \ {o}
      BY <1>2 DEF Validate
    <2>2. Pending(x)' <=> Pending(x)
      BY <1>2, PendingStep
    <2> QED BY <1>0, <2>1, <2>2 DEF TypeOK
  <1>3. ASSUME NEW o \in Objs, SkipValid(o) PROVE Goal
    <2>1. pos = o /\ ~invalid[o] /\ invalid' = invalid /\ late' = late
      BY <1>3 DEF SkipValid, objVars, histVars
    <2>2. Pending(x)' <=> Pending(x) /\ x # o
      BY <1>3, PendingStep
    <2> QED BY <1>0, <2>1, <2>2
  <1>4. CASE Normalize
    <2>1. ~Pending(x) /\ pos = Len(Theme) + 1 /\ invalid' = invalid /\ late' = late
      BY <1>4, PendingIs DEF Normalize, objVars, histVars
    <2> QED BY <1>0, <2>1
  <1>5. CASE Normalizing \/ Render
    <2>1. pc \notin {"idle", "mark"} /\ pos' = pos /\ invalid' = invalid /\ late' = late
      BY <1>5 DEF Normalizing, Render, objVars, histVars
    <2>2. ~Pending(x)
      BY <2>1, PendingIs
    <2> QED BY <1>0, <2>1, <2>2
  <1>6. CASE PaintImg \/ PutImg
    BY <1>6 DEF PaintImg, PutImg, Pending
  <1>7. CASE CmdPaint \/ CmdRepaint
    <2>1. pc' = "mark" /\ pos' = 1
      BY <1>7 DEF CmdPaint, CmdRepaint
    <2> QED BY <1>0, <2>1 DEF Pending
  <1>8. CASE SetTheme
    BY <1>8 DEF SetTheme, Pending
  <1>9. ASSUME NEW p \in 0..PMax, Progress(p) PROVE Goal
    <2>1. /\ pc' = pc /\ pos' = pos /\ pc # "idle"
          /\ invalid'[x] => invalid[x] \/ DependsOnProgress(x)
          /\ late' = late \union {o \in Objs : DependsOnProgress(o)}
      BY <1>9 DEF Progress, Pending
    <2>2. Pending(x)' <=> Pending(x)
      BY <2>1 DEF Pending
    <2> QED BY <1>0, <2>1, <2>2
  <1>10. ASSUME NEW o \in Objs, Switch(o) PROVE Goal
    BY <1>10 DEF Switch, Pending
  <1>11. ASSUME NEW a \in PaintRects, PaintRect(a) PROVE Goal
    <2>1. pc' = "mark" /\ pos' = 1
      BY <1>11 DEF PaintRect
    <2> QED BY <1>0, <2>1 DEF Pending
  <1>12. CASE UNCHANGED vars
    BY <1>0, <1>12 DEF vars, objVars, histVars, Pending
  <1> QED BY <1>1, <1>2, <1>3, <1>4, <1>5, <1>6, <1>7, <1>8, <1>9, <1>10, <1>11, <1>12
          DEF Next, Painter, FirstPass

\* Prerendering brings an object up to date, and only a mark set after that is
\* taken away unseen.
LEMMA ChangesStep ==
  TypeOK /\ PassPosition /\ FixedAsIs /\ ChangesAreMarked /\ [Next]_vars => ChangesAreMarked'
  <1> SUFFICES ASSUME TypeOK, PassPosition, FixedAsIs, ChangesAreMarked, [Next]_vars,
                      NEW x \in Objs, visible'[x], curr'[x] # At[x][progress']
               PROVE  (invalid'[x] /\ (Pending(x)' \/ x \in late')) \/ x \in missed'
    BY DEF ChangesAreMarked
  <1> DEFINE Goal == (invalid'[x] /\ (Pending(x)' \/ x \in late')) \/ x \in missed'
  <1>0. /\ x \in 1..Len(Theme) /\ Objs = 1..Len(Theme) /\ Len(Theme) \in Nat
        /\ visible[x] /\ curr[x] # At[x][progress] =>
             (invalid[x] /\ (Pending(x) \/ x \in late)) \/ x \in missed
    BY ObjNumbers DEF ChangesAreMarked
  <1>1. ASSUME NEW o \in Objs, NEW new \in TakenForNew(o), Prerender(o, new) PROVE Goal
    <2>1. /\ invalid' = invalid /\ visible' = visible /\ progress' = progress
          /\ late' = late \ {o} /\ missed' = missed \ {o}
      BY <1>1 DEF Prerender
    <2>2. Pending(x)' <=> Pending(x) /\ x # o
      BY <1>1, PendingStep
    <2>3. x # o => curr'[x] = curr[x]
      BY <1>1 DEF Prerender, TypeOK
    <2>4. x = o => curr'[x] = At[x][progress']
      <3>1. CASE Skipped(o, force \/ new) \/ ~DependsOnProgress(o)
        <4>1. curr' = curr /\ curr[o] = At[o][progress]
          BY <1>1, <3>1 DEF Prerender, Skipped, FixedAsIs
        <4> QED BY <2>1, <4>1
      <3>2. CASE ~(Skipped(o, force \/ new) \/ ~DependsOnProgress(o))
        <4>1. x = o => curr' = [curr EXCEPT ![o] = At[o][progress]]
          BY <1>1, <2>1, <3>2 DEF Prerender
        <4> QED BY <2>1, <4>1 DEF TypeOK
      <3> QED BY <3>1, <3>2
    <2> QED BY <1>0, <2>1, <2>2, <2>3, <2>4
  <1>2. ASSUME NEW o \in Objs, Validate(o) PROVE Goal
    <2>1. /\ invalid' = [invalid EXCEPT ![o] = FALSE] /\ late' = late \ {o}
          /\ missed' = IF o \in late THEN missed \union {o} ELSE missed
          /\ UNCHANGED <<visible, curr, progress>>
      BY <1>2 DEF Validate
    <2>2. (Pending(x)' <=> Pending(x)) /\ ~Pending(o)
      BY <1>2, PendingStep
    <2> QED BY <1>0, <2>1, <2>2 DEF TypeOK
  <1>3. ASSUME NEW o \in Objs, SkipValid(o) PROVE Goal
    <2>1. ~invalid[o] /\ UNCHANGED <<invalid, visible, curr, progress, late, missed>>
      BY <1>3 DEF SkipValid, objVars, histVars
    <2>2. Pending(x)' <=> Pending(x) /\ x # o
      BY <1>3, PendingStep
    <2> QED BY <1>0, <2>1, <2>2
  <1>4. CASE Normalize
    <2>1. ~Pending(x) /\ UNCHANGED <<invalid, visible, curr, progress, late, missed>>
      BY <1>4, PendingIs DEF Normalize, objVars, histVars
    <2> QED BY <1>0, <2>1
  <1>5. CASE Normalizing \/ Render
    <2>1. /\ pc \notin {"idle", "mark"}
          /\ UNCHANGED <<invalid, visible, curr, progress, late, missed>>
      BY <1>5 DEF Normalizing, Render, objVars, histVars
    <2>2. ~Pending(x)
      BY <2>1, PendingIs
    <2> QED BY <1>0, <2>1, <2>2
  <1>6. CASE PaintImg \/ PutImg
    <2>1. pc' = "idle" /\ UNCHANGED <<invalid, visible, curr, progress, missed>>
      BY <1>6 DEF PaintImg, PutImg, objVars
    <2> QED BY <1>0, <2>1 DEF Pending
  <1>7. CASE CmdPaint
    <2>1. pc' = "mark" /\ pos' = 1 /\ UNCHANGED <<invalid, visible, curr, progress, late, missed>>
      BY <1>7 DEF CmdPaint, objVars, histVars
    <2> QED BY <1>0, <2>1 DEF Pending
  <1>8. CASE CmdRepaint
    <2>1. pc' = "mark" /\ pos' = 1 /\ invalid'[x]
      BY <1>8 DEF CmdRepaint
    <2> QED BY <1>0, <2>1 DEF Pending
  <1>9. CASE SetTheme
    BY <1>9 DEF SetTheme, NewTheme, Pending
  <1>10. ASSUME NEW p \in 0..PMax, Progress(p) PROVE Goal
    <2>1. /\ pc' = pc /\ pos' = pos /\ UNCHANGED <<visible, curr, missed>> /\ progress' = p
          /\ invalid' = [o \in Objs |-> invalid[o] \/ o \in {y \in Objs : DependsOnProgress(y)}]
          /\ late' = IF pc = "idle" THEN {} ELSE late \union {o \in Objs : DependsOnProgress(o)}
      BY <1>10 DEF Progress
    <2>2. Pending(x)' <=> Pending(x)
      BY <2>1 DEF Pending
    <2>3. CASE DependsOnProgress(x)
      BY <1>0, <2>1, <2>2, <2>3 DEF Pending
    <2>4. CASE ~DependsOnProgress(x)
      <3>1. curr[x] = At[x][progress] /\ At[x][progress] = At[x][p]
        <4>1. At[x][progress] = [re |-> rect_sanitize(Theme[x].from), tint |-> 0, attr |-> FALSE]
          BY <2>4, FixedAt DEF TypeOK
        <4>2. At[x][p] = [re |-> rect_sanitize(Theme[x].from), tint |-> 0, attr |-> FALSE]
          BY <2>4, FixedAt
        <4> QED BY <2>4, <4>1, <4>2 DEF FixedAsIs
      <3> QED BY <2>1, <3>1
    <2> QED BY <2>3, <2>4
  <1>11. ASSUME NEW o \in Objs, Switch(o) PROVE Goal
    <2>1. /\ pc' = "idle" /\ pc = "idle" /\ invalid' = [invalid EXCEPT ![o] = TRUE]
          /\ visible' = [visible EXCEPT ![o] = ~@] /\ UNCHANGED <<curr, progress, missed, late>>
      BY <1>11 DEF Switch
    <2> QED BY <1>0, <2>1 DEF Pending, TypeOK, PassPosition
  <1>12. ASSUME NEW a \in PaintRects, PaintRect(a) PROVE Goal
    <2>1. pc' = "mark" /\ pos' = 1 /\ UNCHANGED <<invalid, visible, curr, progress, late, missed>>
      BY <1>12 DEF PaintRect, objVars, histVars
    <2> QED BY <1>0, <2>1 DEF Pending
  <1>13. CASE UNCHANGED vars
    BY <1>0, <1>13 DEF vars, objVars, histVars, Pending
  <1> QED BY <1>1, <1>2, <1>3, <1>4, <1>5, <1>6, <1>7, <1>8, <1>9, <1>10, <1>11, <1>12, <1>13
          DEF Next, Painter, FirstPass

\* A fixed object that was shown marks itself as a whole when it is prerendered.
LEMMA ShownStep ==
  TypeOK /\ PassPosition /\ FixedAsIs /\ ShownIsMarked /\ [Next]_vars => ShownIsMarked'
  <1> SUFFICES ASSUME TypeOK, PassPosition, FixedAsIs, ShownIsMarked, [Next]_vars,
                      NEW x \in unseen'
               PROVE  visible'[x] /\ (DependsOnProgress(x) \/ Todo(x)')
    BY DEF ShownIsMarked
  <1> DEFINE Goal == visible'[x] /\ (DependsOnProgress(x) \/ Todo(x)')
  <1> USE DEF Todo
  <1>0. /\ Objs = 1..Len(Theme) /\ Len(Theme) \in Nat /\ unseen \subseteq Objs
        /\ x \in unseen => visible[x] /\ (DependsOnProgress(x) \/ Todo(x))
    BY ObjNumbers DEF ShownIsMarked, TypeOK
  <1>1. ASSUME NEW o \in Objs, NEW new \in TakenForNew(o), Prerender(o, new) PROVE Goal
    <2>1. invalid' = invalid /\ visible' = visible /\ x \in unseen
      BY <1>1 DEF Prerender
    <2>2. Pending(x)' <=> Pending(x) /\ x # o
      BY <1>0, <1>1, <2>1, PendingStep
    <2>3. CASE x = o /\ ~DependsOnProgress(o)
      <3>1. visible[o] /\ bnd[o] = At[o][progress].re /\ ~Skipped(o, force \/ new)
        BY <1>0, <2>1, <2>3 DEF FixedAsIs, Skipped
      <3>2. Theme[o].kind = "fixed"
        BY <2>3 DEF DependsOnProgress
      <3>3. MarkedBy(o, force \/ new) = <<bnd[o]>>
        BY <3>1, <3>2 DEF MarkedBy, Marks, Bars, Graded
      <3>4. Covered(<<bnd[o]>>) = Area(bnd[o])
        BY OneTwo
      <3>5. o \notin unseen'
        BY <1>1, <3>1, <3>3, <3>4 DEF Prerender
      <3> QED BY <2>3, <3>5
    <2> QED BY <1>0, <2>1, <2>2, <2>3
  <1>2. ASSUME NEW o \in Objs, Validate(o) PROVE Goal
    <2>1. /\ invalid' = [invalid EXCEPT ![o] = FALSE] /\ UNCHANGED <<visible, unseen>>
      BY <1>2 DEF Validate
    <2>2. (Pending(x)' <=> Pending(x)) /\ ~Pending(o)
      BY <1>0, <1>2, <2>1, PendingStep
    <2> QED BY <1>0, <2>1, <2>2 DEF TypeOK
  <1>3. ASSUME NEW o \in Objs, SkipValid(o) PROVE Goal
    <2>1. ~invalid[o] /\ UNCHANGED <<invalid, visible, unseen>>
      BY <1>3 DEF SkipValid, objVars, histVars
    <2>2. Pending(x)' <=> Pending(x) /\ x # o
      BY <1>0, <1>3, <2>1, PendingStep
    <2> QED BY <1>0, <2>1, <2>2
  <1>4. CASE Normalize
    <2>1. UNCHANGED <<invalid, visible, unseen>>
      BY <1>4 DEF Normalize, objVars, histVars
    <2>2. ~Pending(x)
      BY <1>0, <1>4, <2>1, PendingIs DEF Normalize
    <2> QED BY <1>0, <2>1, <2>2
  <1>5. CASE Normalizing \/ Render
    <2>1. pc \notin {"idle", "mark"} /\ UNCHANGED <<invalid, visible, unseen>>
      BY <1>5 DEF Normalizing, Render, objVars, histVars
    <2>2. ~Pending(x)
      BY <1>0, <2>1, PendingIs
    <2> QED BY <1>0, <2>1, <2>2
  <1>6. CASE PaintImg \/ PutImg
    <2>1. pc' = "idle" /\ UNCHANGED <<invalid, visible, unseen>>
      BY <1>6 DEF PaintImg, PutImg, objVars
    <2> QED BY <1>0, <2>1 DEF Pending
  <1>7. CASE CmdPaint
    <2>1. pc' = "mark" /\ pos' = 1 /\ UNCHANGED <<invalid, visible, unseen>>
      BY <1>7 DEF CmdPaint, objVars, histVars
    <2> QED BY <1>0, <2>1 DEF Pending
  <1>8. CASE CmdRepaint
    <2>1. pc' = "mark" /\ pos' = 1 /\ invalid' = [o \in Objs |-> TRUE] /\ UNCHANGED <<visible, unseen>>
      BY <1>8 DEF CmdRepaint, histVars
    <2> QED BY <1>0, <2>1 DEF Pending
  <1>9. CASE SetTheme
    BY <1>9 DEF SetTheme
  <1>10. ASSUME NEW p \in 0..PMax, Progress(p) PROVE Goal
    <2>1. /\ pc' = pc /\ pos' = pos /\ UNCHANGED <<visible, unseen>>
          /\ invalid' = [o \in Objs |-> invalid[o] \/ o \in {y \in Objs : DependsOnProgress(y)}]
      BY <1>10 DEF Progress
    <2> QED BY <1>0, <2>1 DEF Pending
  <1>11. ASSUME NEW o \in Objs, Switch(o) PROVE Goal
    <2>1. /\ pc' = "idle" /\ pc = "idle" /\ invalid' = [invalid EXCEPT ![o] = TRUE]
          /\ visible' = [visible EXCEPT ![o] = ~@]
          /\ unseen' = IF visible[o] THEN unseen \ {o} ELSE unseen \union {o}
      BY <1>11 DEF Switch
    <2> QED BY <1>0, <2>1 DEF Pending, TypeOK
  <1>12. ASSUME NEW a \in PaintRects, PaintRect(a) PROVE Goal
    <2>1. pc' = "mark" /\ pos' = 1 /\ UNCHANGED <<invalid, visible, unseen>>
      BY <1>12 DEF PaintRect, objVars, histVars
    <2> QED BY <1>0, <2>1 DEF Pending
  <1>13. CASE UNCHANGED vars
    BY <1>0, <1>13 DEF vars, objVars, histVars, Pending
  <1> QED BY <1>1, <1>2, <1>3, <1>4, <1>5, <1>6, <1>7, <1>8, <1>9, <1>10, <1>11, <1>12, <1>13
          DEF Next, Painter, FirstPass

\* A bar never prerendered is marked when it is loaded and when it is shown, and
\* its mark goes when it has been prerendered or is hidden.
LEMMA FreshStep == TypeOK /\ PassPosition /\ FreshIsTodo /\ [Next]_vars => FreshIsTodo'
  <1> SUFFICES ASSUME TypeOK, PassPosition, FreshIsTodo, [Next]_vars, NEW x \in Objs
               PROVE  /\ visible'[x] /\ Fresh(x)' => Todo(x)'
                      /\ Theme[x].kind \in Graded /\ curr'[x].attr => bnd'[x] = curr'[x].re
    BY DEF FreshIsTodo
  <1> DEFINE Goal == /\ visible'[x] /\ Fresh(x)' => Todo(x)'
                     /\ Theme[x].kind \in Graded /\ curr'[x].attr => bnd'[x] = curr'[x].re
  <1> USE DEF Todo, Fresh
  <1>0. /\ Objs = 1..Len(Theme) /\ Len(Theme) \in Nat
        /\ visible[x] /\ Fresh(x) => Todo(x)
        /\ Theme[x].kind \in Graded /\ curr[x].attr => bnd[x] = curr[x].re
    BY ObjNumbers DEF FreshIsTodo
  <1>1. ASSUME NEW o \in Objs, NEW new \in TakenForNew(o), Prerender(o, new) PROVE Goal
    <2>1. UNCHANGED <<invalid, visible>>
      BY <1>1 DEF Prerender
    <2>2. Pending(x)' <=> Pending(x) /\ x # o
      BY <1>1, PendingStep
    <2>3. CASE x # o
      <3>1. bnd'[x] = bnd[x] /\ curr'[x] = curr[x]
        BY <1>1, <2>3 DEF Prerender, TypeOK
      <3> QED BY <1>0, <2>1, <2>2, <2>3, <3>1
    <2>4. CASE x = o /\ visible[o] /\ ~Skipped(o, force \/ new) /\ DependsOnProgress(o)
      <3>1. /\ curr' = [curr EXCEPT ![o] = At[o][progress]]
            /\ bnd' = [bnd EXCEPT ![o] = At[o][progress].re]
        BY <1>1, <2>4 DEF Prerender
      <3>2. curr'[x] = At[x][progress] /\ bnd'[x] = At[x][progress].re
        BY <2>4, <3>1 DEF TypeOK
      <3> QED BY <3>2, PrerenderedAttr DEF TypeOK
    <2>5. CASE x = o /\ ~(visible[o] /\ ~Skipped(o, force \/ new) /\ DependsOnProgress(o))
      <3>1. UNCHANGED <<bnd, curr>>
        BY <1>1, <2>5 DEF Prerender
      <3>2. visible[x] => ~Fresh(x)
        BY <2>5, PrerenderedAttr DEF Skipped, DependsOnProgress, Graded, TypeOK
      <3> QED BY <1>0, <2>1, <3>1, <3>2
    <2> QED BY <2>3, <2>4, <2>5
  <1>2. ASSUME NEW o \in Objs, Validate(o) PROVE Goal
    <2>1. /\ invalid' = [invalid EXCEPT ![o] = FALSE] /\ UNCHANGED <<visible, bnd, curr>>
      BY <1>2 DEF Validate
    <2>2. (Pending(x)' <=> Pending(x)) /\ ~Pending(o)
      BY <1>2, PendingStep
    <2> QED BY <1>0, <2>1, <2>2 DEF TypeOK
  <1>3. ASSUME NEW o \in Objs, SkipValid(o) PROVE Goal
    <2>1. ~invalid[o] /\ UNCHANGED <<invalid, visible, bnd, curr>>
      BY <1>3 DEF SkipValid, objVars
    <2>2. Pending(x)' <=> Pending(x) /\ x # o
      BY <1>3, PendingStep
    <2> QED BY <1>0, <2>1, <2>2
  <1>4. CASE Normalize
    <2>1. UNCHANGED <<invalid, visible, bnd, curr>>
      BY <1>4 DEF Normalize, objVars
    <2>2. ~Pending(x)
      BY <1>4, PendingIs DEF Normalize
    <2> QED BY <1>0, <2>1, <2>2
  <1>5. CASE Normalizing \/ Render \/ PaintImg \/ PutImg
    <2>1. pc \notin {"idle", "mark"} /\ UNCHANGED <<invalid, visible, bnd, curr>>
      BY <1>5 DEF Normalizing, Render, PaintImg, PutImg, objVars
    <2>2. ~Pending(x)
      BY <2>1, PendingIs
    <2> QED BY <1>0, <2>1, <2>2
  <1>6. CASE CmdPaint
    <2>1. pc' = "mark" /\ pos' = 1 /\ UNCHANGED <<invalid, visible, bnd, curr>>
      BY <1>6 DEF CmdPaint, objVars
    <2> QED BY <1>0, <2>1 DEF Pending
  <1>7. CASE CmdRepaint
    <2>1. /\ pc' = "mark" /\ pos' = 1 /\ invalid' = [o \in Objs |-> TRUE]
          /\ UNCHANGED <<visible, bnd, curr>>
      BY <1>7 DEF CmdRepaint
    <2> QED BY <1>0, <2>1 DEF Pending
  <1>8. CASE SetTheme
    <2>1. pc' = "idle" /\ invalid' = [o \in Objs |-> TRUE] /\ ~curr'[x].attr
      BY <1>8, NewTypes DEF SetTheme, NewTheme, TypeOK
    <2> QED BY <2>1 DEF Pending
  <1>9. ASSUME NEW p \in 0..PMax, Progress(p) PROVE Goal
    <2>1. /\ pc' = pc /\ pos' = pos /\ UNCHANGED <<visible, bnd, curr>>
          /\ invalid' = [o \in Objs |-> invalid[o] \/ o \in {y \in Objs : DependsOnProgress(y)}]
      BY <1>9 DEF Progress
    <2> QED BY <1>0, <2>1 DEF Pending
  <1>10. ASSUME NEW o \in Objs, Switch(o) PROVE Goal
    <2>1. /\ pc' = "idle" /\ pc = "idle" /\ invalid' = [invalid EXCEPT ![o] = TRUE]
          /\ visible' = [visible EXCEPT ![o] = ~@] /\ UNCHANGED <<bnd, curr>>
      BY <1>10 DEF Switch
    <2> QED BY <1>0, <2>1 DEF Pending, TypeOK
  <1>11. ASSUME NEW a \in PaintRects, PaintRect(a) PROVE Goal
    <2>1. pc' = "mark" /\ pos' = 1 /\ UNCHANGED <<invalid, visible, bnd, curr>>
      BY <1>11 DEF PaintRect, objVars
    <2> QED BY <1>0, <2>1 DEF Pending
  <1>12. CASE UNCHANGED vars
    BY <1>0, <1>12 DEF vars, objVars, Pending
  <1> QED BY <1>1, <1>2, <1>3, <1>4, <1>5, <1>6, <1>7, <1>8, <1>9, <1>10, <1>11, <1>12
          DEF Next, Painter, FirstPass

\* Prerendering sets the bounding rectangle to that of the contents; an object
\* that is skipped has been prerendered before, or is drawn nowhere yet.
LEMMA BoxStep ==
  TypeOK /\ PassPosition /\ FixedAsIs /\ UnshownIsCovered /\ BoxIsCurrent /\ [Next]_vars
    => BoxIsCurrent'
  <1> SUFFICES ASSUME TypeOK, PassPosition, FixedAsIs, UnshownIsCovered, BoxIsCurrent, [Next]_vars,
                      NEW x \in Objs, visible'[x], force' \/ ~reloaded'
               PROVE  Settled(x)' \/ (~force' /\ x \in unseen') \/ (force' /\ Todo(x)')
    BY DEF BoxIsCurrent
  <1> DEFINE Goal == Settled(x)' \/ (~force' /\ x \in unseen') \/ (force' /\ Todo(x)')
  <1> USE DEF Todo, Settled, Fresh
  <1>0. /\ Objs = 1..Len(Theme) /\ Len(Theme) \in Nat
        /\ visible[x] /\ (force \/ ~reloaded) =>
             Settled(x) \/ (~force /\ x \in unseen) \/ (force /\ Todo(x))
        /\ pc = "idle" => ~force
    BY ObjNumbers DEF BoxIsCurrent, UnshownIsCovered
  <1>1. ASSUME NEW o \in Objs, NEW new \in TakenForNew(o), Prerender(o, new) PROVE Goal
    <2>1. /\ UNCHANGED <<invalid, visible, force, reloaded>>
          /\ x # o => (x \in unseen => x \in unseen')
          /\ Skipped(o, force \/ new) => unseen' = unseen
      BY <1>1 DEF Prerender
    <2>2. Pending(x)' <=> Pending(x) /\ x # o
      BY <1>1, PendingStep
    <2>3. CASE x # o
      <3>1. bnd'[x] = bnd[x] /\ curr'[x] = curr[x]
        BY <1>1, <2>3 DEF Prerender, TypeOK
      <3> QED BY <1>0, <2>1, <2>2, <2>3, <3>1
    <2>4. CASE x = o /\ Skipped(o, force \/ new)
      <3>1. UNCHANGED <<bnd, curr>> /\ ~force
        BY <1>1, <2>4 DEF Prerender, Skipped
      <3> QED BY <1>0, <2>1, <2>4, <3>1
    <2>5. CASE x = o /\ ~DependsOnProgress(o)
      <3>1. UNCHANGED <<bnd, curr>>
        BY <1>1, <2>5 DEF Prerender
      <3> QED BY <2>5, <3>1 DEF FixedAsIs, DependsOnProgress, Graded
    <2>6. CASE x = o /\ ~Skipped(o, force \/ new) /\ DependsOnProgress(o)
      <3>1. /\ curr' = [curr EXCEPT ![o] = At[o][progress]]
            /\ bnd' = [bnd EXCEPT ![o] = At[o][progress].re]
        BY <1>1, <2>1, <2>6 DEF Prerender
      <3> QED BY <2>6, <3>1, PrerenderedAttr DEF TypeOK
    <2> QED BY <2>3, <2>4, <2>5, <2>6
  <1>2. ASSUME NEW o \in Objs, Validate(o) PROVE Goal
    <2>1. /\ invalid' = [invalid EXCEPT ![o] = FALSE]
          /\ UNCHANGED <<visible, bnd, curr, force, unseen, reloaded>>
      BY <1>2 DEF Validate
    <2>2. (Pending(x)' <=> Pending(x)) /\ ~Pending(o)
      BY <1>2, PendingStep
    <2> QED BY <1>0, <2>1, <2>2 DEF TypeOK
  <1>3. ASSUME NEW o \in Objs, SkipValid(o) PROVE Goal
    <2>1. ~invalid[o] /\ UNCHANGED <<invalid, visible, bnd, curr, force, unseen, reloaded>>
      BY <1>3 DEF SkipValid, objVars, histVars
    <2>2. Pending(x)' <=> Pending(x) /\ x # o
      BY <1>3, PendingStep
    <2> QED BY <1>0, <2>1, <2>2
  <1>4. CASE Normalize
    <2>1. UNCHANGED <<invalid, visible, bnd, curr, force, unseen, reloaded>>
      BY <1>4 DEF Normalize, objVars, histVars
    <2>2. ~Pending(x)
      BY <1>4, PendingIs DEF Normalize
    <2> QED BY <1>0, <2>1, <2>2
  <1>5. CASE Normalizing \/ Render
    <2>1. /\ pc \notin {"idle", "mark"}
          /\ UNCHANGED <<invalid, visible, bnd, curr, force, unseen, reloaded>>
      BY <1>5 DEF Normalizing, Render, objVars, histVars
    <2>2. ~Pending(x)
      BY <2>1, PendingIs
    <2> QED BY <1>0, <2>1, <2>2
  <1>6. CASE PaintImg \/ PutImg
    <2>1. /\ pc = "copy" /\ ~force' /\ UNCHANGED <<visible, bnd, curr, unseen>>
          /\ force \/ reloaded' = reloaded
      BY <1>6 DEF PaintImg, PutImg, objVars
    <2>2. ~Pending(x)
      BY <2>1, PendingIs
    <2> QED BY <1>0, <2>1, <2>2
  <1>7. CASE CmdPaint
    <2>1. pc = "idle" /\ UNCHANGED <<visible, bnd, curr, unseen, force, reloaded>>
      BY <1>7 DEF CmdPaint, objVars, histVars
    <2> QED BY <1>0, <2>1
  <1>8. CASE CmdRepaint
    <2>1. pc' = "mark" /\ pos' = 1 /\ invalid' = [o \in Objs |-> TRUE] /\ force'
      BY <1>8 DEF CmdRepaint
    <2> QED BY <1>0, <2>1 DEF Pending
  <1>9. CASE SetTheme
    <2>1. pc = "idle" /\ force' = force /\ reloaded'
      BY <1>9 DEF SetTheme
    <2> QED BY <1>0, <2>1
  <1>10. ASSUME NEW p \in 0..PMax, Progress(p) PROVE Goal
    <2>1. /\ pc' = pc /\ pos' = pos /\ UNCHANGED <<visible, bnd, curr, unseen, force, reloaded>>
          /\ invalid' = [o \in Objs |-> invalid[o] \/ o \in {y \in Objs : DependsOnProgress(y)}]
      BY <1>10 DEF Progress
    <2> QED BY <1>0, <2>1 DEF Pending
  <1>11. ASSUME NEW o \in Objs, Switch(o) PROVE Goal
    <2>1. /\ pc = "idle" /\ UNCHANGED <<bnd, curr, force, reloaded>>
          /\ visible' = [visible EXCEPT ![o] = ~@]
          /\ unseen' = IF visible[o] THEN unseen \ {o} ELSE unseen \union {o}
      BY <1>11 DEF Switch
    <2> QED BY <1>0, <2>1 DEF TypeOK
  <1>12. ASSUME NEW a \in PaintRects, PaintRect(a) PROVE Goal
    <2>1. pc = "idle" /\ UNCHANGED <<visible, bnd, curr, unseen, force, reloaded>>
      BY <1>12 DEF PaintRect, objVars, histVars
    <2> QED BY <1>0, <2>1
  <1>13. CASE UNCHANGED vars
    BY <1>0, <1>13 DEF vars, objVars, histVars, Pending
  <1> QED BY <1>1, <1>2, <1>3, <1>4, <1>5, <1>6, <1>7, <1>8, <1>9, <1>10, <1>11, <1>12, <1>13
          DEF Next, Painter, FirstPass

\* Between the second pass and the copy nothing that is drawn changes.
LEMMA RenderedStep == ListIsRendered /\ [Next]_vars => ListIsRendered'
  <1> SUFFICES ASSUME ListIsRendered, [Next]_vars, pc' = "copy", NEW c \in Covered(blit')
               PROVE  buf'[c] = Drawn(c)'
    BY DEF ListIsRendered
  <1>1. CASE Render
    <2>1. /\ buf' = [d \in Cells |-> IF d \in Covered(blit) THEN Drawn(d) ELSE buf[d]]
          /\ blit' = blit /\ UNCHANGED <<visible, bnd, curr>>
      BY <1>1 DEF Render, blitVars, objVars
    <2>2. c \in Cells
      BY DEF Covered, Area
    <2> QED BY <2>1, <2>2, DrawnKept
  <1>2. CASE Normalize
    <2>1. blit = <<>> /\ blit' = blit
      BY <1>2 DEF Normalize, blitVars
    <2>2. Covered(<<>>) = {}
      BY DEF Covered, Range
    <2> QED BY <2>1, <2>2
  <1>3. ASSUME NEW p \in 0..PMax, Progress(p) PROVE buf'[c] = Drawn(c)'
    <2>1. pc' = pc /\ UNCHANGED <<visible, bnd, curr, blit, buf>>
      BY <1>3 DEF Progress, blitVars, imageVars
    <2> QED BY <2>1, DrawnKept DEF ListIsRendered
  <1>4. CASE UNCHANGED vars
    <2>1. pc' = pc /\ UNCHANGED <<visible, bnd, curr, blit, buf>>
      BY <1>4 DEF vars, objVars, blitVars, imageVars
    <2> QED BY <2>1, DrawnKept DEF ListIsRendered
  <1> QED BY <1>1, <1>2, <1>3, <1>4 DEF Next, Painter, FirstPass, Prerender, Validate, SkipValid,
          Normalizing, PaintImg, PutImg, CmdPaint, CmdRepaint, SetTheme, Switch, PaintRect

\* What prerendering an object does to its cells: every cell that the second
\* pass now draws differently is put on the list, or left unseen.
LEMMA PrerenderScreen ==
  ASSUME TypeOK, FixedAsIs, FreshIsTodo, BoxIsCurrent, ScreenIsDrawn, ShownIsMarked, ~reloaded,
         NEW o \in Objs, NEW new \in TakenForNew(o), Prerender(o, new), NEW c \in Cells
  PROVE  \/ fb[c] = Known(c)' \/ c \in Covered(blit')
         \/ \E x \in unseen' : ~Fresh(x)' /\ c \in Area(bnd'[x])
  <1> DEFINE whole  == force \/ new
             marked == MarkedBy(o, whole)
             re     == At[o][progress].re
  <1>1. ObjTypeOK /\ whole \in BOOLEAN /\ blit \in Seq(ScreenRects) /\ progress \in 0..PMax
    BY DEF TypeOK, ObjTypeOK, BlitTypeOK, TakenForNew
  <1>2. marked \in Seq(Rects)
    BY <1>1, MarkTypes
  <1>3. blit' = BlitAll(blit, marked)
    BY DEF Prerender
  <1>4. Covered(blit) \subseteq Covered(blit') /\ Covered(marked) \subseteq Covered(blit')
    BY <1>1, <1>2, <1>3, AllCovered
  <1>5. unseen' = IF visible[o] /\ ~Skipped(o, whole) /\ Area(re) \subseteq Covered(marked)
                    THEN unseen \ {o} ELSE unseen
    BY DEF Prerender
  <1>6. visible[o] /\ ~Skipped(o, whole) => bnd'[o] = re /\ ~Fresh(o)'
    <2>1. CASE visible[o] /\ ~Skipped(o, whole) /\ DependsOnProgress(o)
      <3>1. curr'[o] = At[o][progress] /\ bnd'[o] = re
        BY <2>1 DEF Prerender, TypeOK
      <3> QED BY <1>1, <3>1, PrerenderedAttr DEF Fresh
    <2>2. CASE ~DependsOnProgress(o)
      BY <2>2 DEF Prerender, FixedAsIs, Fresh, DependsOnProgress, Graded
    <2> QED BY <2>1, <2>2
  <1>7. \A x \in Objs : x # o \/ Skipped(o, whole) \/ ~visible[o] =>
          bnd'[x] = bnd[x] /\ (Fresh(x)' <=> Fresh(x))
    <2> SUFFICES ASSUME NEW x \in Objs, x # o \/ Skipped(o, whole) \/ ~visible[o]
                 PROVE  bnd'[x] = bnd[x] /\ curr'[x] = curr[x]
      BY DEF Fresh
    <2> QED BY DEF Prerender, TypeOK
  <1>8. unseen \subseteq Objs
    BY DEF TypeOK
  <1>9. visible[o] /\ ~Skipped(o, whole) /\ ~Fresh(o) /\ c \in Area(bnd[o]) /\ c \notin Area(re)
          => c \in Covered(marked)
    <2> SUFFICES ASSUME visible[o], ~Skipped(o, whole), ~Fresh(o), c \in Area(bnd[o]), c \notin Area(re)
                 PROVE  c \in Covered(marked)
      OBVIOUS
    <2>1. CASE whole \/ Theme[o].kind \notin Graded
      BY <1>1, <2>1, WholeMarks
    <2>2. CASE Theme[o].kind \in Graded
      <3>1. bnd[o] = curr[o].re
        BY <2>2 DEF Fresh, FreshIsTodo
      <3>2. ~Agrees(o, c)
        BY DEF Agrees, Area
      <3> QED BY <1>1, <3>1, <3>2, MarksSuffice
    <2> QED BY <2>1, <2>2
  <1>10. visible[o] /\ Fresh(o) => whole \/ o \in unseen
    BY DEF BoxIsCurrent, Settled
  <1>11. whole /\ visible[o] /\ ~Skipped(o, whole) => Area(re) \subseteq Covered(marked)
    BY <1>1, WholeMarks
  <1>12. Known(c)' # Known(c) =>
           /\ visible[o] /\ ~Skipped(o, whole) /\ DependsOnProgress(o)
           /\ IF Fresh(o) THEN c \in Area(re) ELSE ~Agrees(o, c)
    BY KnownChanges
  <1>13. visible[o] /\ ~Skipped(o, whole) /\ ~Agrees(o, c) /\ (whole \/ bnd[o] = curr[o].re)
           => c \in Covered(marked)
    BY <1>1, MarksSuffice
  <1>14. ~Agrees(o, c) => c \in Area(bnd[o]) \/ c \in Area(re)
    BY DEF Agrees, Area
  <1>15. visible[o] /\ ~Fresh(o) => whole \/ o \in unseen \/ bnd[o] = curr[o].re
    BY DEF BoxIsCurrent, Settled
  <1>16. \/ fb[c] = Known(c) \/ c \in Covered(blit)
         \/ \E x \in unseen : ~Fresh(x) /\ c \in Area(bnd[x])
    BY DEF ScreenIsDrawn
  <1> DEFINE Goal == c \in Covered(blit') \/ \E y \in unseen' : ~Fresh(y)' /\ c \in Area(bnd'[y])
  <1> HIDE DEF whole, marked, re
  <1>17. visible[o] /\ ~Skipped(o, whole) /\ o \in unseen /\ c \in Area(re) => Goal
    <2> SUFFICES ASSUME visible[o], ~Skipped(o, whole), o \in unseen, c \in Area(re),
                        c \notin Covered(marked)
                 PROVE  Goal
      BY <1>4
    <2>1. o \in unseen'
      BY <1>5
    <2> QED BY <1>6, <2>1
  <1>18. ASSUME NEW x \in unseen, ~Fresh(x), c \in Area(bnd[x])
         PROVE  Goal
    <2>1. CASE x # o \/ Skipped(o, whole) \/ ~visible[o]
      <3>1. x \in unseen' /\ bnd'[x] = bnd[x] /\ ~Fresh(x)'
        BY <1>5, <1>7, <1>8, <1>18, <2>1
      <3> QED BY <1>18, <3>1
    <2>2. CASE x = o /\ ~Skipped(o, whole) /\ visible[o]
      BY <1>4, <1>9, <1>17, <1>18, <2>2
    <2> QED BY <2>1, <2>2
  <1>19. CASE Known(c)' # Known(c)
    <2>1. CASE Fresh(o)
      BY <1>4, <1>10, <1>11, <1>12, <1>17, <1>19, <2>1
    <2>2. CASE ~Fresh(o) /\ o \in unseen
      BY <1>12, <1>14, <1>17, <1>18, <1>19, <2>2
    <2>3. CASE ~Fresh(o) /\ o \notin unseen
      BY <1>4, <1>12, <1>13, <1>15, <1>19, <2>3
    <2> QED BY <2>1, <2>2, <2>3
  <1> QED BY <1>4, <1>16, <1>18, <1>19

\* The screen keeps to what the second pass would draw.
LEMMA ScreenStep ==
  IInv /\ DInv /\ [Next]_vars => ScreenIsDrawn'
  <1> SUFFICES ASSUME IInv, DInv, [Next]_vars, ~reloaded', NEW c \in Cells
               PROVE  \/ fb'[c] = Known(c)' \/ c \in Covered(blit')
                      \/ \E x \in unseen' : ~Fresh(x)' /\ c \in Area(bnd'[x])
    BY DEF ScreenIsDrawn
  <1> DEFINE Goal == \/ fb'[c] = Known(c)' \/ c \in Covered(blit')
                     \/ \E x \in unseen' : ~Fresh(x)' /\ c \in Area(bnd'[x])
  <1>0. /\ ~reloaded => \/ fb[c] = Known(c) \/ c \in Covered(blit)
                        \/ \E x \in unseen : ~Fresh(x) /\ c \in Area(bnd[x])
        /\ TypeOK /\ FixedAsIs /\ FreshIsTodo /\ BoxIsCurrent /\ ScreenIsDrawn /\ ShownIsMarked /\ PassPosition
        /\ UnshownIsCovered /\ WhenNormalizing
    BY DEF DInv, ScreenIsDrawn, IInv
  <1>1. ASSUME NEW o \in Objs, NEW new \in TakenForNew(o), Prerender(o, new) PROVE Goal
    <2>1. ~reloaded /\ fb' = fb
      BY <1>1 DEF Prerender, imageVars
    <2> QED BY <1>0, <1>1, <2>1, PrerenderScreen
  \* Steps that leave the objects, the screen and the area of the list alone.
  <1>2. ASSUME UNCHANGED <<visible, bnd, curr, fb, unseen, reloaded>>,
               Covered(blit') = Covered(blit)
        PROVE  Goal
    <2>1. Known(c)' = Known(c) /\ \A x \in Objs : Fresh(x)' <=> Fresh(x)
      BY <1>2, KnownKept DEF Fresh
    <2>2. unseen \subseteq Objs
      BY <1>0 DEF TypeOK
    <2> QED BY <1>0, <1>2, <2>1, <2>2
  <1>3. ASSUME NEW o \in Objs, Validate(o) \/ SkipValid(o) PROVE Goal
    BY <1>2, <1>3 DEF Validate, SkipValid, objVars, imageVars, histVars, blitVars
  <1>4. CASE Normalize
    <2>1. Covered(blit') = Covered(blit)
      BY <1>4 DEF Normalize, NormalizeBegin, blitVars
    <2> QED BY <1>2, <1>4, <2>1 DEF Normalize, objVars, imageVars, histVars
  <1>5. CASE Normalizing
    <2>1. Covered(blit') = Covered(blit)
      BY <1>0, <1>5, NormalizeCovers DEF Normalizing, blit_normalize, TypeOK
    <2> QED BY <1>2, <1>5, <2>1 DEF Normalizing, objVars, imageVars, histVars
  <1>6. CASE Render
    BY <1>2, <1>6 DEF Render, objVars, histVars, blitVars
  <1>7. CASE PaintImg
    <2>1. /\ pc = "copy" /\ UNCHANGED <<visible, bnd, curr, unseen, reloaded>>
          /\ fb' = [d \in Cells |-> IF d \in Covered(blit) THEN buf[d] ELSE fb[d]]
      BY <1>7 DEF PaintImg, objVars
    <2>2. Known(c)' = Known(c) /\ \A x \in Objs : Fresh(x)' <=> Fresh(x)
      BY <2>1, KnownKept DEF Fresh
    <2>3. CASE c \in Covered(blit)
      <3>1. \A x \in Objs : visible[x] => ~Fresh(x)
        BY <1>0, <2>1, PendingIs DEF FreshIsTodo, Todo
      <3> QED BY <2>1, <2>2, <2>3, <3>1, DrawnIsKnown DEF DInv, ListIsRendered
    <2>4. CASE c \notin Covered(blit)
      <3>1. unseen \subseteq Objs
        BY <1>0 DEF TypeOK
      <3> QED BY <1>0, <2>1, <2>2, <2>4, <3>1
    <2> QED BY <2>3, <2>4
  <1>8. CASE PutImg
    <2>1. pc = "copy" /\ force /\ UNCHANGED <<visible, bnd, curr>> /\ fb' = buf
      BY <1>8 DEF PutImg, objVars
    <2>2. \A x \in Objs : ~Todo(x)
      BY <1>0, <2>1, PendingIs DEF Todo
    <2>3. buf[c] = Drawn(c)
      BY <2>1, <2>2 DEF DInv, BufferIsDrawn
    <2>4. \A x \in Objs : visible[x] => ~Fresh(x)
      BY <2>2 DEF DInv, FreshIsTodo
    <2> QED BY <2>1, <2>3, <2>4, DrawnIsKnown, KnownKept
  <1>9. CASE CmdPaint \/ CmdRepaint
    BY <1>2, <1>9 DEF CmdPaint, CmdRepaint, objVars, imageVars, histVars, blitVars
  <1>10. CASE SetTheme
    BY <1>10 DEF SetTheme
  <1>11. ASSUME NEW p \in 0..PMax, Progress(p) PROVE Goal
    BY <1>2, <1>11 DEF Progress, imageVars, blitVars
  <1>12. ASSUME NEW o \in Objs, Switch(o) PROVE Goal
    <2>1. /\ UNCHANGED <<bnd, curr, fb, reloaded>>
          /\ visible' = [visible EXCEPT ![o] = ~@]
      BY <1>12 DEF Switch, imageVars
    <2>2. visible[o] => blit' = Append(blit, rect_sanitize(bnd[o])) /\ unseen' = unseen \ {o}
      BY <1>12 DEF Switch, BlitAdd, blit_add
    <2>3. ~visible[o] => blit' = blit /\ unseen' = unseen \union {o}
      BY <1>12 DEF Switch, blitVars
    <2>4. blit \in Seq(ScreenRects) /\ bnd[o] \in Rects
      BY <1>0 DEF TypeOK, BlitTypeOK
    <2>5. visible[o] => Covered(blit) \subseteq Covered(blit') /\ Area(bnd[o]) \subseteq Covered(blit')
      <3>1. Covered(Append(blit, rect_sanitize(bnd[o])))
              = Covered(blit) \union Area(rect_sanitize(bnd[o]))
        BY <2>4, SanitizeOnScreen, AppendCovers
      <3> QED BY <2>2, <2>4, <3>1, SanitizeKeeps
    <2>6. \A x \in Objs : Fresh(x)' <=> Fresh(x)
      BY <2>1 DEF Fresh
    <2>7. Fresh(o) \/ c \notin Area(bnd[o]) => Known(c)' = Known(c)
      <3> SUFFICES ASSUME Fresh(o) \/ ~In(bnd[o], c) PROVE Known(c)' = Known(c)
        BY DEF Area
      <3>1. \A x \in Objs : visible'[x] /\ ~Fresh(x)' /\ In(bnd[x], c)
                             <=> visible[x] /\ ~Fresh(x) /\ In(bnd[x], c)
        BY <1>0, <2>1, <2>6 DEF TypeOK
      <3>2. Known(c)' = {Layer(x, curr[x]) : x \in {y \in Objs : visible'[y] /\ ~Fresh(y)' /\ In(bnd[y], c)}}
        BY <2>1 DEF Known
      <3> QED BY <3>1, <3>2 DEF Known
    <2>8. unseen \subseteq Objs
      BY <1>0 DEF TypeOK
    <2>9. CASE ~Fresh(o) /\ c \in Area(bnd[o])
      BY <2>1, <2>3, <2>5, <2>6, <2>9
    <2>10. CASE Fresh(o) \/ c \notin Area(bnd[o])
      BY <1>0, <2>1, <2>2, <2>3, <2>5, <2>6, <2>7, <2>8, <2>10
    <2> QED BY <2>9, <2>10
  <1>13. ASSUME NEW a \in PaintRects, PaintRect(a) PROVE Goal
    <2>1. PICK A : fb' = [d \in Cells |-> IF d \in A THEN buf[d] ELSE fb[d]]
      BY <1>13 DEF PaintRect
    <2>2. pc = "idle" /\ UNCHANGED <<visible, bnd, curr, unseen, reloaded, blit>>
      BY <1>13 DEF PaintRect, objVars, histVars, blitVars
    <2>3. fb' = fb
      BY <1>0, <2>1, <2>2 DEF UnshownIsCovered
    <2> QED BY <1>2, <2>2, <2>3
  <1>14. CASE UNCHANGED vars
    BY <1>2, <1>14 DEF vars, objVars, imageVars, histVars, blitVars
  <1> QED BY <1>1, <1>3, <1>4, <1>5, <1>6, <1>7, <1>8, <1>9, <1>10, <1>11, <1>12, <1>13, <1>14
          DEF Next, Painter, FirstPass

\* A repaint marks every object as a whole, and what it marks is rendered.
LEMMA FilledStep == IInv /\ DInv /\ [Next]_vars => BufferIsDrawn'
  <1> DEFINE Filled(c) == \/ buf[c] = Drawn(c) \/ (pc # "copy" /\ c \in Covered(blit))
                          \/ \E x \in Objs : Todo(x) /\ visible[x] /\ c \in Area(bnd[x])
  <1> SUFFICES ASSUME IInv, DInv, [Next]_vars, force', NEW c \in Cells
               PROVE  Filled(c)'
    BY DEF BufferIsDrawn
  <1>0. /\ force => Filled(c)
        /\ TypeOK /\ FixedAsIs /\ PassPosition /\ WhenNormalizing
        /\ pc = "idle" => ~force
    BY DEF DInv, BufferIsDrawn, IInv, UnshownIsCovered
  \* Steps that leave the objects, the buffer and the area of the list alone.
  <1>1. ASSUME UNCHANGED <<visible, bnd, curr, buf, force>>, Covered(blit') = Covered(blit),
               pc' = "copy" => Covered(blit') = {},
               \A x \in Objs : Todo(x) => Todo(x)'
        PROVE  Filled(c)'
    <2>1. Drawn(c)' = Drawn(c)
      BY <1>1, DrawnKept
    <2> QED BY <1>0, <1>1, <2>1
  <1>2. ASSUME NEW o \in Objs, NEW new \in TakenForNew(o), Prerender(o, new) PROVE Filled(c)'
    <2> DEFINE marked == MarkedBy(o, TRUE)
    <2>1. /\ force /\ UNCHANGED <<visible, invalid, buf>> /\ pc = "mark" /\ pc' = "mark"
          /\ blit' = BlitAll(blit, marked)
      BY <1>2 DEF Prerender, imageVars
    <2>2. ObjTypeOK /\ blit \in Seq(ScreenRects)
      BY <1>0 DEF TypeOK, ObjTypeOK, BlitTypeOK
    <2>3. marked \in Seq(Rects)
      BY <2>2, MarkTypes
    <2>4. Covered(blit) \subseteq Covered(blit') /\ Covered(marked) \subseteq Covered(blit')
      BY <2>1, <2>2, <2>3, AllCovered
    <2>5. visible[o] => Area(bnd[o]) \union Area(At[o][progress].re) \subseteq Covered(marked)
      BY <1>0, <2>2, WholeMarks DEF Skipped
    <2>6. \A x \in Objs : x # o => bnd'[x] = bnd[x]
      BY <1>0, <1>2 DEF Prerender, TypeOK
    <2> HIDE DEF marked
    <2>7. CASE Drawn(c)' # Drawn(c)
      <3>1. visible[o] /\ ~Agrees(o, c)
        BY <1>0, <1>2, <2>7, DrawnChanges
      <3>2. c \in Area(bnd[o]) \union Area(At[o][progress].re)
        BY <3>1 DEF Agrees, Area
      <3> QED BY <2>1, <2>4, <2>5, <3>1, <3>2
    <2>8. ASSUME NEW x \in Objs, Todo(x), visible[x], c \in Area(bnd[x]) PROVE Filled(c)'
      <3>1. CASE x = o
        BY <2>1, <2>4, <2>5, <2>8, <3>1
      <3>2. CASE x # o
        <4>1. Pending(x)'
          BY <1>0, <1>2, <2>8, <3>2, PendingStep DEF Todo
        <4>2. Todo(x)' /\ visible'[x] /\ c \in Area(bnd'[x])
          BY <2>1, <2>6, <2>8, <3>2, <4>1 DEF Todo
        <4> QED BY <4>2
      <3> QED BY <3>1, <3>2
    <2> QED BY <1>0, <2>1, <2>4, <2>7, <2>8
  <1>3. ASSUME NEW o \in Objs, Validate(o) PROVE Filled(c)'
    <2>1. /\ UNCHANGED <<visible, bnd, curr, buf, force, blit>> /\ pc' = "mark"
          /\ invalid' = [invalid EXCEPT ![o] = FALSE]
      BY <1>3 DEF Validate, imageVars, blitVars
    <2>2. \A x \in Objs : Todo(x) => Todo(x)'
      BY <1>0, <1>3, <2>1, PendingStep DEF Todo, TypeOK
    <2> QED BY <1>1, <2>1, <2>2
  <1>4. ASSUME NEW o \in Objs, SkipValid(o) PROVE Filled(c)'
    <2>1. UNCHANGED <<visible, bnd, curr, buf, force, blit, invalid>> /\ pc' = "mark" /\ ~invalid[o]
      BY <1>4 DEF SkipValid, objVars, imageVars, blitVars
    <2>2. \A x \in Objs : Todo(x) => Todo(x)'
      BY <1>0, <1>4, <2>1, PendingStep DEF Todo
    <2> QED BY <1>1, <2>1, <2>2
  <1>5. CASE Normalize
    <2>1. UNCHANGED <<visible, bnd, curr, buf, force>> /\ Covered(blit') = Covered(blit)
      BY <1>5 DEF Normalize, NormalizeBegin, objVars, imageVars, blitVars
    <2>2. pc' = "copy" => Covered(blit') = {}
      <3>1. Covered(<<>>) = {}
        BY DEF Covered, Range
      <3> QED BY <1>5, <3>1 DEF Normalize, blitVars
    <2>3. \A x \in Objs : ~Todo(x)
      BY <1>0, <1>5, PendingIs DEF Normalize, Todo
    <2> QED BY <1>1, <2>1, <2>2, <2>3
  <1>6. CASE Normalizing
    <2>1. Covered(blit') = Covered(blit)
      BY <1>0, <1>6, NormalizeCovers DEF Normalizing, blit_normalize, TypeOK
    <2>2. /\ UNCHANGED <<visible, bnd, curr, buf, force>> /\ pc' # "copy" /\ pc = "normalize"
      BY <1>6 DEF Normalizing, objVars, imageVars
    <2>3. \A x \in Objs : ~Todo(x)
      BY <1>0, <2>2, PendingIs DEF Todo
    <2> QED BY <1>1, <2>1, <2>2, <2>3
  <1>7. CASE Render
    <2>1. /\ UNCHANGED <<visible, bnd, curr, force>> /\ pc = "render"
          /\ buf' = [d \in Cells |-> IF d \in Covered(blit) THEN Drawn(d) ELSE buf[d]]
      BY <1>7 DEF Render, objVars
    <2>2. \A x \in Objs : ~Todo(x)
      BY <1>0, <2>1, PendingIs DEF Todo
    <2> QED BY <1>0, <2>1, <2>2, DrawnKept
  <1>8. CASE PaintImg \/ PutImg
    BY <1>8 DEF PaintImg, PutImg
  <1>9. CASE CmdPaint \/ SetTheme
    BY <1>0, <1>9 DEF CmdPaint, SetTheme
  <1>10. CASE CmdRepaint
    <2>1. /\ buf' = [d \in Cells |-> {}] /\ invalid' = [x \in Objs |-> TRUE]
          /\ pc' = "mark" /\ pos' = 1 /\ UNCHANGED <<visible, bnd, curr>>
      BY <1>10 DEF CmdRepaint
    <2>2. \A x \in Objs : Todo(x)'
      BY <2>1, ObjNumbers DEF Todo, Pending
    <2>3. CASE \E x \in Objs : visible[x] /\ In(bnd[x], c)
      BY <2>1, <2>2, <2>3 DEF Area
    <2>4. CASE ~ \E x \in Objs : visible[x] /\ In(bnd[x], c)
      <3>1. Drawn(c) = {}
        BY <2>4, LayersAre
      <3> QED BY <2>1, <3>1, DrawnKept
    <2> QED BY <2>3, <2>4
  <1>11. ASSUME NEW p \in 0..PMax, Progress(p) PROVE Filled(c)'
    <2>1. /\ UNCHANGED <<visible, bnd, curr, buf, force, blit, pc, pos>>
          /\ invalid' = [x \in Objs |-> invalid[x] \/ x \in {y \in Objs : DependsOnProgress(y)}]
      BY <1>11 DEF Progress, imageVars, blitVars
    <2>2. Drawn(c)' = Drawn(c)
      BY <2>1, DrawnKept
    <2>3. \A x \in Objs : Todo(x) => Todo(x)'
      BY <2>1 DEF Todo, Pending
    <2> QED BY <1>0, <2>1, <2>2, <2>3
  <1>12. ASSUME NEW o \in Objs, Switch(o) PROVE Filled(c)'
    BY <1>0, <1>12 DEF Switch
  <1>13. ASSUME NEW a \in PaintRects, PaintRect(a) PROVE Filled(c)'
    BY <1>0, <1>13 DEF PaintRect
  <1>14. CASE UNCHANGED vars
    <2>1. UNCHANGED <<visible, invalid, bnd, curr, buf, force, blit, pc, pos>>
      BY <1>14 DEF vars, objVars, imageVars, blitVars
    <2>2. Drawn(c)' = Drawn(c)
      BY <2>1, DrawnKept
    <2> QED BY <1>0, <2>1, <2>2 DEF Todo, Pending
  <1> QED BY <1>2, <1>3, <1>4, <1>5, <1>6, <1>7, <1>8, <1>9, <1>10, <1>11, <1>12, <1>13, <1>14
          DEF Next, Painter, FirstPass

\* All of it together is inductive.
LEMMA DStep == IInv /\ DInv /\ [Next]_vars => DInv'
  <1> SUFFICES ASSUME IInv, DInv, [Next]_vars PROVE DInv'
    OBVIOUS
  <1>1. ScreenIsDrawn' /\ BufferIsDrawn'
    BY ScreenStep, FilledStep
  <1>2. /\ TypeOK /\ UnshownIsCovered /\ FixedAsIs /\ PassPosition /\ ListIsRendered
        /\ FreshIsTodo /\ BoxIsCurrent /\ ChangesAreMarked /\ ShownIsMarked /\ InvalidIsPending
    BY DEF IInv, DInv
  <1>3. FixedAsIs' /\ PassPosition' /\ ListIsRendered' /\ FreshIsTodo' /\ BoxIsCurrent'
    BY <1>2, FixedStep, PositionStep, RenderedStep, FreshStep, BoxStep
  <1>4. ChangesAreMarked' /\ ShownIsMarked' /\ InvalidIsPending'
    BY <1>2, ChangesStep, ShownStep, InvalidStep
  <1> QED BY <1>1, <1>3, <1>4 DEF DInv

-----------------------------------------------------------------------------
(* The painter implements ScreenContract                                   *)

\* The rectangles an object puts on the list, once they are on it.
LEMMA AreaOfIs ==
  ASSUME TypeOK, NEW o \in Objs, NEW whole \in BOOLEAN
  PROVE  /\ AreaOf(o, whole) = Covered(BlitAll(<<>>, MarkedBy(o, whole)))
         /\ Covered(MarkedBy(o, whole)) \subseteq AreaOf(o, whole)
  <1>1. MarkedBy(o, whole) \in Seq(Rects)
    BY MarkTypes DEF TypeOK, ObjTypeOK
  <1>2. AreaOf(o, whole) = Covered(BlitAll(<<>>, MarkedBy(o, whole)))
    BY DEF AreaOf
  <1>3. <<>> \in Seq(ScreenRects)
    OBVIOUS
  <1>4. Covered(MarkedBy(o, whole)) \subseteq Covered(BlitAll(<<>>, MarkedBy(o, whole)))
    BY <1>1, <1>3, AllCovered
  <1> QED BY <1>2, <1>4

Asked     == UNION {AreaOf(o, force) : o \in {x \in Objs : invalid[x] /\ Pending(x)}}
AskedLate == UNION {AreaOf(o, FALSE) : o \in {x \in Objs : x \in late /\ invalid[x] /\ ~Pending(x)}}

\* Where what the second pass would draw is not what is wanted, an object has to
\* be prerendered and will mark it, now or in the next paint, or it is one of the
\* cells that may be overlooked.
LEMMA DrawnOrAsked ==
  ASSUME IInv, DInv, force \/ ~reloaded, NEW c \in Cells, Drawn(c) # Wanted(c)
  PROVE  c \in Asked \/ c \in AskedLate \/ c \in Overlooked
  <1>0. TypeOK /\ ObjTypeOK /\ FixedAsIs
    BY DEF IInv, DInv, TypeOK, ObjTypeOK
  <1>1. PICK o \in Objs : visible[o] /\ ~Agrees(o, c)
    BY DrawnAsWanted
  <1>2. c \in ExtentOf(o)
    BY <1>1 DEF Agrees, ExtentOf, Area
  <1>3. DependsOnProgress(o)
    BY <1>1 DEF DInv, FixedAsIs, Agrees
  <1>4. CASE o \in missed \/ o \in unseen
    BY <1>1, <1>2, <1>3, <1>4 DEF Overlooked
  <1>5. CASE o \notin missed /\ o \notin unseen
    <2>1. bnd[o] = curr[o].re \/ (force /\ Todo(o))
      BY <1>1, <1>5 DEF DInv, BoxIsCurrent, Settled
    <2>2. CASE Todo(o)
      <3>1. ~Skipped(o, force)
        BY <1>1, <2>1 DEF Skipped, Agrees
      <3>2. force \/ bnd[o] = curr[o].re
        BY <2>1
      <3>3. force \in BOOLEAN
        BY <1>0 DEF TypeOK
      <3>4. c \in Covered(MarkedBy(o, force))
        BY <1>0, <1>1, <3>1, <3>2, <3>3, MarksSuffice
      <3>5. c \in AreaOf(o, force)
        BY <1>0, <3>3, <3>4, AreaOfIs
      <3> QED BY <2>2, <3>5 DEF Asked, Todo
    <2>3. CASE ~Todo(o)
      <3>1. bnd[o] = curr[o].re
        BY <2>1, <2>3
      <3>2. curr[o] # At[o][progress]
        BY <1>1, <3>1 DEF Agrees
      <3>3. invalid[o] /\ ~Pending(o) /\ o \in late
        BY <1>1, <1>5, <2>3, <3>2 DEF DInv, ChangesAreMarked, Todo
      <3>4. ~Skipped(o, FALSE)
        BY <3>2 DEF Skipped
      <3>5. c \in Covered(MarkedBy(o, FALSE))
        BY <1>0, <1>1, <3>1, <3>4, MarksSuffice
      <3>6. c \in AreaOf(o, FALSE)
        BY <1>0, <3>5, AreaOfIs
      <3> QED BY <3>3, <3>6 DEF AskedLate
    <2> QED BY <2>2, <2>3
  <1> QED BY <1>4, <1>5

\* A cell of the screen that is not as it is wanted is asked for, or one of those
\* that may be overlooked.
LEMMA AccountedFor == IInv /\ DInv => Screen!Accounted
  <1> SUFFICES ASSUME IInv, DInv, NEW c \in Cells, fb[c] # Wanted(c)
               PROVE  c \in Covered(blit) \/ c \in Asked \/ c \in AskedLate \/ c \in Overlooked
    BY DEF Screen!Accounted, Asked, AskedLate
  <1>1. CASE reloaded
    BY <1>1 DEF Overlooked
  <1>2. CASE ~reloaded
    <2>1. CASE fb[c] = Drawn(c)
      BY <1>2, <2>1, DrawnOrAsked
    <2>2. CASE fb[c] = Known(c) /\ Drawn(c) # Known(c)
      <3>1. PICK o \in Objs : visible[o] /\ Fresh(o) /\ In(bnd[o], c)
        BY <2>2, DrawnIsKnown
      <3>2. c \in Area(bnd[o])
        BY <3>1 DEF Area
      <3>3. CASE o \in unseen
        BY <1>2, <3>1, <3>2, <3>3 DEF Overlooked, ExtentOf, Fresh, Graded, DependsOnProgress
      <3>4. CASE force /\ Todo(o)
        <4>1. ObjTypeOK /\ FixedAsIs /\ TypeOK
          BY DEF IInv, DInv, TypeOK, ObjTypeOK
        <4>2. force = TRUE
          BY <3>4, <4>1 DEF TypeOK
        <4>3. ~Skipped(o, force)
          BY <4>2 DEF Skipped
        <4>4. c \in Covered(MarkedBy(o, force))
          BY <3>1, <3>2, <4>1, <4>2, <4>3, WholeMarks
        <4>5. c \in AreaOf(o, force)
          BY <4>1, <4>2, <4>4, AreaOfIs
        <4> QED BY <3>4, <4>5 DEF Asked, Todo
      <3> QED BY <1>2, <3>1, <3>3, <3>4 DEF DInv, BoxIsCurrent, Settled
    <2>3. ASSUME NEW o \in unseen, c \in Area(bnd[o])
          PROVE  c \in Asked \/ c \in Overlooked
      <3>0. TypeOK /\ o \in Objs /\ force \in BOOLEAN /\ bnd[o] \in Rects
        BY DEF IInv, TypeOK
      <3>1. visible[o] /\ (DependsOnProgress(o) \/ Todo(o))
        BY DEF DInv, ShownIsMarked
      <3>2. CASE DependsOnProgress(o)
        BY <1>2, <2>3, <3>0, <3>1, <3>2 DEF Overlooked, ExtentOf
      <3>3. CASE ~DependsOnProgress(o)
        <4>1. Theme[o].kind = "fixed"
          BY <3>3 DEF DependsOnProgress
        <4>2. ~Skipped(o, force)
          BY <3>3 DEF Skipped
        <4>3. MarkedBy(o, force) = <<bnd[o]>>
          BY <3>1, <4>1, <4>2 DEF MarkedBy, Marks, Bars, Graded
        <4>4. Covered(<<bnd[o]>>) = Area(bnd[o])
          BY OneTwo
        <4>5. c \in AreaOf(o, force)
          BY <2>3, <3>0, <4>3, <4>4, AreaOfIs
        <4> QED BY <3>0, <3>1, <3>3, <4>5 DEF Asked, Todo
      <3> QED BY <3>2, <3>3
    <2> QED BY <1>2, <2>1, <2>2, <2>3 DEF DInv, ScreenIsDrawn
  <1> QED BY <1>1, <1>2

\* So it is after every step.
LEMMA AccountedNext == IInv /\ DInv /\ [Next]_vars => Screen!Accounted'
  <1>1. IInv /\ DInv /\ [Next]_vars => IInv' /\ DInv'
    BY TypeStep, PointersStep, PassedStep, BufferStep, DStep DEF IInv
  <1> QED BY <1>1, AccountedFor, PTL

\* What an object will mark depends on these variables alone.
LEMMA AreaKept ==
  ASSUME UNCHANGED <<visible, bnd, curr, progress>>, NEW o, NEW whole
  PROVE  AreaOf(o, whole)' = AreaOf(o, whole)
  <1>1. ASSUME NEW new PROVE BarMarks(o, new, whole)' = BarMarks(o, new, whole)
    BY DEF BarMarks, MapSeq
  <1>2. ASSUME NEW new PROVE Marks(o, new, whole)' = Marks(o, new, whole)
    BY <1>1 DEF Marks
  <1>3. Skipped(o, whole)' = Skipped(o, whole)
    BY DEF Skipped
  <1>4. MarkedBy(o, whole)' = MarkedBy(o, whole)
    BY <1>2, <1>3 DEF MarkedBy
  <1> QED BY <1>4 DEF AreaOf

\* What is wanted depends on what is visible and the progress.
LEMMA WantedKept ==
  ASSUME UNCHANGED <<visible, progress>>, NEW c
  PROVE  Wanted(c)' = Wanted(c)
  BY DEF Wanted, Layers

\* Without a repaint, objects mark what the next paint would.
LEMMA AreaNotForced == ~force /\ force \in BOOLEAN => \A o \in Objs : AreaOf(o, force) = AreaOf(o, FALSE)
  <1> SUFFICES ASSUME force = FALSE, NEW o \in Objs PROVE AreaOf(o, force) = AreaOf(o, FALSE)
    OBVIOUS
  <1> QED OBVIOUS

\* After a paint, what was asked for late is what the next paint is asked for.
LEMMA LateBecomesAsked ==
  ASSUME TypeOK, PassPosition, InvalidIsPending, pc = "copy", pc' = "idle", ~force', force' \in BOOLEAN,
         late' = {}, UNCHANGED <<visible, invalid, bnd, curr, progress>>
  PROVE  Asked = {} /\ Asked' = AskedLate /\ AskedLate' = {}
  <1>1. \A o \in Objs : ~Pending(o) /\ Pending(o)'
    BY PendingIs DEF Pending
  <1>2. \A o \in Objs : invalid[o] => o \in late
    <2>1. \A o \in Objs : pos # -o
      BY ObjNumbers DEF PassPosition
    <2> QED BY <1>1, <2>1 DEF InvalidIsPending
  <1>3. Asked = {}
    BY <1>1 DEF Asked
  <1>4. AskedLate' = {}
    BY DEF AskedLate
  <1>5. \A o \in Objs : AreaOf(o, force)' = AreaOf(o, FALSE)'
    <2>1. (~force /\ force \in BOOLEAN)'
      OBVIOUS
    <2>2. (\A o \in Objs : AreaOf(o, force) = AreaOf(o, FALSE))'
      BY <2>1, AreaNotForced, PTL
    <2> QED BY <2>2
  <1>6. \A o \in Objs : AreaOf(o, FALSE)' = AreaOf(o, FALSE)
    BY AreaKept
  <1>7. Asked' = UNION {AreaOf(o, force)' : o \in {x \in Objs : invalid'[x] /\ Pending(x)'}}
    BY DEF Asked
  <1>8. Asked' = UNION {AreaOf(o, FALSE) : o \in {x \in Objs : invalid'[x] /\ Pending(x)'}}
    BY <1>5, <1>6, <1>7
  <1>9. {x \in Objs : invalid'[x] /\ Pending(x)'}
          = {x \in Objs : x \in late /\ invalid[x] /\ ~Pending(x)}
    BY <1>1, <1>2
  <1> QED BY <1>3, <1>4, <1>8, <1>9 DEF AskedLate

\* paint_img brings what was marked up to date, and leaves the rest alone.
LEMMA PaintImgPaints == IInv /\ DInv /\ PaintImg /\ Screen!Accounted' => Screen!Paint
  <1> SUFFICES ASSUME IInv, DInv, PaintImg, Screen!Accounted' PROVE Screen!Paint
    OBVIOUS
  <1> DEFINE marked == Covered(blit) \union Asked
  <1>1. /\ pc = "copy" /\ pc' = "idle" /\ ~force /\ force' = force /\ late' = {} /\ blit' = <<>>
        /\ fb' = [c \in Cells |-> IF c \in Covered(blit) THEN buf[c] ELSE fb[c]]
        /\ UNCHANGED <<visible, invalid, bnd, curr, progress>>
    BY DEF PaintImg, objVars
  <1>2. TypeOK /\ PassPosition /\ InvalidIsPending /\ force' \in BOOLEAN
    BY <1>1 DEF IInv, DInv, TypeOK
  <1>3. Asked = {} /\ Asked' = AskedLate /\ AskedLate' = {}
    BY <1>1, <1>2, LateBecomesAsked
  <1>4. Covered(blit') = {}
    BY <1>1 DEF Covered, Range
  <1>5. \A c \in Cells : Wanted(c)' = Wanted(c)
    BY <1>1, WantedKept
  <1>6. [c \in Cells |-> Wanted(c)]' = [c \in Cells |-> Wanted(c)]
    BY <1>5
  <1>7. \A c \in Cells \ (marked \union Overlooked) : fb'[c] = fb[c]
    BY <1>1
  <1>8. ASSUME NEW c \in marked \ (AskedLate \union Overlooked)
        PROVE  fb'[c] = [d \in Cells |-> Wanted(d)][c]
    <2>1. c \in Covered(blit) /\ c \in Cells
      BY <1>3 DEF Covered, Area
    <2>2. fb'[c] = Drawn(c)
      BY <1>1, <2>1 DEF DInv, ListIsRendered
    <2>3. CASE ~reloaded
      BY <1>3, <2>1, <2>2, <2>3, DrawnOrAsked
    <2>4. CASE reloaded
      BY <2>1, <2>4 DEF Overlooked
    <2> QED BY <2>3, <2>4
  <1>9. marked' = AskedLate
    BY <1>3, <1>4
  <1> QED BY <1>3, <1>6, <1>7, <1>8, <1>9 DEF Screen!Paint, Asked, AskedLate

\* put_img brings the screen up to date, and the marks stay.
LEMMA PutImgRepaints == IInv /\ DInv /\ PutImg /\ Screen!Accounted' => Screen!Repaint
  <1> SUFFICES ASSUME IInv, DInv, PutImg, Screen!Accounted' PROVE Screen!Repaint
    OBVIOUS
  <1> DEFINE marked == Covered(blit) \union Asked
  <1>1. /\ pc = "copy" /\ pc' = "idle" /\ force /\ ~force' /\ force' \in BOOLEAN /\ late' = {}
        /\ blit' = blit /\ fb' = buf /\ UNCHANGED <<visible, invalid, bnd, curr, progress>>
    BY DEF PutImg, objVars, blitVars
  <1>2. TypeOK /\ PassPosition /\ InvalidIsPending
    BY DEF IInv, DInv
  <1>3. Asked = {} /\ Asked' = AskedLate /\ AskedLate' = {}
    BY <1>1, <1>2, LateBecomesAsked
  <1>4. \A c \in Cells : Wanted(c)' = Wanted(c)
    BY <1>1, WantedKept
  <1>5. [c \in Cells |-> Wanted(c)]' = [c \in Cells |-> Wanted(c)]
    BY <1>4
  <1>6. ASSUME NEW c \in Cells \ (AskedLate \union Overlooked)
        PROVE  fb'[c] = [d \in Cells |-> Wanted(d)][c]
    <2>1. \A o \in Objs : ~Todo(o)
      BY <1>1, <1>2, PendingIs DEF Todo
    <2>2. buf[c] = Drawn(c)
      BY <1>1, <2>1 DEF DInv, BufferIsDrawn
    <2>3. Drawn(c) = Wanted(c)
      BY <1>1, <1>3, DrawnOrAsked
    <2> QED BY <1>1, <2>2, <2>3
  <1>7. marked' = marked \union AskedLate
    BY <1>1, <1>3
  <1> QED BY <1>3, <1>5, <1>6, <1>7 DEF Screen!Repaint, Asked, AskedLate

\* 'paint rect' has nothing to show, unless nothing has been repainted yet.
LEMMA PaintRectExposes ==
  ASSUME IInv, DInv, NEW a \in PaintRects, PaintRect(a), fb' # fb
  PROVE  Screen!Expose
  <1>1. PICK A : fb' = [d \in Cells |-> IF d \in A THEN buf[d] ELSE fb[d]]
    BY DEF PaintRect
  <1>2. /\ pc = "idle" /\ pc' = "mark" /\ pos' = 1
        /\ UNCHANGED <<visible, invalid, bnd, curr, progress, blit, force, late, missed, unseen,
                       reloaded>>
    BY DEF PaintRect, objVars, histVars, blitVars
  <1>3. reloaded
    BY <1>1, <1>2 DEF IInv, UnshownIsCovered
  <1>4. Overlooked = Cells /\ Overlooked' = Cells
    BY <1>2, <1>3 DEF Overlooked
  <1>5. \A o \in Objs : Pending(o) /\ Pending(o)'
    BY <1>2, ObjNumbers DEF Pending
  <1>6. force = FALSE /\ force' = FALSE /\ late = {} /\ late' = {}
    BY <1>2 DEF IInv, UnshownIsCovered, DInv, PassPosition, TypeOK
  <1>7. \A o \in Objs : AreaOf(o, force) = AreaOf(o, FALSE) /\ AreaOf(o, force)' = AreaOf(o, FALSE)'
    <2>1. ~force /\ force \in BOOLEAN /\ (~force /\ force \in BOOLEAN)'
      BY <1>6
    <2>2. \A o \in Objs : AreaOf(o, force) = AreaOf(o, FALSE)
      BY <2>1, AreaNotForced
    <2>3. (\A o \in Objs : AreaOf(o, force) = AreaOf(o, FALSE))'
      BY <2>1, AreaNotForced, PTL
    <2> QED BY <2>2, <2>3
  <1>8. \A o \in Objs : AreaOf(o, FALSE)' = AreaOf(o, FALSE)
    BY <1>2, AreaKept
  <1>9. \A o \in Objs : AreaOf(o, force)' = AreaOf(o, force)
    BY <1>7, <1>8
  <1>10. Asked' = Asked /\ Covered(blit') = Covered(blit)
    BY <1>2, <1>5, <1>9 DEF Asked
  <1>11. AskedLate' = AskedLate
    BY <1>6 DEF AskedLate
  <1>12. \A c \in Cells : Wanted(c)' = Wanted(c)
    BY <1>2, WantedKept
  <1>13. [c \in Cells |-> Wanted(c)]' = [c \in Cells |-> Wanted(c)]
    BY <1>12
  <1> QED BY <1>4, <1>10, <1>11, <1>13 DEF Screen!Expose, Asked, AskedLate

\* Every step of the painter is a step of the contract.
LEMMA ContractStep ==
  IInv /\ DInv /\ [Next]_vars =>
    Screen!Ask \/ Screen!Expose \/ Screen!Paint \/ Screen!Repaint
  <1> SUFFICES ASSUME IInv, DInv, [Next]_vars
               PROVE  Screen!Ask \/ Screen!Expose \/ Screen!Paint \/ Screen!Repaint
    OBVIOUS
  <1>1. Screen!Accounted'
    BY AccountedNext
  <1>2. CASE fb' = fb
    BY <1>1, <1>2 DEF Screen!Ask
  <1>3. CASE PaintImg
    BY <1>1, <1>3, PaintImgPaints
  <1>4. CASE PutImg
    BY <1>1, <1>4, PutImgRepaints
  <1>5. ASSUME NEW a \in PaintRects, PaintRect(a)
        PROVE  Screen!Ask \/ Screen!Expose \/ Screen!Paint \/ Screen!Repaint
    BY <1>2, <1>5, PaintRectExposes
  <1> QED BY <1>2, <1>3, <1>4, <1>5 DEF Next, Painter, FirstPass, Prerender, Validate, SkipValid,
          Normalize, Normalizing, Render, CmdPaint, CmdRepaint, SetTheme, Progress, Switch,
          imageVars, vars

-----------------------------------------------------------------------------
(* Theorems                                                                *)

\* The inductive invariant: types, blit_normalize's pointers are set exactly
\* while it runs, the pairs it has left behind are apart, and what the screen
\* has not of the buffer is about to be copied.
THEOREM PaintingInvariance == Spec => []IInv
  <1>1. IInv /\ [Next]_vars => IInv'
    BY TypeStep, PointersStep, PassedStep, BufferStep DEF IInv
  <1> QED BY InitIInv, <1>1, PTL DEF Spec

\* The variables keep their types for every theme: whatever rectangles objects
\* have, those on the re-blit list lie on the screen (rect_sanitize).
THEOREM PaintingTypes == Spec => []TypeOK
  <1>1. IInv => TypeOK
    BY DEF IInv
  <1> QED BY PaintingInvariance, <1>1, PTL

\* blit_normalize has compared every pair it leaves behind, for a list of any
\* length, although it replaces and removes items while it walks the list.
THEOREM PassedTheorem == Spec => []PassedApart
  <1>1. IInv => PassedApart
    BY DEF IInv
  <1> QED BY PaintingInvariance, <1>1, PTL

\* blit_normalize never changes the area that the next copy to the screen will
\* bring up to date, not even between two of its rounds.
THEOREM CoverageTheorem == Spec => CoverageKept
  <1>1. IInv /\ [Next]_vars => [i > 0 => Covered(blit') = Covered(blit)]_blitVars
    <2> SUFFICES ASSUME IInv, [Next]_vars, i > 0 PROVE Covered(blit') = Covered(blit)
      OBVIOUS
    <2>1. blit_normalize \/ UNCHANGED blitVars
      BY OnlyNormalize DEF IInv
    <2> QED BY <2>1, NormalizeCovers DEF IInv, TypeOK, blitVars
  <1> QED BY PaintingInvariance, <1>1, PTL DEF Spec, CoverageKept

\* Between paints the screen shows the buffer, for every theme and whatever
\* 'paint rect' copies: all that the second pass draws, paint_img copies.
THEOREM BufferTheorem == Spec => []ScreenShowsBuffer
  <1>1. IInv => ScreenShowsBuffer
    BY DEF IInv, UnshownIsCovered, ScreenShowsBuffer
  <1> QED BY PaintingInvariance, <1>1, PTL

\* The inductive invariant behind the refinement: how the screen, the buffer, the
\* list and the marks of the objects are related at every step of a paint.
THEOREM DrawnInvariance == Spec => [](IInv /\ DInv)
  <1>1. IInv /\ DInv /\ [Next]_vars => IInv' /\ DInv'
    BY TypeStep, PointersStep, PassedStep, BufferStep, DStep DEF IInv
  <1> QED BY InitIInv, InitDInv, <1>1, PTL DEF Spec

\* The painter implements the contract of ScreenContract, for every theme: a
\* paint is one change of the marked cells, and a cell that is not as the theme,
\* the progress and the user want it is marked, or one of the few overlooked.
THEOREM PaintsTheorem == Spec => PaintsAsAsked
  <1>1. Init => Screen!ContractInit
    BY DEF Init, Screen!ContractInit, Screen!Accounted, Overlooked
  <1>2. IInv /\ DInv /\ [Next]_vars =>
          [Screen!Ask \/ Screen!Expose \/ Screen!Paint \/ Screen!Repaint]_(Screen!contractVars)
    BY ContractStep
  <1> QED BY <1>1, <1>2, DrawnInvariance, PTL DEF Spec, PaintsAsAsked, Screen!Contract
=============================================================================
