--------------------------- MODULE SplashScreenProofs ---------------------------
(***************************************************************************)
(* Proofs about SplashScreen for every theme, every number of objects and  *)
(* services, every effect time and any bound on requests: what is out of   *)
(* date on the screen is marked for the next paint, effects settle as      *)
(* asked, and those of icons are smooth on the screen.                     *)
(***************************************************************************)
EXTENDS SplashScreen, FiniteSetTheorems, WellFoundedInduction, TLAPS

-----------------------------------------------------------------------------
(* The inductive invariant                                                 *)

ObjType == [visible : BOOLEAN, opacity : 0..255, step : -255..255,
            timed : BOOLEAN, invalid : BOOLEAN]

ScreenTypes ==
  /\ obj \in [Objs -> ObjType]
  /\ fx \in Seq(Objs)
  /\ value \in [{"bar", "message", "log"} -> Nat]
  /\ textbox \in BOOLEAN

\* The steps of an object's effects are those of its blend-in and blend-out.
StepSizes(o, ob) ==
  ob.step \in {0, 255 \div OpacitySteps(Blendin[o]), -(255 \div OpacitySteps(Blendout[o]))}

\* An effect that is listed moves, and what is not listed has no effect left.
EffectSound(o, ob, listed) ==
  /\ Blendin[o] = 0 => ~listed /\ ob.opacity = 255
  /\ listed => ob.step # 0
  /\ ~listed /\ ob.visible => ob.opacity = 255

\* The object is on its way to where it is wanted.
Heading(ob, listed, wanted) ==
  IF wanted THEN ob.visible /\ (listed => ob.step > 0)
  ELSE ob.visible => listed /\ ob.step < 0

\* The objects obs and the list of effects fit together, and nothing has
\* hidden what is neither an icon nor in the textbox.
ObjectsSound(obs, list) ==
  \A o \in Objs :
    /\ StepSizes(o, obs[o])
    /\ Regular(o) => EffectSound(o, obs[o], Contains(list, o))
    /\ o \notin Icons \union Textbox => obs[o].visible /\ obs[o].step >= 0

\* Where nothing was ignored, the objects obs head where they are wanted now.
HeadsTo(obs, list) ==
  \A o \in Objs : Regular(o) /\ o \notin lost
                  => Heading(obs[o], Contains(list, o), Wanted(o))

\* How bright an icon is on the screen.
Bright(ob) == IF ob.visible THEN ob.opacity ELSE 0

BothWays(o) == Regular(o) /\ Blendin[o] > 0 /\ Blendout[o] > 0 /\ Kind[o] = "icon"

\* A box or an icon: the framebuffer f is right, or the object's area is on
\* the re-blit list, or its rendering will put it there, or nobody has seen
\* it since the theme was loaded.
BoxMarked(o, ob, f, listed) ==
  \/ f = LookOf(o, ob, 0)
  \/ listed
  \/ ob.invalid /\ ob.visible
  \/ reloaded /\ ~ob.visible

\* What the framebuffer shows of the object ob: boxes and icons are marked if
\* it is not right; once the theme was painted in full bars show the progress
\* rendered last, and icons their opacity.
PaintedObject(o, ob, listed) ==
  /\ Kind[o] \in {"box", "icon"} => BoxMarked(o, ob, fb[o], listed)
  /\ Kind[o] = "bar" /\ o \notin Textbox /\ ~reloaded =>
       fb[o] = LookOf(o, ob, shown[o]) /\ (shown[o] # Content(o) => ob.invalid)
  /\ BothWays(o) /\ ~reloaded => fb[o][1] = Bright(ob)

\* Boxes and icons have no content.
PlainShown == \A o \in Objs : Kind[o] \in {"box", "icon"} => shown[o] = 0

OnScreen == ctty = "silent"
Painted(obs, list) == OnScreen => \A o \in Objs : PaintedObject(o, obs[o], o \in list)

ScreenInvariant ==
  /\ ScreenTypes
  /\ ObjectsSound(obj, fx)
  /\ HeadsTo(obj, fx)
  /\ PlainShown
  /\ Painted(obj, blit)

-----------------------------------------------------------------------------
(* Induction on numbers and functions defined by recursion                 *)

\* A set with 0 and the successor of each of its numbers has every number:
\* induction in the form of a statement about a set, from the well-founded
\* order of the numbers.
LEMMA SetInduction ==
  ASSUME NEW S, 0 \in S, \A n \in S \intersect Nat : n + 1 \in S
  PROVE  Nat \subseteq S
  <1> DEFINE T == Nat \ S
             R == {ss \in Nat \X Nat : ss[1] < ss[2]}
  <1>1. SUFFICES ASSUME T # {} PROVE FALSE
    OBVIOUS
  <1>2. IsWellFoundedOn(R, Nat)
    BY NatLessThanWellFounded, Zenon DEF OpToRel
  <1>3. PICK x \in T : \A y \in T : ~(<<y, x>> \in R)
    <2>1. T \subseteq Nat
      OBVIOUS
    <2> HIDE DEF T, R
    <2> QED BY <1>1, <1>2, <2>1, WFMin
  <1>4. x \in Nat /\ x \notin S /\ x # 0 /\ x - 1 \in Nat
    OBVIOUS
  <1>5. <<x - 1, x>> \in R
    BY <1>4
  <1>6. x - 1 \in S
    BY <1>3, <1>4, <1>5
  <1>7. (x - 1) + 1 = x
    BY <1>4
  <1> QED BY <1>4, <1>6, <1>7

-----------------------------------------------------------------------------
(* Lists                                                                   *)

\* EffectsOf and NewEffects list the objects of a set, each once.
LEMMA SetToSeqLists ==
  ASSUME NEW T, IsFiniteSet(T)
  PROVE  /\ SetToSeq(T) \in Seq(T)
         /\ \A o : Contains(SetToSeq(T), o) <=> o \in T
  <1> DEFINE n == Cardinality(T)
             s == SetToSeq(T)
  <1>1. n \in Nat /\ ExistsBijection(1..n, T)
    BY FS_CardinalityType
  <1>2. PICK g \in Bijection(1..n, T) : TRUE
    BY <1>1 DEF ExistsBijection
  <1>3. g \in [1..n -> T] /\ IsInjective(g)
    BY <1>2, Zenon DEF Bijection, Injection, Surjection, IsInjective
  <1>4. s \in [1..n -> T] /\ IsInjective(s)
    BY <1>3 DEF SetToSeq
  <1> HIDE DEF s
  <1>5. s \in Injection(1..n, T)
    BY <1>4, Zenon DEF Injection
  <1>6. IsFiniteSet(1..n) /\ Cardinality(1..n) = n
    BY <1>1, FS_Interval
  <1>7. s \in Surjection(1..n, T)
    BY <1>5, <1>6, FS_Injection
  <1>8. \A o \in T : \E i \in 1..n : s[i] = o
    BY <1>7, Zenon DEF Surjection
  <1>9. s \in Seq(T) /\ Len(s) = n
    BY <1>1, <1>4
  <1>10. \A o : Contains(s, o) <=> o \in T
    BY <1>4, <1>8, <1>9 DEF Contains
  <1> QED BY <1>9, <1>10 DEF s

\* An object is on two lists if it is on either.
LEMMA ContainsConcat ==
  ASSUME NEW S, NEW s \in Seq(S), NEW t \in Seq(S), NEW o
  PROVE  Contains(s \o t, o) <=> Contains(s, o) \/ Contains(t, o)
  <1>1. /\ Len(s \o t) = Len(s) + Len(t)
        /\ \A i \in 1..Len(s) : (s \o t)[i] = s[i]
        /\ \A i \in 1..Len(t) : (s \o t)[Len(s) + i] = t[i]
    OBVIOUS
  <1>2. ASSUME Contains(s \o t, o) PROVE Contains(s, o) \/ Contains(t, o)
    <2>1. PICK i \in 1..Len(s \o t) : (s \o t)[i] = o
      BY <1>2 DEF Contains
    <2>2. CASE i <= Len(s)
      BY <1>1, <2>1, <2>2 DEF Contains
    <2>3. CASE i > Len(s)
      <3>1. i - Len(s) \in 1..Len(t) /\ Len(s) + (i - Len(s)) = i
        BY <1>1, <2>3
      <3>2. t[i - Len(s)] = o
        BY <1>1, <2>1, <3>1
      <3> QED BY <3>1, <3>2 DEF Contains
    <2> QED BY <2>2, <2>3
  <1>3. ASSUME Contains(s, o) PROVE Contains(s \o t, o)
    BY <1>1, <1>3 DEF Contains
  <1>4. ASSUME Contains(t, o) PROVE Contains(s \o t, o)
    <2>1. PICK i \in 1..Len(t) : t[i] = o
      BY <1>4 DEF Contains
    <2>2. Len(s) + i \in 1..Len(s \o t) /\ (s \o t)[Len(s) + i] = o
      BY <1>1, <2>1
    <2> QED BY <2>2 DEF Contains
  <1> QED BY <1>2, <1>3, <1>4, Zenon

\* Appending an object lists it, and nothing else.
LEMMA ContainsAppend ==
  ASSUME NEW S, NEW s \in Seq(S), NEW x \in S, NEW o
  PROVE  Contains(Append(s, x), o) <=> Contains(s, o) \/ o = x
  <1>1. /\ Len(Append(s, x)) = Len(s) + 1
        /\ \A i \in 1..Len(s) : Append(s, x)[i] = s[i]
        /\ Append(s, x)[Len(s) + 1] = x
    OBVIOUS
  <1>2. Len(s) \in Nat
    OBVIOUS
  <1> QED BY <1>1, <1>2 DEF Contains

\* A request lists exactly the objects whose effects it starts.
LEMMA EffectsListed ==
  ASSUME NEW obs, NEW S \in SUBSET Objs, NEW vis
  PROVE  /\ EffectsOf(obs, S, vis) \in Seq(Objs)
         /\ \A o : Contains(EffectsOf(obs, S, vis), o)
                   <=> o \in S /\ StartsEffect(obs[o], o, vis[o])
  <1> DEFINE T == {o \in S : StartsEffect(obs[o], o, vis[o])}
  <1>1. IsFiniteSet(T) /\ T \subseteq Objs
    <2>1. T \in SUBSET Objs
      OBVIOUS
    <2>2. IsFiniteSet(Objs)
      BY ScreenAssumption
    <2> HIDE DEF T
    <2> QED BY <2>1, <2>2, FS_Subset
  <1>2. /\ SetToSeq(T) \in Seq(T)
        /\ \A o : Contains(SetToSeq(T), o) <=> o \in T
    BY <1>1, SetToSeqLists, Zenon
  <1>3. SetToSeq(T) \in Seq(Objs)
    <2> HIDE DEF T
    <2> QED BY <1>1, <1>2
  <1> QED BY <1>2, <1>3 DEF EffectsOf

-----------------------------------------------------------------------------
(* One object                                                              *)

\* An effect has between 10 and 255 steps (obj_opacity_steps).
LEMMA StepCount ==
  ASSUME NEW ms \in Nat
  PROVE  OpacitySteps(ms) \in 10..255
  BY DEF OpacitySteps

\* A longer effect has no fewer steps.
LEMMA StepsMonotone ==
  ASSUME NEW a \in Nat, NEW b \in Nat, a <= b
  PROVE  OpacitySteps(a) <= OpacitySteps(b)
  BY DEF OpacitySteps

\* What defines the integer division of 255.
LEMMA Quotient ==
  ASSUME NEW n \in Nat \ {0}
  PROVE  /\ 255 \div n \in Nat
         /\ n * (255 \div n) <= 255
         /\ 255 < n * ((255 \div n) + 1)
  OBVIOUS

\* A step of an effect changes the opacity, and by no more than all of it.
LEMMA StepSize ==
  ASSUME NEW n \in 10..255
  PROVE  255 \div n \in 1..255
  <1> DEFINE q == 255 \div n
  <1>1. q \in Nat /\ n * q <= 255 /\ 255 < n * (q + 1)
    BY Quotient
  <1> HIDE DEF q
  <1>2. q # 0
    BY <1>1
  <1>3. q <= n * q
    BY <1>1
  <1> QED BY <1>1, <1>2, <1>3 DEF q

\* More steps are not larger steps.
LEMMA StepSizeAntitone ==
  ASSUME NEW m \in 10..255, NEW n \in 10..255, m <= n
  PROVE  255 \div n <= 255 \div m
  <1> DEFINE p == 255 \div m
             q == 255 \div n
  <1>1. q \in Nat /\ n * q <= 255
    BY Quotient
  <1>2. p \in Nat /\ 255 < m * (p + 1)
    BY Quotient
  <1> HIDE DEF p, q
  <1>3. SUFFICES ASSUME p + 1 <= q PROVE FALSE
    BY <1>1, <1>2 DEF p, q
  <1>4. m * (p + 1) <= m * q
    BY <1>1, <1>2, <1>3
  <1>5. m * q <= n * q
    BY <1>1, <1>2
  <1>6. m * (p+1) \in Int /\ m * q \in Int /\ n * q \in Int
    BY <1>1, <1>2
  <1> QED BY <1>1, <1>2, <1>4, <1>5, <1>6

\* An effect that has reached its end.
Over(ob) == (ob.step < 0 => ~ob.visible) /\ (ob.step > 0 => ob.opacity = 255)

\* By how much a step changes the opacity.
Speed(ob) == IF ob.step < 0 THEN -ob.step ELSE ob.step

\* The distance of two brightnesses is at most k.
Within(a, b, k) == a - b <= k /\ b - a <= k

\* Brightnesses and speeds are numbers.
LEMMA BrightType ==
  ASSUME NEW ob \in ObjType
  PROVE  /\ Bright(ob) \in Int /\ 0 <= Bright(ob) /\ Bright(ob) <= 255
         /\ Speed(ob) \in Int /\ 0 <= Speed(ob)
  BY DEF Bright, Speed, ObjType

\* What a step of the animation thread does to an object: the 8-bit opacity
\* wraps exactly when the effect is over, and the brightness changes by no
\* more than the effect's step.
LEMMA StepFacts ==
  ASSUME NEW ob \in ObjType
  PROVE  /\ Step(ob) \in ObjType
         /\ Step(ob).step = ob.step
         /\ Step(ob).visible => ob.visible
         /\ ob.visible /\ ob.step >= 0 => Step(ob).visible
         /\ Wrapped(ob) \/ Over(ob) => Over(Step(ob))
         /\ Within(Bright(Step(ob)), Bright(ob), Speed(ob))
  <1> DEFINE op == ob.opacity
             d  == ob.step
             next == (op + d) % 256
  <1>1. op \in Int /\ 0 <= op /\ op <= 255 /\ d \in Int /\ -255 <= d /\ d <= 255
    BY DEF ObjType
  <1>2. next \in Int /\ 0 <= next /\ next <= 255
    BY <1>1
  <1>3. d > 0 => IF op + d > 255 THEN next < op ELSE next = op + d
    BY <1>1
  <1>4. d < 0 => IF op + d < 0 THEN next > op ELSE next = op + d
    BY <1>1
  <1>5. d = 0 => next = op
    BY <1>1
  <1> HIDE DEF next
  <1>6. Wrapped(ob) <=> IF d > 0 THEN op > next ELSE op < next
    BY DEF Wrapped, next
  <1>7. /\ Step(ob) = [ob EXCEPT !.opacity = IF ~Wrapped(ob) THEN next
                                            ELSE IF d > 0 THEN 255 ELSE 0,
                                 !.visible = ob.visible /\ ~(d < 0 /\ Wrapped(ob)),
                                 !.invalid = TRUE]
    BY DEF Step, next
  <1>8. /\ Step(ob).opacity = IF ~Wrapped(ob) THEN next ELSE IF d > 0 THEN 255 ELSE 0
        /\ Step(ob).visible <=> ob.visible /\ ~(d < 0 /\ Wrapped(ob))
        /\ Step(ob).step = d
    BY <1>7 DEF ObjType
  <1>9. Step(ob) \in ObjType
    <2> DEFINE v == ob.visible /\ ~(d < 0 /\ Wrapped(ob))
               a == IF ~Wrapped(ob) THEN next ELSE IF d > 0 THEN 255 ELSE 0
    <2>1. v \in BOOLEAN /\ a \in 0..255
      BY <1>2
    <2>2. Step(ob) = [ob EXCEPT !.opacity = a, !.visible = v, !.invalid = TRUE]
      BY <1>7
    <2> HIDE DEF v, a
    <2> QED BY ZenonT(30), <2>1, <2>2 DEF ObjType
  <1>10. Wrapped(ob) \/ Over(ob) => Over(Step(ob))
    <2>1. CASE d < 0
      BY <1>1, <1>2, <1>4, <1>6, <1>8, <2>1 DEF Over
    <2>2. CASE d = 0
      BY <1>8, <2>2 DEF Over
    <2>3. CASE d > 0
      BY <1>1, <1>2, <1>3, <1>6, <1>8, <2>3 DEF Over
    <2> QED BY <1>1, <2>1, <2>2, <2>3
  <1>11. Within(Bright(Step(ob)), Bright(ob), Speed(ob))
    <2>1. CASE d < 0
      BY <1>1, <1>2, <1>4, <1>6, <1>8, <2>1 DEF Within, Bright, Speed
    <2>2. CASE d = 0
      BY <1>1, <1>2, <1>5, <1>6, <1>8, <2>2 DEF Within, Bright, Speed
    <2>3. CASE d > 0
      BY <1>1, <1>2, <1>3, <1>6, <1>8, <2>3 DEF Within, Bright, Speed
    <2> QED BY <1>1, <2>1, <2>2, <2>3
  <1>12. ob.visible /\ ob.step >= 0 => Step(ob).visible
    BY <1>1, <1>8
  <1> QED BY <1>8, <1>9, <1>10, <1>11, <1>12

\* The size of the step of an effect that obj_visibility_set starts.
StepOf(ms) == 255 \div OpacitySteps(ms)

\* obj_visibility_set and the invalidation that goes with it.
Shown(ob, o, v) == [Visibility(ob, o, v) EXCEPT !.invalid = TRUE]

\* The five cases of obj_visibility_set.
LEMMA VisibilityCases ==
  ASSUME NEW o \in Objs, NEW ob \in ObjType, NEW v \in BOOLEAN
  PROVE  LET new == Shown(ob, o, v)
         IN  /\ new \in ObjType /\ new.invalid
             /\ \/ /\ ~v /\ ob.visible /\ Blendout[o] > 0 /\ StartsEffect(ob, o, v)
                   /\ new.visible /\ new.step = -StepOf(Blendout[o]) /\ new.opacity = ob.opacity
                \/ /\ ~v /\ ob.visible /\ Blendout[o] = 0 /\ ~StartsEffect(ob, o, v)
                   /\ ~new.visible /\ new.step = ob.step /\ new.opacity = ob.opacity
                \/ /\ v /\ ~ob.visible /\ Blendin[o] > 0 /\ StartsEffect(ob, o, v)
                   /\ new.visible /\ new.step = StepOf(Blendin[o]) /\ new.opacity = 0
                \/ /\ v /\ ~ob.visible /\ Blendin[o] = 0 /\ ~StartsEffect(ob, o, v)
                   /\ new.visible /\ new.step = ob.step /\ new.opacity = ob.opacity
                \/ /\ (v <=> ob.visible) /\ ~StartsEffect(ob, o, v)
                   /\ (new.visible <=> ob.visible) /\ new.step = ob.step /\ new.opacity = ob.opacity
  <1> DEFINE new == Shown(ob, o, v)
             dn == StepOf(Blendout[o])
             up == StepOf(Blendin[o])
             slow == Blendout[o] \div OpacitySteps(Blendout[o]) > 0
             fast == Blendin[o] \div OpacitySteps(Blendin[o]) > 0
  <1>1. Blendin[o] \in Nat /\ Blendout[o] \in Nat
    BY ScreenAssumption
  <1>2. up \in 1..255 /\ dn \in 1..255 /\ slow \in BOOLEAN /\ fast \in BOOLEAN
    <2>1. OpacitySteps(Blendin[o]) \in 10..255 /\ OpacitySteps(Blendout[o]) \in 10..255
      BY <1>1, StepCount
    <2> QED BY <2>1, StepSize DEF StepOf
  <1>3. Effect(ob, Blendout[o], FALSE)
          = [ob EXCEPT !.step = -dn, !.timed = slow, !.opacity = ob.opacity]
    BY DEF Effect, StepOf
  <1>4. Effect(ob, Blendin[o], TRUE) = [ob EXCEPT !.step = up, !.timed = fast, !.opacity = 0]
    BY DEF Effect, StepOf
  <1> HIDE DEF dn, up, slow, fast
  <1>5. ob.visible \in BOOLEAN
    BY DEF ObjType
  <1>6. CASE ~v /\ ob.visible /\ Blendout[o] > 0
    <2>1. new = [[ob EXCEPT !.step = -dn, !.timed = slow, !.opacity = ob.opacity]
                 EXCEPT !.invalid = TRUE]
      BY <1>3, <1>6 DEF Shown, Visibility
    <2>2. -dn \in -255..255
      BY <1>2
    <2>3. /\ new \in ObjType /\ new.invalid
          /\ new.visible /\ new.step = -dn /\ new.opacity = ob.opacity
      BY ZenonT(30), <1>2, <1>6, <2>1, <2>2 DEF ObjType
    <2> QED BY <1>6, <2>3 DEF StartsEffect, dn
  <1>7. CASE ~v /\ ob.visible /\ Blendout[o] = 0
    <2>1. new = [[ob EXCEPT !.visible = FALSE] EXCEPT !.invalid = TRUE]
      BY <1>7 DEF Shown, Visibility
    <2>2. /\ new \in ObjType /\ new.invalid
          /\ ~new.visible /\ new.step = ob.step /\ new.opacity = ob.opacity
      BY <2>1 DEF ObjType
    <2> QED BY <1>7, <2>2 DEF StartsEffect
  <1>8. CASE v /\ ~ob.visible /\ Blendin[o] > 0
    <2>1. new = [[[ob EXCEPT !.step = up, !.timed = fast, !.opacity = 0]
                  EXCEPT !.visible = TRUE] EXCEPT !.invalid = TRUE]
      BY <1>4, <1>8 DEF Shown, Visibility
    <2>2. up \in -255..255 /\ 0 \in 0..255
      BY <1>2
    <2>3. /\ new \in ObjType /\ new.invalid
          /\ new.visible /\ new.step = up /\ new.opacity = 0
      BY ZenonT(30), <1>2, <2>1, <2>2 DEF ObjType
    <2> QED BY <1>8, <2>3 DEF StartsEffect, up
  <1>9. CASE v /\ ~ob.visible /\ Blendin[o] = 0
    <2>1. new = [[ob EXCEPT !.visible = TRUE] EXCEPT !.invalid = TRUE]
      BY <1>9 DEF Shown, Visibility
    <2>2. /\ new \in ObjType /\ new.invalid
          /\ new.visible /\ new.step = ob.step /\ new.opacity = ob.opacity
      BY <2>1 DEF ObjType
    <2>3. ~StartsEffect(ob, o, v)
      BY <1>9 DEF StartsEffect
    <2> QED BY <1>9, <2>2, <2>3
  <1>10. CASE v <=> ob.visible
    <2>1. new = [ob EXCEPT !.invalid = TRUE]
      BY <1>10 DEF Shown, Visibility
    <2>2. /\ new \in ObjType /\ new.invalid
          /\ (new.visible <=> ob.visible) /\ new.step = ob.step /\ new.opacity = ob.opacity
      BY ZenonT(30), <2>1 DEF ObjType
    <2> QED BY <1>10, <2>2 DEF StartsEffect
  <1>11. (Blendin[o] > 0 \/ Blendin[o] = 0) /\ (Blendout[o] > 0 \/ Blendout[o] = 0)
    BY <1>1
  <1> QED BY <1>5, <1>6, <1>7, <1>8, <1>9, <1>10, <1>11, Zenon

\* What a request to show or hide an object (v) keeps of the invariant: an
\* effect it starts is listed, an object is on its way to where it is wanted
\* unless the request is ignored, and its brightness does not jump when it has
\* effects both ways.
LEMMA VisibilityKeeps ==
  ASSUME NEW o \in Objs, NEW ob \in ObjType, NEW v \in BOOLEAN, NEW l \in BOOLEAN,
         StepSizes(o, ob), Regular(o) => EffectSound(o, ob, l)
  PROVE  LET new == Shown(ob, o, v)
             now == l \/ StartsEffect(ob, o, v)
         IN  /\ StepSizes(o, new)
             /\ Regular(o) => EffectSound(o, new, now)
             /\ Regular(o) /\ ~(v /\ ob.visible /\ ob.step < 0 /\ l) => Heading(new, now, v)
             /\ BothWays(o) => Bright(new) = Bright(ob)
  <1> DEFINE new == Shown(ob, o, v)
             now == l \/ StartsEffect(ob, o, v)
  <1>1. Blendin[o] \in Nat /\ Blendout[o] \in Nat
    BY ScreenAssumption
  <1>2. StepOf(Blendin[o]) \in 1..255 /\ StepOf(Blendout[o]) \in 1..255
    BY <1>1, StepCount, StepSize DEF StepOf
  <1>3. ob.visible \in BOOLEAN /\ ob.step \in Int /\ ob.opacity \in 0..255
    BY DEF ObjType
  <1>4. /\ new \in ObjType /\ new.invalid
        /\ \/ /\ ~v /\ ob.visible /\ Blendout[o] > 0 /\ StartsEffect(ob, o, v)
              /\ new.visible /\ new.step = -StepOf(Blendout[o]) /\ new.opacity = ob.opacity
           \/ /\ ~v /\ ob.visible /\ Blendout[o] = 0 /\ ~StartsEffect(ob, o, v)
              /\ ~new.visible /\ new.step = ob.step /\ new.opacity = ob.opacity
           \/ /\ v /\ ~ob.visible /\ Blendin[o] > 0 /\ StartsEffect(ob, o, v)
              /\ new.visible /\ new.step = StepOf(Blendin[o]) /\ new.opacity = 0
           \/ /\ v /\ ~ob.visible /\ Blendin[o] = 0 /\ ~StartsEffect(ob, o, v)
              /\ new.visible /\ new.step = ob.step /\ new.opacity = ob.opacity
           \/ /\ (v <=> ob.visible) /\ ~StartsEffect(ob, o, v)
              /\ (new.visible <=> ob.visible) /\ new.step = ob.step /\ new.opacity = ob.opacity
    BY VisibilityCases
  <1> HIDE DEF new
  <1>5. StepSizes(o, new)
    BY <1>4 DEF StepSizes, StepOf
  <1>6. Regular(o) => EffectSound(o, new, now)
    BY <1>1, <1>2, <1>3, <1>4 DEF EffectSound, Regular
  <1>7. Regular(o) /\ ~(v /\ ob.visible /\ ob.step < 0 /\ l) => Heading(new, now, v)
    BY <1>1, <1>2, <1>3, <1>4 DEF Heading, EffectSound, Regular
  <1>8. BothWays(o) => Bright(new) = Bright(ob)
    BY <1>1, <1>4 DEF BothWays, Bright
  <1> QED BY <1>5, <1>6, <1>7, <1>8 DEF new

\* What a request hides at once is marked by its area on the re-blit list.
LEMMA VisibilityMarks ==
  ASSUME NEW o \in Objs, NEW ob \in ObjType, NEW v \in BOOLEAN,
         NEW f, NEW b \in BOOLEAN, BoxMarked(o, ob, f, b)
  PROVE  BoxMarked(o, Shown(ob, o, v), f, b \/ (~v /\ ob.visible))
  <1> DEFINE new == Shown(ob, o, v)
  <1>1. new.invalid /\ (new.visible \/ (~v /\ ob.visible) \/ (~new.visible /\ ~ob.visible))
    BY VisibilityCases
  <1> HIDE DEF new
  <1>2. CASE new.visible
    BY <1>1, <1>2 DEF BoxMarked, new
  <1>3. CASE ~v /\ ob.visible
    BY <1>3 DEF BoxMarked
  <1>4. CASE ~new.visible /\ ~ob.visible
    <2>1. LookOf(o, new, 0) = LookOf(o, ob, 0)
      BY <1>4 DEF LookOf
    <2>2. f = LookOf(o, ob, 0) \/ b \/ reloaded
      BY Zenon, <1>4 DEF BoxMarked
    <2> QED BY Zenon, <1>4, <2>1, <2>2 DEF BoxMarked, new
  <1> QED BY <1>1, <1>2, <1>3, <1>4, Zenon

-----------------------------------------------------------------------------
(* The loop over fxobjs                                                    *)

FxStart == [obj |-> obj, keep |-> <<>>, tail |-> FALSE]

\* The loop has run over the first n entries, and h is what it has left.
IsLoop(h, n, due) ==
  h = [i \in 0..n |-> IF i = 0 THEN FxStart ELSE FxStep(h[i - 1], i, due)]

\* The loop over any number of entries is a function that exists.
LEMMA LoopExists ==
  ASSUME NEW due, NEW m \in Nat
  PROVE  \E h : IsLoop(h, m, due)
  <1> DEFINE S == {n \in Nat : \E h : IsLoop(h, n, due)}
  <1>1. 0 \in S
    <2> DEFINE h == [i \in 0..0 |-> FxStart]
    <2>1. h = [i \in 0..0 |-> IF i = 0 THEN FxStart ELSE FxStep(h[i - 1], i, due)]
      OBVIOUS
    <2>2. IsLoop(h, 0, due)
      BY <2>1 DEF IsLoop
    <2> QED BY <2>2
  <1>2. ASSUME NEW n \in S \intersect Nat PROVE n + 1 \in S
    <2>1. PICK h : IsLoop(h, n, due)
      OBVIOUS
    <2> DEFINE g == [i \in 0..n+1 |-> IF i <= n THEN h[i] ELSE FxStep(h[n], i, due)]
    <2>2. ASSUME NEW i \in 0..n+1
          PROVE  g[i] = IF i = 0 THEN FxStart ELSE FxStep(g[i - 1], i, due)
      <3>1. CASE i = 0
        BY <2>1, <3>1 DEF IsLoop
      <3>2. CASE i # 0 /\ i <= n
        <4>1. i \in 0..n /\ i - 1 \in 0..n+1 /\ i - 1 <= n
          BY <3>2
        <4>2. h[i] = FxStep(h[i - 1], i, due)
          BY <2>1, <3>2, <4>1 DEF IsLoop
        <4>3. g[i] = h[i] /\ g[i - 1] = h[i - 1]
          BY <3>2, <4>1
        <4> QED BY <3>2, <4>2, <4>3
      <3>3. CASE i = n + 1
        <4>1. g[i] = FxStep(h[n], i, due) /\ g[i - 1] = h[n] /\ i # 0
          BY <3>3
        <4> QED BY <4>1
      <3> QED BY <3>1, <3>2, <3>3
    <2>3. g = [i \in 0..n+1 |-> g[i]]
      OBVIOUS
    <2> HIDE DEF g
    <2>4. IsLoop(g, n + 1, due)
      BY <2>2, <2>3 DEF IsLoop
    <2> QED BY <2>4
  <1> HIDE DEF S
  <1>3. m \in S
    BY <1>1, <1>2, SetInduction
  <1> QED BY <1>3 DEF S

\* FxLoop is the last of the states the loop goes through.
LEMMA LoopUnfolds ==
  ASSUME NEW due, ScreenTypes
  PROVE  \E h : /\ h[0] = FxStart
                /\ \A i \in 1..Len(fx) : h[i] = FxStep(h[i - 1], i, due)
                /\ FxLoop(due) = h[Len(fx)]
  <1> DEFINE n == Len(fx)
             loop == CHOOSE h : h = [i \in 0..n |-> IF i = 0 THEN FxStart
                                                    ELSE FxStep(h[i - 1], i, due)]
  <1>1. n \in Nat
    BY DEF ScreenTypes
  <1>2. \E h : h = [i \in 0..n |-> IF i = 0 THEN FxStart ELSE FxStep(h[i - 1], i, due)]
    BY <1>1, LoopExists DEF IsLoop
  <1>3. loop = [i \in 0..n |-> IF i = 0 THEN FxStart ELSE FxStep(loop[i - 1], i, due)]
    BY <1>2, Zenon
  <1>4. FxLoop(due) = loop[n]
    BY Zenon DEF FxLoop, FxStart
  <1> HIDE DEF loop
  <1>5. loop[0] = FxStart
    BY <1>1, <1>3
  <1>6. \A i \in 1..n : loop[i] = FxStep(loop[i - 1], i, due)
    BY <1>1, <1>3
  <1> QED BY <1>4, <1>5, <1>6

\* How often o is listed in the first i entries.
Times(o, i) == Cardinality({j \in 1..i : fx[j] = o})

\* What the loop has done to an object: ob is what it has become, kept whether
\* it stays on the list, left whether an entry of it is still to come, and n
\* the number of its entries passed.
LoopObject(o, ob, kept, left, n) ==
  /\ ob \in ObjType /\ ob.step = obj[o].step
  /\ ob.visible => obj[o].visible
  /\ obj[o].visible /\ obj[o].step >= 0 => ob.visible
  /\ kept => Contains(fx, o)
  /\ ~Contains(fx, o) => ob = obj[o]
  /\ Contains(fx, o) => kept \/ left \/ Over(ob)
  /\ Within(Bright(ob), Bright(obj[o]), Speed(obj[o]) * n)

\* What the loop has done after i entries.
LoopSoFar(acc, i) ==
  /\ acc \in [obj : [Objs -> ObjType], keep : Seq(Objs), tail : BOOLEAN]
  /\ \A o \in Objs : LoopObject(o, acc.obj[o], Contains(acc.keep, o),
                                \E j \in i+1..Len(fx) : fx[j] = o, Times(o, i))

\* One more entry counts once, for its object.
LEMMA TimesNext ==
  ASSUME ScreenTypes, NEW o, NEW i \in 1..Len(fx)
  PROVE  /\ Times(o, i) \in Nat /\ Times(o, i - 1) \in Nat
         /\ Times(o, i) = IF fx[i] = o THEN Times(o, i - 1) + 1 ELSE Times(o, i - 1)
  <1> DEFINE T == {j \in 1..i-1 : fx[j] = o}
             U == {j \in 1..i : fx[j] = o}
  <1>1. i \in Nat /\ i - 1 \in Nat
    BY DEF ScreenTypes
  <1>2. IsFiniteSet(1..i-1)
    BY <1>1, FS_Interval
  <1>3. IsFiniteSet(T)
    <2>1. T \in SUBSET (1..i-1)
      OBVIOUS
    <2> HIDE DEF T
    <2> QED BY <1>2, <2>1, FS_Subset
  <1>4. i \notin T
    BY <1>1
  <1>5. U = IF fx[i] = o THEN T \union {i} ELSE T
    BY <1>1
  <1> HIDE DEF T, U
  <1>6. Cardinality(T) \in Nat
    BY <1>3, FS_CardinalityType
  <1>7. Cardinality(T \union {i}) = Cardinality(T) + 1
    BY <1>3, <1>4, FS_AddElement
  <1>8. Times(o, i) = Cardinality(U) /\ Times(o, i - 1) = Cardinality(T)
    BY DEF Times, T, U
  <1> QED BY <1>5, <1>6, <1>7, <1>8

\* An entry that is stepped.
LEMMA LoopObjectSteps ==
  ASSUME ScreenTypes, NEW o \in Objs, Contains(fx, o), NEW ob, NEW n \in Nat,
         NEW kept \in BOOLEAN, NEW left \in BOOLEAN,
         LoopObject(o, ob, kept, TRUE, n)
  PROVE  LoopObject(o, Step(ob), kept \/ ~Wrapped(ob), left, n + 1)
  <1>1. /\ ob \in ObjType /\ ob.step = obj[o].step /\ obj[o] \in ObjType
        /\ ob.visible => obj[o].visible
        /\ obj[o].visible /\ obj[o].step >= 0 => ob.visible
        /\ Within(Bright(ob), Bright(obj[o]), Speed(obj[o]) * n)
    BY DEF LoopObject, ScreenTypes
  <1>2. /\ Step(ob) \in ObjType /\ Step(ob).step = ob.step
        /\ Step(ob).visible => ob.visible
        /\ ob.visible /\ ob.step >= 0 => Step(ob).visible
        /\ Wrapped(ob) => Over(Step(ob))
        /\ Within(Bright(Step(ob)), Bright(ob), Speed(ob))
    BY <1>1, StepFacts
  <1>3. /\ Bright(ob) \in Int /\ Bright(obj[o]) \in Int /\ Bright(Step(ob)) \in Int
        /\ Speed(obj[o]) \in Int /\ Speed(ob) = Speed(obj[o])
    BY <1>1, <1>2, BrightType DEF Speed
  <1>4. /\ Speed(obj[o]) * n \in Int
        /\ Speed(obj[o]) * (n + 1) = Speed(obj[o]) * n + Speed(obj[o])
    BY <1>3
  <1>5. Within(Bright(Step(ob)), Bright(obj[o]), Speed(obj[o]) * (n + 1))
    BY <1>1, <1>2, <1>3, <1>4 DEF Within
  <1>6. /\ Step(ob).visible => obj[o].visible
        /\ obj[o].visible /\ obj[o].step >= 0 => Step(ob).visible
    BY <1>1, <1>2
  <1>7. kept \/ ~Wrapped(ob) \/ left \/ Over(Step(ob))
    BY <1>2, Zenon
  <1> QED BY <1>1, <1>2, <1>5, <1>6, <1>7 DEF LoopObject

\* An entry that stays as it is.
LEMMA LoopObjectWaits ==
  ASSUME ScreenTypes, NEW o \in Objs, Contains(fx, o), NEW ob, NEW n \in Nat,
         NEW kept \in BOOLEAN, NEW left \in BOOLEAN,
         LoopObject(o, ob, kept, TRUE, n)
  PROVE  LoopObject(o, ob, TRUE, left, n + 1)
  <1>1. /\ ob \in ObjType /\ obj[o] \in ObjType
        /\ Within(Bright(ob), Bright(obj[o]), Speed(obj[o]) * n)
    BY DEF LoopObject, ScreenTypes
  <1>2. /\ Bright(ob) \in Int /\ Bright(obj[o]) \in Int
        /\ Speed(obj[o]) \in Int /\ 0 <= Speed(obj[o])
    BY <1>1, BrightType
  <1>3. /\ Speed(obj[o]) * n \in Int
        /\ Speed(obj[o]) * (n + 1) = Speed(obj[o]) * n + Speed(obj[o])
    BY <1>2
  <1>4. Within(Bright(ob), Bright(obj[o]), Speed(obj[o]) * (n + 1))
    BY <1>1, <1>2, <1>3 DEF Within
  <1> QED BY <1>4 DEF LoopObject

\* A turn of the loop.
LEMMA LoopTurn ==
  ASSUME ScreenTypes, NEW due, NEW i \in 1..Len(fx), NEW acc, LoopSoFar(acc, i - 1)
  PROVE  LoopSoFar(FxStep(acc, i, due), i)
  <1> DEFINE x == fx[i]
             next == FxStep(acc, i, due)
             Left(o) == \E j \in i+1..Len(fx) : fx[j] = o
             Before(o) == \E j \in i..Len(fx) : fx[j] = o
  <1>1. /\ Len(fx) \in Nat /\ i \in Nat /\ (i - 1) + 1 = i
        /\ x \in Objs /\ Contains(fx, x)
    BY DEF ScreenTypes, Contains
  <1>2. /\ acc \in [obj : [Objs -> ObjType], keep : Seq(Objs), tail : BOOLEAN]
        /\ \A o \in Objs : LoopObject(o, acc.obj[o], Contains(acc.keep, o), Before(o), Times(o, i - 1))
    BY <1>1 DEF LoopSoFar
  <1>3. Before(x)
    BY <1>1
  <1>4. ASSUME NEW o \in Objs, o # x PROVE Before(o) <=> Left(o)
    <2>1. \A j \in i..Len(fx) : j = i \/ j \in i+1..Len(fx)
      BY <1>1
    <2>2. \A j \in i+1..Len(fx) : j \in i..Len(fx)
      BY <1>1
    <2> QED BY <1>4, <2>1, <2>2
  <1>5. \A o \in Objs : /\ Times(o, i - 1) \in Nat
                        /\ Times(o, i) = IF x = o THEN Times(o, i - 1) + 1 ELSE Times(o, i - 1)
    BY TimesNext
  <1>6. Contains(acc.keep, x) \in BOOLEAN /\ Left(x) \in BOOLEAN
    BY DEF Contains
  <1>7. LoopObject(x, acc.obj[x], Contains(acc.keep, x), TRUE, Times(x, i - 1))
    BY <1>1, <1>2, <1>3, Zenon
  <1>8. \A o \in Objs : Contains(Append(acc.keep, x), o) <=> Contains(acc.keep, o) \/ o = x
    BY <1>1, <1>2, ContainsAppend
  <1> HIDE DEF x, Left, Before
  <1>9. CASE i \notin due
    <2>1. next = [acc EXCEPT !.keep = Append(acc.keep, x)]
      BY <1>9 DEF FxStep, x
    <2>2. next \in [obj : [Objs -> ObjType], keep : Seq(Objs), tail : BOOLEAN]
      <3> DEFINE keep == Append(acc.keep, x)
      <3>1. acc.keep \in Seq(Objs)
        BY <1>2
      <3>2. keep \in Seq(Objs)
        BY <1>1, <3>1
      <3>3. next = [acc EXCEPT !.keep = keep]
        BY <2>1
      <3> HIDE DEF keep
      <3> QED BY <1>2, <3>2, <3>3
    <2>3. next.obj = acc.obj /\ next.keep = Append(acc.keep, x)
      BY <1>2, <2>1
    <2>4. ASSUME NEW o \in Objs
          PROVE  LoopObject(o, next.obj[o], Contains(next.keep, o), Left(o), Times(o, i))
      <3>1. CASE o = x
        <4>1. LoopObject(x, acc.obj[x], TRUE, Left(x), Times(x, i - 1) + 1)
          BY <1>1, <1>5, <1>6, <1>7, LoopObjectWaits
        <4>2. Contains(next.keep, x) = TRUE
          BY <1>1, <1>8, <2>3 DEF Contains
        <4> QED BY <1>1, <1>5, <2>3, <3>1, <4>1, <4>2
      <3>2. CASE o # x
        <4>1. Contains(next.keep, o) = Contains(acc.keep, o)
          BY <1>8, <2>3, <3>2 DEF Contains
        <4>2. Before(o) = Left(o)
          BY <1>4, <3>2 DEF Before, Left
        <4>3. Times(o, i) = Times(o, i - 1)
          BY <1>5, <3>2
        <4> QED BY <1>2, <2>3, <4>1, <4>2, <4>3
      <3> QED BY <3>1, <3>2
    <2> QED BY <2>2, <2>4 DEF LoopSoFar, Left
  <1>10. CASE i \in due
    <2> DEFINE over == Wrapped(acc.obj[x])
               keep == IF over THEN acc.keep ELSE Append(acc.keep, x)
               tail == over /\ i = Len(fx)
               objs == [acc.obj EXCEPT ![x] = Step(acc.obj[x])]
    <2>1. next = [obj |-> objs, keep |-> keep, tail |-> tail]
      BY <1>10 DEF FxStep, x
    <2>2. acc.obj \in [Objs -> ObjType] /\ acc.keep \in Seq(Objs)
      BY <1>2
    <2>3. Step(acc.obj[x]) \in ObjType
      BY <1>1, <2>2, StepFacts
    <2>4. objs \in [Objs -> ObjType] /\ keep \in Seq(Objs) /\ tail \in BOOLEAN
      BY <1>1, <2>2, <2>3
    <2>5. /\ objs[x] = Step(acc.obj[x])
          /\ \A o \in Objs : o # x => objs[o] = acc.obj[o]
      BY <1>1, <2>2
    <2>6. \A o \in Objs : Contains(keep, o) <=> Contains(acc.keep, o) \/ (o = x /\ ~over)
      BY <1>8
    <2> HIDE DEF objs, keep, tail
    <2>7. next.obj = objs /\ next.keep = keep
      BY <2>1
    <2>8. ASSUME NEW o \in Objs
          PROVE  LoopObject(o, next.obj[o], Contains(next.keep, o), Left(o), Times(o, i))
      <3>1. CASE o = x
        <4>1. LoopObject(x, Step(acc.obj[x]), Contains(acc.keep, x) \/ ~over, Left(x),
                         Times(x, i - 1) + 1)
          BY <1>1, <1>5, <1>6, <1>7, LoopObjectSteps
        <4>2. Contains(keep, x) = (Contains(acc.keep, x) \/ ~over)
          BY <1>1, <2>6, Zenon DEF Contains
        <4> QED BY <1>1, <1>5, <2>5, <2>7, <3>1, <4>1, <4>2
      <3>2. CASE o # x
        <4>1. Contains(keep, o) = Contains(acc.keep, o)
          BY <2>6, <3>2 DEF Contains
        <4>2. Before(o) = Left(o)
          BY <1>4, <3>2 DEF Before, Left
        <4>3. Times(o, i) = Times(o, i - 1)
          BY <1>5, <3>2
        <4> QED BY <1>2, <2>5, <2>7, <3>2, <4>1, <4>2, <4>3
      <3> QED BY <3>1, <3>2
    <2>9. next \in [obj : [Objs -> ObjType], keep : Seq(Objs), tail : BOOLEAN]
      BY <2>1, <2>4
    <2> QED BY <2>8, <2>9 DEF LoopSoFar, Left
  <1> QED BY <1>9, <1>10

\* What the whole loop does to every object.
LEMMA LoopFacts ==
  ASSUME ScreenTypes, NEW due
  PROVE  /\ FxLoop(due).obj \in [Objs -> ObjType] /\ FxLoop(due).keep \in Seq(Objs)
         /\ \A o \in Objs : LoopObject(o, FxLoop(due).obj[o], Contains(FxLoop(due).keep, o),
                                       FALSE, Entries(o))
  <1> DEFINE n == Len(fx)
  <1>1. n \in Nat /\ fx \in Seq(Objs) /\ obj \in [Objs -> ObjType] /\ DOMAIN fx = 1..n
    BY DEF ScreenTypes
  <1>2. PICK h : /\ h[0] = FxStart
                 /\ \A i \in 1..n : h[i] = FxStep(h[i - 1], i, due)
                 /\ FxLoop(due) = h[n]
    BY LoopUnfolds
  <1>3. LoopSoFar(h[0], 0)
    <2>1. /\ h[0].obj = obj /\ h[0].keep = <<>>
          /\ h[0] \in [obj : [Objs -> ObjType], keep : Seq(Objs), tail : BOOLEAN]
      BY <1>1, <1>2 DEF FxStart
    <2>2. ASSUME NEW o \in Objs
          PROVE  LoopObject(o, obj[o], Contains(<<>>, o), \E j \in 0+1..n : fx[j] = o, Times(o, 0))
      <3>1. ~Contains(<<>>, o)
        BY DEF Contains
      <3>2. Contains(fx, o) => \E j \in 0+1..n : fx[j] = o
        BY DEF Contains
      <3>3. {j \in 1..0 : fx[j] = o} = {}
        OBVIOUS
      <3>4. Times(o, 0) = 0
        BY <3>3, FS_EmptySet DEF Times
      <3>5. obj[o] \in ObjType
        BY <1>1
      <3>6. Within(Bright(obj[o]), Bright(obj[o]), Speed(obj[o]) * Times(o, 0))
        BY <3>4, <3>5, BrightType DEF Within
      <3> QED BY <3>1, <3>2, <3>5, <3>6 DEF LoopObject
    <2> QED BY <2>1, <2>2 DEF LoopSoFar
  <1> DEFINE S == {i \in Nat : i <= n => LoopSoFar(h[i], i)}
  <1>4. ASSUME NEW i \in S \intersect Nat PROVE i + 1 \in S
    <2>1. SUFFICES ASSUME i + 1 <= n PROVE LoopSoFar(h[i + 1], i + 1)
      OBVIOUS
    <2>2. LoopSoFar(h[i], i) /\ i + 1 \in 1..n /\ (i + 1) - 1 = i
      BY <1>1, <2>1
    <2>3. h[i + 1] = FxStep(h[i], i + 1, due)
      BY <1>2, <2>2
    <2> QED BY <2>2, <2>3, LoopTurn
  <1>5. 0 \in S
    BY <1>3
  <1> HIDE DEF S
  <1>6. n \in S
    BY <1>1, <1>4, <1>5, SetInduction
  <1>7. LoopSoFar(FxLoop(due), n)
    BY <1>1, <1>2, <1>6 DEF S
  <1>8. \A o \in Objs : Times(o, n) = Entries(o)
    BY <1>1 DEF Times, Entries
  <1>9. \A o \in Objs : (\E j \in n+1..n : fx[j] = o) = FALSE
    BY <1>1
  <1>10. ASSUME NEW o \in Objs
         PROVE  LoopObject(o, FxLoop(due).obj[o], Contains(FxLoop(due).keep, o), FALSE, Entries(o))
    BY <1>7, <1>8, <1>9 DEF LoopSoFar
  <1> QED BY <1>7, <1>10 DEF LoopSoFar

\* The loop keeps the invariant of an object: an effect that reaches its end
\* leaves the list, and the object is then shown or hidden for good.
LEMMA LoopKeeps ==
  ASSUME ScreenTypes, NEW o \in Objs, NEW ob, NEW kept \in BOOLEAN, NEW n,
         LoopObject(o, ob, kept, FALSE, n), StepSizes(o, obj[o]),
         Regular(o) => EffectSound(o, obj[o], Contains(fx, o))
  PROVE  /\ StepSizes(o, ob)
         /\ Regular(o) => EffectSound(o, ob, kept)
         /\ \A w \in BOOLEAN : Regular(o) /\ Heading(obj[o], Contains(fx, o), w)
                               => Heading(ob, kept, w)
  <1>1. StepSizes(o, ob)
    BY DEF LoopObject, StepSizes
  <1>2. ob.step \in Int /\ obj[o].step \in Int
    <2>1. obj[o] \in ObjType /\ ob.step = obj[o].step
      BY DEF LoopObject, ScreenTypes
    <2>2. obj[o].step \in Int
      BY <2>1 DEF ObjType
    <2> QED BY <2>1, <2>2
  <1>3. Regular(o) => EffectSound(o, ob, kept)
    BY <1>2 DEF LoopObject, EffectSound, Over
  <1>4. ASSUME NEW w \in BOOLEAN, Regular(o), Heading(obj[o], Contains(fx, o), w)
        PROVE  Heading(ob, kept, w)
    <2>1. EffectSound(o, obj[o], Contains(fx, o))
      BY <1>4
    <2>2. CASE w
      BY <1>2, <1>4, <2>1, <2>2 DEF LoopObject, EffectSound, Heading, Over
    <2>3. CASE ~w
      BY <1>2, <1>4, <2>1, <2>3 DEF LoopObject, EffectSound, Heading, Over
    <2> QED BY <2>2, <2>3
  <1> QED BY <1>1, <1>3, <1>4

-----------------------------------------------------------------------------
(* Requests to show and to hide                                            *)

\* Icons are objects, and never in the textbox.
LEMMA IconFacts ==
  /\ Icons = {o \in Objs : Kind[o] = "icon"} /\ Textbox \subseteq Objs
  /\ \A o \in Icons : o \notin Textbox
  /\ \A o \in Objs : o \notin Icons <=> Kind[o] # "icon"
  BY ScreenAssumption DEF Icons

\* What a request makes of the objects and of the list of effects.
LEMMA RequestSound ==
  ASSUME NEW obs \in [Objs -> ObjType], NEW list \in Seq(Objs),
         NEW S \in SUBSET (Icons \union Textbox), NEW vis, \A o \in S : vis[o] \in BOOLEAN,
         ObjectsSound(obs, list)
  PROVE  LET new == SetVisibility(obs, S, vis)
             now == list \o EffectsOf(obs, S, vis)
         IN  /\ new \in [Objs -> ObjType] /\ now \in Seq(Objs)
             /\ ObjectsSound(new, now)
             /\ \A o \in S :
                  Regular(o) /\ ~(vis[o] /\ obs[o].visible /\ obs[o].step < 0 /\ Contains(list, o))
                  => Heading(new[o], Contains(now, o), vis[o])
             /\ \A o \in Objs : o \notin S => new[o] = obs[o] /\ (Contains(now, o) <=> Contains(list, o))
  <1> DEFINE new == SetVisibility(obs, S, vis)
             ef  == EffectsOf(obs, S, vis)
             now == list \o ef
             Starts(o) == StartsEffect(obs[o], o, vis[o])
  <1>1. S \subseteq Objs /\ S \in SUBSET Objs
    BY IconFacts
  <1>2. ef \in Seq(Objs) /\ \A o : Contains(ef, o) <=> o \in S /\ Starts(o)
    BY <1>1, EffectsListed
  <1>3. \A o \in S : new[o] = Shown(obs[o], o, vis[o])
    BY <1>1 DEF SetVisibility, Shown
  <1>4. \A o \in Objs \ S : new[o] = obs[o]
    BY DEF SetVisibility
  <1>5. new = [o \in Objs |-> new[o]]
    BY DEF SetVisibility
  <1> HIDE DEF new, ef
  <1>6. now \in Seq(Objs)
    BY <1>2
  <1>7. \A o : Contains(now, o) <=> Contains(list, o) \/ (o \in S /\ Starts(o))
    BY <1>2, ContainsConcat
  <1> HIDE DEF now
  <1>8. ASSUME NEW o \in S
        PROVE  /\ new[o] \in ObjType
               /\ StepSizes(o, new[o])
               /\ Regular(o) => EffectSound(o, new[o], Contains(now, o))
               /\ Regular(o) /\ ~(vis[o] /\ obs[o].visible /\ obs[o].step < 0 /\ Contains(list, o))
                  => Heading(new[o], Contains(now, o), vis[o])
    <2>1. /\ o \in Objs /\ obs[o] \in ObjType /\ vis[o] \in BOOLEAN
          /\ StepSizes(o, obs[o]) /\ (Regular(o) => EffectSound(o, obs[o], Contains(list, o)))
      BY <1>1 DEF ObjectsSound
    <2> DEFINE l == Contains(list, o)
               v == vis[o]
               ob == obs[o]
    <2>2. l \in BOOLEAN
      BY DEF Contains
    <2>3. Shown(ob, o, v) \in ObjType
      BY <2>1, VisibilityCases
    <2>4. /\ StepSizes(o, Shown(ob, o, v))
          /\ Regular(o) => EffectSound(o, Shown(ob, o, v), l \/ Starts(o))
          /\ Regular(o) /\ ~(v /\ ob.visible /\ ob.step < 0 /\ l)
             => Heading(Shown(ob, o, v), l \/ Starts(o), v)
      BY <2>1, <2>2, VisibilityKeeps
    <2>5. Contains(now, o) = (l \/ Starts(o))
      BY <1>7 DEF Contains
    <2> QED BY <1>3, <2>3, <2>4, <2>5
  <1>9. \A o \in Objs \ S : Contains(now, o) = Contains(list, o)
    BY <1>7 DEF Contains
  <1>10. new \in [Objs -> ObjType]
    BY <1>4, <1>5, <1>8
  <1>11. ASSUME NEW o \in Objs
         PROVE  /\ StepSizes(o, new[o])
                /\ Regular(o) => EffectSound(o, new[o], Contains(now, o))
                /\ o \notin Icons \union Textbox => new[o].visible /\ new[o].step >= 0
    <2>1. CASE o \in S
      BY <1>8, <2>1
    <2>2. CASE o \notin S
      BY <1>4, <1>9, <2>2 DEF ObjectsSound
    <2> QED BY <2>1, <2>2
  <1>12. ObjectsSound(new, now)
    BY <1>11 DEF ObjectsSound
  <1> QED BY <1>4, <1>6, <1>8, <1>9, <1>10, <1>12 DEF new, now, ef

\* What a request hides at once is on the re-blit list, and what it shows is
\* invalid.
LEMMA RequestPainted ==
  ASSUME ScreenTypes, ObjectsSound(obj, fx), Painted(obj, blit),
         NEW S \in SUBSET (Icons \union Textbox), NEW vis \in [S -> BOOLEAN]
  PROVE  Painted(SetVisibility(obj, S, vis), blit \union Uncovered(obj, S, vis))
  <1> DEFINE new == SetVisibility(obj, S, vis)
             now == blit \union Uncovered(obj, S, vis)
  <1>1. SUFFICES ASSUME OnScreen, NEW o \in Objs PROVE PaintedObject(o, new[o], o \in now)
    BY DEF Painted
  <1>2. PaintedObject(o, obj[o], o \in blit)
    BY <1>1 DEF Painted
  <1>3. CASE o \notin S
    <2>1. new[o] = obj[o] /\ (o \in now <=> o \in blit)
      BY <1>3 DEF SetVisibility, Uncovered
    <2> QED BY <1>2, <2>1 DEF PaintedObject, BoxMarked
  <1>4. CASE o \in S
    <2> DEFINE l == Contains(fx, o)
               v == vis[o]
               ob == obj[o]
    <2>1. /\ ob \in ObjType /\ v \in BOOLEAN /\ l \in BOOLEAN
          /\ StepSizes(o, ob) /\ (Regular(o) => EffectSound(o, ob, l))
      BY <1>4 DEF ObjectsSound, ScreenTypes, Contains
    <2>2. BothWays(o) => Bright(Shown(ob, o, v)) = Bright(ob)
      BY <2>1, VisibilityKeeps
    <2>3. new[o] = Shown(ob, o, v) /\ (o \in now) = ((o \in blit) \/ (~v /\ ob.visible))
      BY <1>4 DEF SetVisibility, Shown, Uncovered
    <2>4. ~(Kind[o] = "bar" /\ o \notin Textbox)
      BY <1>4, IconFacts
    <2>5. BoxMarked(o, ob, fb[o], o \in blit) => BoxMarked(o, new[o], fb[o], o \in now)
      <3> DEFINE b == o \in blit
      <3>1. b \in BOOLEAN
        OBVIOUS
      <3> HIDE DEF b, ob, v
      <3>2. BoxMarked(o, ob, fb[o], b)
            => BoxMarked(o, Shown(ob, o, v), fb[o], b \/ (~v /\ ob.visible))
        BY <2>1, <3>1, VisibilityMarks
      <3>3. (o \in now) = (b \/ (~v /\ ob.visible))
        BY <2>3 DEF b
      <3> HIDE DEF now, new
      <3> QED BY <2>3, <3>2, <3>3 DEF b
    <2>6. BothWays(o) => Bright(new[o]) = Bright(ob)
      BY <2>2, <2>3
    <2> HIDE DEF new, now
    <2> QED BY <1>2, <2>4, <2>5, <2>6 DEF PaintedObject
  <1> QED BY <1>3, <1>4

-----------------------------------------------------------------------------
(* Painting                                                                *)

\* An icon looks as bright as it is.
LEMMA LookFacts ==
  ASSUME NEW o \in Objs, NEW ob \in ObjType, NEW c
  PROVE  /\ Kind[o] = "icon" => LookOf(o, ob, c)[1] = Bright(ob)
         /\ ~ob.visible => LookOf(o, ob, c) = Blank
         /\ LookOf(o, [ob EXCEPT !.invalid = FALSE], c) = LookOf(o, ob, c)
  <1>1. /\ ob.opacity \in Int /\ 0 <= ob.opacity
        /\ [ob EXCEPT !.invalid = FALSE].visible = ob.visible
        /\ [ob EXCEPT !.invalid = FALSE].opacity = ob.opacity
    BY DEF ObjType
  <1>2. Kind[o] = "icon" => LookOf(o, ob, c)[1] = Bright(ob)
    <2>1. Kind[o] = "icon" => Alpha(o, ob) = ob.opacity
      BY DEF Alpha, TextKinds
    <2> QED BY <1>1, <2>1 DEF LookOf, Blank, Bright
  <1>3. ~ob.visible => LookOf(o, ob, c) = Blank
    BY DEF LookOf
  <1>4. LookOf(o, [ob EXCEPT !.invalid = FALSE], c) = LookOf(o, ob, c)
    BY <1>1 DEF LookOf, Alpha
  <1> QED BY <1>2, <1>3, <1>4

\* The content of boxes and icons is nothing.
LEMMA PlainContent ==
  ASSUME ScreenTypes, NEW o \in Objs
  PROVE  /\ Kind[o] \in {"box", "icon"} => Content(o) = 0
         /\ Kind[o] = "bar" => Content(o) = value["bar"]
  BY DEF ScreenTypes, Content

\* What a repaint shows of every object.
LEMMA RepaintPaints ==
  ASSUME ScreenTypes, PlainShown, NEW obs \in [Objs -> ObjType],
         RepaintFrom(obs), value' = value,
         \A o \in Objs : o \notin Icons \union Textbox => obs[o].visible
  PROVE  /\ obj' = Validate(obs) /\ PlainShown' /\ Painted(obj, blit)'
         /\ \A o \in Objs : fb'[o] = LookOf(o, obs[o], shown'[o])
  <1> DEFINE S == Prerendered(InvalidateAll(obs), TRUE)
  <1>1. /\ obj' = Validate(obs) /\ shown' = Update(S) /\ blit' = blit \union S
        /\ fb' = [o \in Objs |-> LookOf(o, obs[o], Update(S)[o])]
    BY DEF RepaintFrom
  <1>2. \A o \in Objs : o \in S <=> obs[o].visible
    BY DEF Prerendered, InvalidateAll, ObjType
  <1> HIDE DEF S
  <1>3. \A o \in Objs : fb'[o] = LookOf(o, obs[o], shown'[o])
    BY <1>1
  <1>4. ASSUME NEW o \in Objs
        PROVE  /\ Kind[o] \in {"box", "icon"} => shown'[o] = 0
               /\ PaintedObject(o, obj[o], o \in blit)'
    <2>1. obs[o] \in ObjType /\ obj'[o] = [obs[o] EXCEPT !.invalid = FALSE]
      BY <1>1 DEF Validate
    <2>2. obj'[o] \in ObjType /\ fb'[o] = LookOf(o, obj'[o], shown'[o])
      <3>1. obj'[o] \in ObjType
        BY <2>1 DEF ObjType
      <3>2. LookOf(o, obj'[o], shown'[o]) = LookOf(o, obs[o], shown'[o])
        BY <2>1, LookFacts
      <3> QED BY <1>3, <3>1, <3>2
    <2>3. Content(o)' = Content(o)
      BY DEF Content
    <2>4. shown'[o] = IF obs[o].visible THEN Content(o) ELSE shown[o]
      BY <1>1, <1>2 DEF Update
    <2>5. Kind[o] \in {"box", "icon"} => shown'[o] = 0
      BY <2>4, PlainContent DEF PlainShown
    <2>6. ASSUME Kind[o] = "bar", o \notin Textbox
          PROVE  (fb[o] = LookOf(o, obj[o], shown[o]) /\ (shown[o] # Content(o) => obj[o].invalid))'
      <3>1. o \notin Icons \union Textbox
        BY <2>6, IconFacts
      <3> QED BY <2>2, <2>3, <2>4, <3>1
    <2>7. Kind[o] = "icon" => fb'[o][1] = Bright(obj'[o])
      <3> DEFINE new == obj'[o]
                 content == shown'[o]
      <3>1. new \in ObjType /\ fb'[o] = LookOf(o, new, content)
        BY <2>2
      <3> HIDE DEF new, content
      <3>2. Kind[o] = "icon" => LookOf(o, new, content)[1] = Bright(new)
        BY <3>1, LookFacts
      <3>3. Kind[o] = "icon" => fb'[o][1] = Bright(new)
        BY Zenon, <3>1, <3>2
      <3> QED BY <3>3 DEF new
    <2>8. Kind[o] \in {"box", "icon"} => BoxMarked(o, obj[o], fb[o], o \in blit)'
      BY <2>2, <2>5 DEF BoxMarked
    <2>9. PaintedObject(o, obj[o], o \in blit)'
      BY <2>6, <2>7, <2>8 DEF PaintedObject, BothWays
    <2> QED BY <2>5, <2>9
  <1>5. PlainShown'
    BY <1>4 DEF PlainShown
  <1>6. Painted(obj, blit)'
    BY <1>4 DEF Painted
  <1> QED BY <1>1, <1>3, <1>5, <1>6

\* What a paint shows of every object, if everything that is out of date is
\* marked.
LEMMA PaintPaints ==
  ASSUME ScreenTypes, PlainShown, NEW obs \in [Objs -> ObjType], NEW listed,
         PaintFrom(obs, listed), value' = value, ctty' = ctty, Painted(obs, listed),
         \A o \in Objs : o \notin Icons \union Textbox => obs[o].visible
  PROVE  obj' = Validate(obs) /\ PlainShown' /\ Painted(obj, blit)'
  <1> DEFINE S == Prerendered(obs, FALSE)
             R == S \union listed
  <1>1. /\ obj' = Validate(obs) /\ shown' = Update(S) /\ reloaded' = reloaded
        /\ fb' = [o \in Objs |-> IF o \in R THEN LookOf(o, obs[o], Update(S)[o]) ELSE fb[o]]
    BY DEF PaintFrom
  <1>2. \A o \in Objs : o \in S <=> obs[o].invalid /\ obs[o].visible /\ ~Unchanged(o)
    BY DEF Prerendered
  <1>3. \A o \in Objs : o \in R <=> o \in S \/ o \in listed
    OBVIOUS
  <1> HIDE DEF S, R
  <1>4. \A o \in Objs : shown'[o] = IF o \in S THEN Content(o) ELSE shown[o]
    BY <1>1 DEF Update
  <1>5. \A o \in Objs : fb'[o] = IF o \in R THEN LookOf(o, obs[o], shown'[o]) ELSE fb[o]
    BY <1>1
  <1>6. ASSUME NEW o \in Objs PROVE Kind[o] \in {"box", "icon"} => shown'[o] = 0
    BY <1>4, PlainContent DEF PlainShown
  <1>7. ASSUME OnScreen, NEW o \in Objs PROVE PaintedObject(o, obj[o], o \in blit)'
    <2>1. obs[o] \in ObjType /\ obj'[o] = [obs[o] EXCEPT !.invalid = FALSE]
      BY <1>1 DEF Validate
    <2>2. PaintedObject(o, obs[o], o \in listed)
      BY <1>7 DEF Painted
    <2>3. /\ obj'[o] \in ObjType /\ obj'[o].visible = obs[o].visible
          /\ obj'[o].opacity = obs[o].opacity /\ Bright(obj'[o]) = Bright(obs[o])
      BY <2>1 DEF ObjType, Bright
    <2> DEFINE old == obs[o]
               new == obj'[o]
               content == shown'[o]
               marked == o \in listed
    <2>4. LookOf(o, new, content) = LookOf(o, old, content)
      BY <2>1, LookFacts
    <2>5. Kind[o] = "icon" => LookOf(o, old, content)[1] = Bright(old)
      <3>1. old \in ObjType
        BY <2>1
      <3> HIDE DEF old, content
      <3> QED BY <3>1, LookFacts
    <2>6. Content(o)' = Content(o)
      BY DEF Content
    <2>7. ASSUME Kind[o] \in {"box", "icon"}
          PROVE  fb'[o] = LookOf(o, new, content) \/ (reloaded /\ ~old.visible)
      <3>1. ~Unchanged(o) /\ shown'[o] = 0
        BY <1>6, <2>7 DEF Unchanged
      <3>2. CASE o \in R
        BY <1>5, <2>4, <3>2
      <3>3. CASE o \notin R
        <4>1. BoxMarked(o, old, fb[o], marked)
          BY <2>2, <2>7 DEF PaintedObject
        <4>2. ~marked /\ ~(old.invalid /\ old.visible)
          BY <1>2, <1>3, <3>1, <3>3
        <4>3. fb[o] = LookOf(o, old, 0) \/ (reloaded /\ ~old.visible)
          BY <4>1, <4>2 DEF BoxMarked
        <4> QED BY <1>5, <2>4, <3>1, <3>3, <4>3
      <3> QED BY <3>2, <3>3
    <2>8. ASSUME Kind[o] = "bar", o \notin Textbox, ~reloaded
          PROVE  fb'[o] = LookOf(o, new, content) /\ content = Content(o)
      <3>1. /\ fb[o] = LookOf(o, old, shown[o]) /\ (shown[o] # Content(o) => old.invalid)
            /\ old.visible /\ (Unchanged(o) <=> shown[o] = Content(o))
        <4>1. o \notin Icons \union Textbox
          BY <2>8, IconFacts
        <4> QED BY <2>2, <2>8, <4>1 DEF PaintedObject, Unchanged
      <3>2. content = Content(o)
        BY <1>2, <1>4, <3>1
      <3>3. fb'[o] = LookOf(o, old, content)
        BY <1>3, <1>4, <1>5, <3>1
      <3> QED BY <2>4, <3>2, <3>3
    <2>9. BothWays(o) /\ ~reloaded => fb'[o][1] = Bright(new)
      <3>1. BothWays(o) /\ ~reloaded => Kind[o] = "icon" /\ fb[o][1] = Bright(old)
        BY <2>2 DEF PaintedObject, BothWays
      <3> QED BY <1>5, <2>3, <2>5, <3>1
    <2>10. Kind[o] \in {"box", "icon"} => BoxMarked(o, obj[o], fb[o], o \in blit)'
      BY <1>1, <1>6, <2>3, <2>7 DEF BoxMarked
    <2>11. Kind[o] = "bar" /\ o \notin Textbox /\ ~reloaded =>
             (fb[o] = LookOf(o, obj[o], shown[o]) /\ (shown[o] # Content(o) => obj[o].invalid))'
      BY <2>6, <2>8
    <2> QED BY <1>1, <2>9, <2>10, <2>11 DEF PaintedObject, BothWays
  <1>8. Painted(obj, blit)'
    BY <1>1, <1>7 DEF Painted, OnScreen
  <1> QED BY <1>1, <1>6, <1>8 DEF PlainShown

-----------------------------------------------------------------------------
(* Objects that differ in nothing but being invalid                        *)

\* Two objects with the same visibility, opacity and step.
Alike(a, b) == (a.visible <=> b.visible) /\ a.opacity = b.opacity /\ a.step = b.step

\* What the invariant says of an object says it of any like it.
LEMMA AlikeKeeps ==
  ASSUME NEW o, NEW a, NEW b, Alike(a, b)
  PROVE  /\ StepSizes(o, a) <=> StepSizes(o, b)
         /\ \A l : EffectSound(o, a, l) <=> EffectSound(o, b, l)
         /\ \A l, w : Heading(a, l, w) <=> Heading(b, l, w)
         /\ Bright(a) = Bright(b)
         /\ \A c : LookOf(o, a, c) = LookOf(o, b, c)
  <1> USE DEF Alike
  <1>1. StepSizes(o, a) <=> StepSizes(o, b)
    BY DEF StepSizes
  <1>2. \A l : EffectSound(o, a, l) <=> EffectSound(o, b, l)
    BY DEF EffectSound
  <1>3. \A l, w : Heading(a, l, w) <=> Heading(b, l, w)
    BY DEF Heading
  <1>4. Bright(a) = Bright(b)
    BY DEF Bright
  <1>5. \A c : LookOf(o, a, c) = LookOf(o, b, c)
    BY DEF LookOf, Alpha
  <1> QED BY <1>1, <1>2, <1>3, <1>4, <1>5

\* The objects of a theme that differ in nothing but being invalid.
LEMMA AllAlike ==
  ASSUME NEW obs, NEW new, NEW list, \A o \in Objs : Alike(new[o], obs[o]),
         ObjectsSound(obs, list)
  PROVE  ObjectsSound(new, list)
  <1> SUFFICES ASSUME NEW o \in Objs
               PROVE  /\ StepSizes(o, new[o])
                      /\ Regular(o) => EffectSound(o, new[o], Contains(list, o))
                      /\ o \notin Icons \union Textbox => new[o].visible /\ new[o].step >= 0
    BY DEF ObjectsSound
  <1>1. /\ StepSizes(o, obs[o])
        /\ Regular(o) => EffectSound(o, obs[o], Contains(list, o))
        /\ o \notin Icons \union Textbox => obs[o].visible /\ obs[o].step >= 0
    BY DEF ObjectsSound
  <1>2. Alike(new[o], obs[o])
    OBVIOUS
  <1>3. StepSizes(o, new[o]) /\ (Regular(o) => EffectSound(o, new[o], Contains(list, o)))
    BY <1>1, <1>2, AlikeKeeps
  <1> QED BY <1>1, <1>2, <1>3 DEF Alike

\* The same of where they are heading.
LEMMA AllHeadAlike ==
  ASSUME NEW obs, NEW new, NEW list, \A o \in Objs : Alike(new[o], obs[o]), HeadsTo(obs, list)
  PROVE  HeadsTo(new, list)
  BY AlikeKeeps DEF HeadsTo

\* Marking an object, or unmarking it, changes nothing else of it.
LEMMA MarkAlike ==
  ASSUME NEW ob \in ObjType, NEW b \in BOOLEAN
  PROVE  LET new == [ob EXCEPT !.invalid = b]
         IN  new \in ObjType /\ Alike(new, ob) /\ new.invalid = b
  BY DEF ObjType, Alike

\* Rendering the objects obs validates them and changes nothing else of them.
LEMMA ValidateAlike ==
  ASSUME NEW obs \in [Objs -> ObjType]
  PROVE  /\ Validate(obs) \in [Objs -> ObjType]
         /\ \A o \in Objs : Alike(Validate(obs)[o], obs[o])
  <1>1. ASSUME NEW o \in Objs
        PROVE  Validate(obs)[o] \in ObjType /\ Alike(Validate(obs)[o], obs[o])
    <2>1. obs[o] \in ObjType /\ Validate(obs)[o] = [obs[o] EXCEPT !.invalid = FALSE]
      BY DEF Validate
    <2> QED BY <2>1, MarkAlike
  <1> QED BY <1>1 DEF Validate

\* Marking objects as invalid changes nothing else of them.
LEMMA InvalidAlike ==
  ASSUME NEW obs \in [Objs -> ObjType], NEW M \in SUBSET Objs, NEW new,
         new = [o \in Objs |-> [obs[o] EXCEPT !.invalid = @ \/ o \in M]]
  PROVE  /\ new \in [Objs -> ObjType]
         /\ \A o \in Objs : /\ Alike(new[o], obs[o])
                            /\ new[o].invalid <=> obs[o].invalid \/ o \in M
  <1>1. ASSUME NEW o \in Objs
        PROVE  /\ new[o] \in ObjType /\ Alike(new[o], obs[o])
               /\ new[o].invalid <=> obs[o].invalid \/ o \in M
    <2> DEFINE b == obs[o].invalid \/ o \in M
    <2>1. obs[o] \in ObjType /\ b \in BOOLEAN /\ new[o] = [obs[o] EXCEPT !.invalid = b]
      OBVIOUS
    <2> HIDE DEF b
    <2>2. new[o] \in ObjType /\ Alike(new[o], obs[o]) /\ new[o].invalid = b
      BY <2>1, MarkAlike
    <2> QED BY <2>2 DEF b
  <1> QED BY <1>1

-----------------------------------------------------------------------------
(* The invariant holds initially                                           *)

\* A new theme: its effects all blend in.
LEMMA NewTheme ==
  /\ NewObjects \in [Objs -> ObjType] /\ NewEffects \in Seq(Objs)
  /\ ObjectsSound(NewObjects, NewEffects)
  /\ \A o \in Objs : /\ NewObjects[o].step >= 0
                     /\ NewObjects[o].visible <=> Kind[o] # "icon"
                     /\ Regular(o) => Heading(NewObjects[o], Contains(NewEffects, o), Kind[o] # "icon")
  <1> DEFINE T == {o \in Objs : Kind[o] # "icon" /\ Blendin[o] > 0}
  <1>1. NewEffects \in Seq(Objs) /\ \A o : Contains(NewEffects, o) <=> o \in T
    <2>1. T \in SUBSET Objs
      OBVIOUS
    <2>2. IsFiniteSet(Objs)
      BY ScreenAssumption
    <2> HIDE DEF T
    <2>3. IsFiniteSet(T)
      BY <2>1, <2>2, FS_Subset
    <2>4. SetToSeq(T) \in Seq(T) /\ \A o : Contains(SetToSeq(T), o) <=> o \in T
      BY <2>3, SetToSeqLists
    <2>5. SetToSeq(T) \in Seq(Objs)
      BY <2>1, <2>4
    <2> QED BY <2>4, <2>5 DEF NewEffects, T
  <1>2. ASSUME NEW o \in Objs
        PROVE  /\ NewObjects[o] \in ObjType
               /\ NewObjects[o].visible <=> Kind[o] # "icon"
               /\ IF o \in T
                  THEN NewObjects[o].step = StepOf(Blendin[o]) /\ NewObjects[o].step > 0
                  ELSE NewObjects[o].step = 0 /\ NewObjects[o].opacity = 255
    <2> DEFINE up == StepOf(Blendin[o])
               fast == Blendin[o] \div OpacitySteps(Blendin[o]) > 0
               vis == Kind[o] # "icon"
    <2>1. Blendin[o] \in Nat
      BY ScreenAssumption
    <2>2. up \in 1..255 /\ fast \in BOOLEAN /\ vis \in BOOLEAN
      <3>1. OpacitySteps(Blendin[o]) \in 10..255
        BY <2>1, StepCount
      <3> QED BY <3>1, StepSize DEF StepOf
    <2>3. NewObjects[o] = NewObject(o)
      BY DEF NewObjects
    <2>4. CASE o \in T
      <3>1. NewObject(o) = [visible |-> vis, opacity |-> 0, step |-> up,
                            timed |-> fast, invalid |-> TRUE]
        BY ZenonT(30), <2>4 DEF NewObject, Effect, StepOf
      <3>2. up \in -255..255 /\ 0 \in 0..255 /\ up > 0
        BY <2>2
      <3> HIDE DEF up, fast, vis
      <3>3. /\ NewObject(o) \in ObjType
            /\ NewObject(o).visible = vis /\ NewObject(o).step = up
        BY <2>2, <3>1, <3>2 DEF ObjType
      <3> QED BY <2>3, <2>4, <3>2, <3>3 DEF up, vis
    <2>5. CASE o \notin T
      <3>1. NewObject(o) = [visible |-> vis, opacity |-> 255, step |-> 0,
                            timed |-> FALSE, invalid |-> TRUE]
        BY <2>5 DEF NewObject
      <3>2. 0 \in -255..255 /\ 255 \in 0..255
        OBVIOUS
      <3> HIDE DEF vis
      <3>3. /\ NewObject(o) \in ObjType
            /\ NewObject(o).visible = vis /\ NewObject(o).step = 0 /\ NewObject(o).opacity = 255
        BY <2>2, <3>1, <3>2 DEF ObjType
      <3> QED BY <2>3, <2>5, <3>3 DEF vis
    <2> QED BY <2>4, <2>5
  <1>3. NewObjects \in [Objs -> ObjType]
    BY <1>2 DEF NewObjects
  <1>4. ASSUME NEW o \in Objs
        PROVE  /\ StepSizes(o, NewObjects[o])
               /\ Regular(o) => EffectSound(o, NewObjects[o], Contains(NewEffects, o))
               /\ o \notin Icons \union Textbox
                  => NewObjects[o].visible /\ NewObjects[o].step >= 0
               /\ NewObjects[o].step >= 0
               /\ Regular(o) => Heading(NewObjects[o], Contains(NewEffects, o), Kind[o] # "icon")
    <2>1. Blendin[o] \in Nat /\ NewObjects[o].step \in Int
      <3>1. NewObjects[o] \in ObjType
        BY <1>2
      <3>2. NewObjects[o].step \in Int
        BY <3>1 DEF ObjType
      <3> QED BY <3>2, ScreenAssumption
    <2>2. Contains(NewEffects, o) <=> Kind[o] # "icon" /\ Blendin[o] > 0
      BY <1>1
    <2>3. StepSizes(o, NewObjects[o])
      BY <1>2 DEF StepSizes, StepOf
    <2>4. EffectSound(o, NewObjects[o], Contains(NewEffects, o))
      BY <1>2, <2>1, <2>2 DEF EffectSound
    <2>5. Heading(NewObjects[o], Contains(NewEffects, o), Kind[o] # "icon")
      BY <1>2, <2>1, <2>2 DEF Heading
    <2> QED BY <1>2, <2>1, <2>3, <2>4, <2>5, IconFacts
  <1> QED BY <1>1, <1>2, <1>3, <1>4 DEF ObjectsSound

\* All objects of a new theme are invalid, whatever is asked of them.
LEMMA NewInvalid ==
  ASSUME NEW S, NEW vis
  PROVE  \A o \in Objs : SetVisibility(NewObjects, S, vis)[o].invalid
  <1> SUFFICES ASSUME NEW o \in Objs
               PROVE  SetVisibility(NewObjects, S, vis)[o].invalid
    OBVIOUS
  <1>1. CASE o \in S
    <2>1. PICK ob : SetVisibility(NewObjects, S, vis)[o] = [ob EXCEPT !.invalid = TRUE]
      BY <1>1 DEF SetVisibility
    <2> QED BY <2>1
  <1>2. CASE o \notin S
    BY <1>2 DEF SetVisibility, NewObjects, NewObject, Effect
  <1> QED BY <1>1, <1>2

\* As long as nobody has seen a new theme its invalid objects are marked.
LEMMA UnseenPainted ==
  ASSUME NEW obs \in [Objs -> ObjType], NEW list, reloaded, \A o \in Objs : obs[o].invalid
  PROVE  Painted(obs, list)
  <1>1. ASSUME NEW o \in Objs PROVE BoxMarked(o, obs[o], fb[o], o \in list)
    BY DEF BoxMarked, ObjType
  <1> QED BY <1>1 DEF Painted, PaintedObject

\* Who wants an object on the screen.
LEMMA WantedFacts ==
  ASSUME NEW o \in Objs, textbox \in BOOLEAN
  PROVE  /\ o \in Icons => Wanted(o) = (svc = SvcState[o])
         /\ o \in Textbox => Wanted(o) = textbox
         /\ o \notin Icons \union Textbox => Wanted(o) = TRUE
         /\ Wanted(o) \in BOOLEAN
  <1>1. CASE o \in Icons
    BY <1>1, IconFacts DEF Wanted
  <1>2. CASE o \in Textbox
    BY <1>2, IconFacts DEF Wanted
  <1>3. CASE o \notin Icons \union Textbox
    BY <1>3 DEF Wanted
  <1> QED BY <1>1, <1>2, <1>3

\* The settings of visibility that requests ask for.
LEMMA RequestedVis ==
  /\ \A on \in BOOLEAN : TextboxVis(on) \in [Textbox -> BOOLEAN]
  /\ \A state : IconVis(state) \in [Icons -> BOOLEAN]
  /\ Textbox \in SUBSET (Icons \union Textbox) /\ Icons \in SUBSET (Icons \union Textbox)
  BY DEF TextboxVis, IconVis

\* The daemon starts with a theme loaded and not painted.
LEMMA InitInvariant ==
  ASSUME Init
  PROVE  ScreenInvariant
  <1> DEFINE vis == TextboxVis(textbox)
             obs == SetVisibility(NewObjects, Textbox, vis)
             list == NewEffects \o EffectsOf(NewObjects, Textbox, vis)
  <1>1. textbox \in BOOLEAN /\ vis \in [Textbox -> BOOLEAN]
    BY RequestedVis DEF Init
  <1>2. /\ obs \in [Objs -> ObjType] /\ list \in Seq(Objs)
        /\ ObjectsSound(obs, list)
        /\ \A o \in Textbox :
             Regular(o) /\ ~(vis[o] /\ NewObjects[o].visible /\ NewObjects[o].step < 0
                             /\ Contains(NewEffects, o))
             => Heading(obs[o], Contains(list, o), vis[o])
        /\ \A o \in Objs : o \notin Textbox =>
             obs[o] = NewObjects[o] /\ (Contains(list, o) <=> Contains(NewEffects, o))
    <2> HIDE DEF vis
    <2>1. Textbox \in SUBSET (Icons \union Textbox)
      BY RequestedVis
    <2> QED BY <1>1, <2>1, NewTheme, RequestSound
  <1>3. obj = obs /\ fx = list
    BY DEF Init
  <1> HIDE DEF obs, list
  <1>4. ScreenTypes
    BY <1>1, <1>2, <1>3 DEF Init, ScreenTypes
  <1>5. ASSUME NEW o \in Objs, Regular(o)
        PROVE  Heading(obj[o], Contains(fx, o), Wanted(o))
    <2>1. CASE o \in Textbox
      <3>1. vis[o] = textbox /\ Wanted(o) = textbox
        BY <1>1, <2>1, WantedFacts DEF TextboxVis
      <3>2. ~(NewObjects[o].step < 0)
        <4>1. NewObjects[o].step >= 0 /\ NewObjects[o] \in ObjType
          BY NewTheme
        <4> QED BY <4>1 DEF ObjType
      <3> HIDE DEF vis
      <3> QED BY <1>2, <1>3, <1>5, <2>1, <3>1, <3>2
    <2>2. CASE o \notin Textbox
      <3>1. Wanted(o) = (Kind[o] # "icon")
        <4>1. CASE o \in Icons
          <5>1. svc # SvcState[o] /\ Kind[o] = "icon"
            BY <4>1, IconFacts, ScreenAssumption DEF Init, Icons
          <5> QED BY <1>1, <4>1, <5>1, WantedFacts
        <4>2. CASE o \notin Icons
          BY <1>1, <2>2, <4>2, WantedFacts, IconFacts
        <4> QED BY <4>1, <4>2
      <3>2. Heading(NewObjects[o], Contains(NewEffects, o), Kind[o] # "icon")
        BY <1>5, NewTheme
      <3> QED BY <1>2, <1>3, <2>2, <3>1, <3>2 DEF Heading
    <2> QED BY <2>1, <2>2
  <1>6. PlainShown /\ Painted(obj, blit)
    <2>1. reloaded /\ PlainShown
      BY DEF Init, PlainShown
    <2>2. \A o \in Objs : obs[o].invalid
      <3> HIDE DEF vis
      <3> QED BY NewInvalid, RequestedVis DEF obs
    <2> QED BY <1>2, <1>3, <2>1, <2>2, UnseenPainted
  <1> QED BY <1>2, <1>3, <1>4, <1>5, <1>6 DEF ScreenInvariant, HeadsTo

-----------------------------------------------------------------------------
(* The invariant is kept by every step                                     *)

\* update_svc: icons appear and disappear.
LEMMA UpdateSvcKeeps ==
  ASSUME ScreenInvariant, NEW state, UpdateSvc(state)
  PROVE  ScreenInvariant'
  <1> DEFINE vis == IconVis(state)
             obs == SetVisibility(obj, Icons, vis)
             list == fx \o EffectsOf(obj, Icons, vis)
  <1> USE DEF ScreenInvariant
  <1>1. /\ obj \in [Objs -> ObjType] /\ fx \in Seq(Objs) /\ ObjectsSound(obj, fx)
        /\ textbox \in BOOLEAN /\ textbox' = textbox
    BY DEF ScreenTypes, UpdateSvc
  <1>2. vis \in [Icons -> BOOLEAN] /\ Icons \in SUBSET (Icons \union Textbox)
    BY RequestedVis
  <1>3. /\ obs \in [Objs -> ObjType] /\ list \in Seq(Objs)
        /\ ObjectsSound(obs, list)
        /\ \A o \in Icons :
             Regular(o) /\ ~(vis[o] /\ obj[o].visible /\ obj[o].step < 0 /\ Contains(fx, o))
             => Heading(obs[o], Contains(list, o), vis[o])
        /\ \A o \in Objs : o \notin Icons =>
             obs[o] = obj[o] /\ (Contains(list, o) <=> Contains(fx, o))
    <2> HIDE DEF vis
    <2> QED BY <1>1, <1>2, RequestSound
  <1>4. Painted(obs, blit \union Uncovered(obj, Icons, vis))
    BY <1>2, RequestPainted
  <1>5. /\ obj' = obs /\ fx' = list /\ blit' = blit \union Uncovered(obj, Icons, vis)
        /\ svc' = state /\ lost' = Lost(Icons, vis)
        /\ UNCHANGED <<shown, fb, value, ctty, reloaded>>
    BY DEF UpdateSvc
  <1> HIDE DEF obs, list
  <1>6. ScreenTypes'
    BY <1>1, <1>3, <1>5 DEF ScreenTypes
  <1>7. HeadsTo(obj, fx)'
    <2> SUFFICES ASSUME NEW o \in Objs, Regular(o), o \notin lost'
                 PROVE  Heading(obs[o], Contains(list, o), Wanted(o)')
      BY <1>5 DEF HeadsTo, Regular
    <2>1. CASE o \in Icons
      <3>1. Wanted(o)' = vis[o]
        <4>1. Wanted(o)' = (svc' = SvcState[o])
          BY <2>1, IconFacts DEF Wanted
        <4>2. vis[o] = (SvcState[o] = state)
          BY <2>1 DEF IconVis
        <4> QED BY <1>5, <4>1, <4>2
      <3>2. ~(vis[o] /\ obj[o].visible /\ obj[o].step < 0 /\ Contains(fx, o))
        BY <1>5, <2>1 DEF Lost, Ignored
      <3> HIDE DEF vis
      <3> QED BY <1>3, <2>1, <3>1, <3>2
    <2>2. CASE o \notin Icons
      <3>1. Wanted(o)' = Wanted(o)
        BY <1>1, <2>2 DEF Wanted
      <3>2. o \notin lost
        BY <1>5, <2>2 DEF Lost
      <3> QED BY <1>3, <2>2, <3>1, <3>2 DEF HeadsTo, Heading
    <2> QED BY <2>1, <2>2
  <1>8. PlainShown' /\ Painted(obj, blit)'
    BY <1>4, <1>5 DEF PlainShown, Painted, OnScreen, PaintedObject, Content, BothWays, Regular, BoxMarked
  <1> QED BY <1>3, <1>5, <1>6, <1>7, <1>8

\* Steps that change nothing of the objects but to mark some of them: those
\* whose content on the screen is then out of date.
LEMMA MarksKeep ==
  ASSUME ScreenInvariant, obj' \in [Objs -> ObjType],
         \A o \in Objs : Alike(obj'[o], obj[o]) /\ (obj[o].invalid => obj'[o].invalid),
         value' \in [{"bar", "message", "log"} -> Nat],
         \A o \in Objs : Kind[o] = "bar" => Content(o)' = Content(o) \/ obj'[o].invalid,
         UNCHANGED <<fx, shown, blit, fb, svc, textbox, lost, reloaded>>,
         ctty' = ctty \/ ctty' # "silent"
  PROVE  ScreenInvariant'
  <1> USE DEF ScreenInvariant
  <1>1. ScreenTypes'
    BY DEF ScreenTypes
  <1>2. ObjectsSound(obj, fx)'
    <2>1. ObjectsSound(obj', fx)
      BY AllAlike
    <2> QED BY <2>1 DEF ObjectsSound, Regular, Icons, StepSizes
  <1>3. HeadsTo(obj, fx)'
    <2>1. HeadsTo(obj', fx)
      BY AllHeadAlike
    <2>2. \A o \in Objs : Wanted(o)' = Wanted(o)
      BY DEF Wanted
    <2> QED BY <2>1, <2>2 DEF HeadsTo, Regular
  <1>4. PlainShown'
    BY DEF PlainShown
  <1>5. Painted(obj, blit)'
    <2>1. SUFFICES ASSUME OnScreen, NEW o \in Objs
                   PROVE  PaintedObject(o, obj[o], o \in blit)'
      BY DEF Painted, OnScreen
    <2>2. PaintedObject(o, obj[o], o \in blit)
      BY <2>1 DEF Painted
    <2>3. /\ Bright(obj'[o]) = Bright(obj[o])
          /\ \A c : LookOf(o, obj'[o], c) = LookOf(o, obj[o], c)
          /\ obj'[o].visible <=> obj[o].visible
      BY AlikeKeeps DEF Alike
    <2>4. BoxMarked(o, obj[o], fb[o], o \in blit) => BoxMarked(o, obj[o], fb[o], o \in blit)'
      BY <2>3 DEF BoxMarked
    <2> QED BY <2>2, <2>3, <2>4 DEF PaintedObject, BothWays, Regular
  <1> QED BY <1>1, <1>2, <1>3, <1>4, <1>5

\* Objects that stay as they are.
LEMMA SameAlike ==
  ASSUME ScreenTypes, obj' = obj
  PROVE  /\ obj' \in [Objs -> ObjType]
         /\ \A o \in Objs : Alike(obj'[o], obj[o]) /\ (obj[o].invalid => obj'[o].invalid)
  BY DEF ScreenTypes, Alike

\* progress: bars and the message are marked.
LEMMA ProgressKeeps ==
  ASSUME ScreenInvariant, NEW v \in Values, Progress(v)
  PROVE  ScreenInvariant'
  <1> DEFINE M == {o \in Objs : Kind[o] \in {"bar", "message"}}
  <1>1. /\ obj \in [Objs -> ObjType] /\ value \in [{"bar", "message", "log"} -> Nat]
        /\ v \in Nat
    BY ScreenAssumption DEF ScreenInvariant, ScreenTypes
  <1>2. obj' = [o \in Objs |-> [obj[o] EXCEPT !.invalid = @ \/ o \in M]]
    BY DEF Progress
  <1>3. M \in SUBSET Objs /\ \A o \in Objs : Kind[o] = "bar" => o \in M
    OBVIOUS
  <1> HIDE DEF M
  <1>4. /\ obj' \in [Objs -> ObjType]
        /\ \A o \in Objs : Alike(obj'[o], obj[o]) /\ (obj'[o].invalid <=> obj[o].invalid \/ o \in M)
    BY <1>1, <1>2, <1>3, InvalidAlike
  <1>5. value' \in [{"bar", "message", "log"} -> Nat]
    BY <1>1 DEF Progress
  <1>6. UNCHANGED <<fx, shown, blit, fb, svc, textbox, ctty, lost, reloaded>>
    BY DEF Progress
  <1> QED BY <1>3, <1>4, <1>5, <1>6, MarksKeep

\* set message: the message is marked.
LEMMA SetMessageKeeps ==
  ASSUME ScreenInvariant, NEW v \in Values, SetMessage(v)
  PROVE  ScreenInvariant'
  <1> DEFINE M == {o \in Objs : Kind[o] = "message"}
  <1>1. /\ obj \in [Objs -> ObjType] /\ value \in [{"bar", "message", "log"} -> Nat]
        /\ v \in Nat
    BY ScreenAssumption DEF ScreenInvariant, ScreenTypes
  <1>2. obj' = [o \in Objs |-> [obj[o] EXCEPT !.invalid = @ \/ o \in M]]
    BY DEF SetMessage
  <1>3. M \in SUBSET Objs
    OBVIOUS
  <1> HIDE DEF M
  <1>4. /\ obj' \in [Objs -> ObjType]
        /\ \A o \in Objs : Alike(obj'[o], obj[o]) /\ (obj'[o].invalid <=> obj[o].invalid \/ o \in M)
    BY <1>1, <1>2, <1>3, InvalidAlike
  <1>5. /\ value' \in [{"bar", "message", "log"} -> Nat]
        /\ \A o \in Objs : Kind[o] = "bar" => Content(o)' = Content(o)
    BY <1>1 DEF SetMessage, Content
  <1>6. UNCHANGED <<fx, shown, blit, fb, svc, textbox, ctty, lost, reloaded>>
    BY DEF SetMessage
  <1> QED BY <1>4, <1>5, <1>6, MarksKeep

\* log: nothing is marked.
LEMMA LogKeeps ==
  ASSUME ScreenInvariant, Log
  PROVE  ScreenInvariant'
  <1>1. value \in [{"bar", "message", "log"} -> Nat] /\ ScreenTypes
    BY DEF ScreenInvariant, ScreenTypes
  <1>2. /\ value' \in [{"bar", "message", "log"} -> Nat]
        /\ \A o \in Objs : Kind[o] = "bar" => Content(o)' = Content(o)
    BY <1>1 DEF Log, Content
  <1>3. UNCHANGED <<obj, fx, shown, blit, fb, svc, textbox, ctty, lost, reloaded>>
    BY DEF Log, themeVars
  <1> QED BY <1>1, <1>2, <1>3, SameAlike, MarksKeep

\* Leaving the silent console: nothing of the splash is on the screen.
LEMMA SwitchKeeps ==
  ASSUME ScreenInvariant, SwitchVerbose \/ SwitchSilent
  PROVE  ScreenInvariant'
  <1>1. /\ UNCHANGED <<obj, fx, shown, blit, value, svc, textbox, lost, reloaded>>
        /\ ctty' # "silent"
    BY DEF SwitchVerbose, SwitchSilent, themeVars, inputVars
  <1> USE DEF ScreenInvariant
  <1>2. ScreenTypes'
    BY <1>1 DEF ScreenTypes
  <1>3. ObjectsSound(obj, fx)' /\ PlainShown'
    BY <1>1 DEF ObjectsSound, PlainShown, Regular, Icons, StepSizes
  <1>4. HeadsTo(obj, fx)'
    <2>1. \A o \in Objs : Wanted(o)' = Wanted(o)
      BY <1>1 DEF Wanted
    <2> QED BY <1>1, <2>1 DEF HeadsTo, Regular
  <1>5. Painted(obj, blit)'
    BY <1>1 DEF Painted, OnScreen
  <1> QED BY <1>2, <1>3, <1>4, <1>5

\* Objects that were rendered and validated.
LEMMA DrawnKeeps ==
  ASSUME NEW obs \in [Objs -> ObjType], NEW list \in Seq(Objs), ObjectsSound(obs, list),
         \A o \in Objs : Regular(o) /\ o \notin lost'
                         => Heading(obs[o], Contains(list, o), Wanted(o)'),
         obj' = Validate(obs) \/ obj' = obs, fx' = list,
         value' \in [{"bar", "message", "log"} -> Nat], textbox' \in BOOLEAN,
         PlainShown', Painted(obj, blit)'
  PROVE  ScreenInvariant'
  <1>1. obj' \in [Objs -> ObjType] /\ \A o \in Objs : Alike(obj'[o], obs[o])
    BY ValidateAlike DEF Alike
  <1>2. ScreenTypes'
    BY <1>1 DEF ScreenTypes
  <1>3. ObjectsSound(obj, fx)'
    <2>1. ObjectsSound(obj', list)
      BY <1>1, AllAlike
    <2> QED BY <2>1 DEF ObjectsSound, Regular, Icons, StepSizes
  <1>4. HeadsTo(obj, fx)'
    <2> SUFFICES ASSUME NEW o \in Objs, Regular(o), o \notin lost'
                 PROVE  Heading(obj'[o], Contains(list, o), Wanted(o)')
      BY DEF HeadsTo, Regular
    <2>1. Heading(obs[o], Contains(list, o), Wanted(o)')
      OBVIOUS
    <2> QED BY <1>1, <2>1 DEF Alike, Heading
  <1> QED BY <1>2, <1>3, <1>4 DEF ScreenInvariant

\* paint and repaint, and the repaint of switch_silent.
LEMMA CommandsKeep ==
  ASSUME ScreenInvariant, CmdPaint \/ CmdRepaint \/ Arrive
  PROVE  ScreenInvariant'
  <1>1. /\ obj \in [Objs -> ObjType] /\ fx \in Seq(Objs) /\ ScreenTypes /\ textbox \in BOOLEAN
        /\ value \in [{"bar", "message", "log"} -> Nat]
        /\ ObjectsSound(obj, fx) /\ HeadsTo(obj, fx) /\ PlainShown /\ Painted(obj, blit)
    BY DEF ScreenInvariant, ScreenTypes
  <1>2. \A o \in Objs : o \notin Icons \union Textbox => obj[o].visible
    BY <1>1 DEF ObjectsSound
  <1>3. UNCHANGED <<fx, value, svc, textbox, lost>>
    BY DEF CmdPaint, CmdRepaint, Arrive, inputVars
  <1>4. obj' = Validate(obj) /\ PlainShown' /\ Painted(obj, blit)'
    <2>1. CASE CmdPaint
      <3>1. PaintFrom(obj, blit) /\ ctty' = ctty
        BY <2>1 DEF CmdPaint
      <3> QED BY <1>1, <1>2, <1>3, <3>1, PaintPaints
    <2>2. CASE CmdRepaint \/ Arrive
      <3>1. RepaintFrom(obj)
        BY <2>2 DEF CmdRepaint, Arrive
      <3> QED BY <1>1, <1>2, <1>3, <3>1, RepaintPaints
    <2> QED BY <2>1, <2>2
  <1>5. \A o \in Objs : Wanted(o)' = Wanted(o)
    BY <1>3 DEF Wanted
  <1>6. \A o \in Objs : Regular(o) /\ o \notin lost'
                        => Heading(obj[o], Contains(fx, o), Wanted(o)')
    BY <1>1, <1>3, <1>5 DEF HeadsTo
  <1> QED BY <1>1, <1>3, <1>4, <1>6, DrawnKeeps

\* A round of thf_anim: effects move on and end.
LEMMA AnimRoundKeeps ==
  ASSUME ScreenInvariant, NEW due, AnimRound(due)
  PROVE  ScreenInvariant'
  <1> DEFINE obs == FxLoop(due).obj
             list == FxLoop(due).keep
  <1>1. /\ ScreenTypes /\ textbox \in BOOLEAN /\ value \in [{"bar", "message", "log"} -> Nat]
        /\ ObjectsSound(obj, fx) /\ HeadsTo(obj, fx) /\ PlainShown
    BY DEF ScreenInvariant, ScreenTypes
  <1>2. /\ obs \in [Objs -> ObjType] /\ list \in Seq(Objs)
        /\ \A o \in Objs : LoopObject(o, obs[o], Contains(list, o), FALSE, Entries(o))
    BY <1>1, LoopFacts
  <1>3. /\ fx' = list /\ UNCHANGED <<value, svc, textbox, ctty, lost>>
        /\ IF Silent THEN RepaintFrom(obs)
           ELSE obj' = obs /\ UNCHANGED <<shown, seen, blit, fb, reloaded>>
    BY DEF AnimRound, inputVars
  <1> HIDE DEF obs, list
  <1>4. ASSUME NEW o \in Objs
        PROVE  /\ StepSizes(o, obs[o])
               /\ Regular(o) => EffectSound(o, obs[o], Contains(list, o))
               /\ o \notin Icons \union Textbox => obs[o].visible /\ obs[o].step >= 0
               /\ Regular(o) /\ o \notin lost' => Heading(obs[o], Contains(list, o), Wanted(o)')
    <2> DEFINE kept == Contains(list, o)
               w == Wanted(o)
    <2>1. kept \in BOOLEAN /\ w \in BOOLEAN /\ Wanted(o)' = w
      <3>1. Wanted(o)' = Wanted(o)
        BY <1>3 DEF Wanted
      <3> QED BY <1>1, <3>1, WantedFacts DEF Contains
    <2>2. /\ StepSizes(o, obj[o])
          /\ Regular(o) => EffectSound(o, obj[o], Contains(fx, o))
          /\ o \notin Icons \union Textbox => obj[o].visible /\ obj[o].step >= 0
      BY <1>1 DEF ObjectsSound
    <2>3. Regular(o) /\ o \notin lost' => Heading(obj[o], Contains(fx, o), w)
      BY <1>1, <1>3 DEF HeadsTo
    <2>4. LoopObject(o, obs[o], kept, FALSE, Entries(o))
      BY <1>2
    <2> HIDE DEF kept, w
    <2>5. /\ StepSizes(o, obs[o])
          /\ Regular(o) => EffectSound(o, obs[o], kept)
          /\ Regular(o) /\ Heading(obj[o], Contains(fx, o), w) => Heading(obs[o], kept, w)
      BY <1>1, <2>1, <2>2, <2>4, LoopKeeps
    <2>6. o \notin Icons \union Textbox => obs[o].visible /\ obs[o].step >= 0
      BY <2>2, <2>4 DEF LoopObject
    <2> QED BY <2>1, <2>3, <2>5, <2>6 DEF kept
  <1>5. ObjectsSound(obs, list)
    BY <1>4 DEF ObjectsSound
  <1>6. (obj' = Validate(obs) \/ obj' = obs) /\ PlainShown' /\ Painted(obj, blit)'
    <2>1. CASE Silent
      <3>1. \A o \in Objs : o \notin Icons \union Textbox => obs[o].visible
        BY <1>4
      <3> QED BY <1>1, <1>2, <1>3, <2>1, <3>1, RepaintPaints
    <2>2. CASE ~Silent
      BY <1>1, <1>3, <2>2 DEF Silent, Painted, OnScreen, PlainShown
    <2> QED BY <2>1, <2>2
  <1> QED BY <1>1, <1>2, <1>3, <1>4, <1>5, <1>6, DrawnKeeps

\* F3: the textbox appears or disappears.
LEMMA KeyF3Keeps ==
  ASSUME ScreenInvariant, KeyF3
  PROVE  ScreenInvariant'
  <1> DEFINE vis == TextboxVis(~textbox)
             obs == SetVisibility(obj, Textbox, vis)
             list == fx \o EffectsOf(obj, Textbox, vis)
             cleared == blit \union Uncovered(obj, Textbox, vis)
  <1>1. /\ obj \in [Objs -> ObjType] /\ fx \in Seq(Objs) /\ ScreenTypes /\ textbox \in BOOLEAN
        /\ value \in [{"bar", "message", "log"} -> Nat]
        /\ ObjectsSound(obj, fx) /\ HeadsTo(obj, fx) /\ PlainShown /\ Painted(obj, blit)
    BY DEF ScreenInvariant, ScreenTypes
  <1>2. vis \in [Textbox -> BOOLEAN] /\ Textbox \in SUBSET (Icons \union Textbox)
    BY <1>1, RequestedVis
  <1>3. /\ obs \in [Objs -> ObjType] /\ list \in Seq(Objs)
        /\ ObjectsSound(obs, list)
        /\ \A o \in Textbox :
             Regular(o) /\ ~(vis[o] /\ obj[o].visible /\ obj[o].step < 0 /\ Contains(fx, o))
             => Heading(obs[o], Contains(list, o), vis[o])
        /\ \A o \in Objs : o \notin Textbox =>
             obs[o] = obj[o] /\ (Contains(list, o) <=> Contains(fx, o))
    <2> HIDE DEF vis
    <2> QED BY <1>1, <1>2, RequestSound
  <1>4. Painted(obs, cleared)
    BY <1>1, <1>2, RequestPainted
  <1>5. /\ textbox' = ~textbox /\ fx' = list /\ lost' = Lost(Textbox, vis)
        /\ IF Silent THEN PaintFrom(obs, cleared)
           ELSE obj' = obs /\ blit' = cleared /\ UNCHANGED <<shown, seen, fb, reloaded>>
        /\ UNCHANGED <<value, svc, ctty>>
    BY DEF KeyF3
  <1> HIDE DEF obs, list, cleared
  <1>6. ASSUME NEW o \in Objs, Regular(o), o \notin lost'
        PROVE  Heading(obs[o], Contains(list, o), Wanted(o)')
    <2>1. CASE o \in Textbox
      <3>1. Wanted(o)' = vis[o]
        <4>1. Wanted(o)' = textbox'
          BY <2>1, IconFacts DEF Wanted
        <4>2. vis[o] = ~textbox
          BY <2>1 DEF TextboxVis
        <4> QED BY <1>5, <4>1, <4>2
      <3>2. ~(vis[o] /\ obj[o].visible /\ obj[o].step < 0 /\ Contains(fx, o))
        BY <1>5, <1>6, <2>1 DEF Lost, Ignored
      <3> HIDE DEF vis
      <3> QED BY <1>3, <1>6, <2>1, <3>1, <3>2
    <2>2. CASE o \notin Textbox
      <3>1. Wanted(o)' = Wanted(o)
        BY <1>5, <2>2 DEF Wanted
      <3>2. o \notin lost
        BY <1>5, <1>6, <2>2 DEF Lost
      <3> QED BY <1>1, <1>3, <1>6, <2>2, <3>1, <3>2 DEF HeadsTo, Heading
    <2> QED BY <2>1, <2>2
  <1>7. (obj' = Validate(obs) \/ obj' = obs) /\ PlainShown' /\ Painted(obj, blit)'
    <2>1. CASE Silent
      <3>1. \A o \in Objs : o \notin Icons \union Textbox => obs[o].visible
        BY <1>3 DEF ObjectsSound
      <3> QED BY <1>1, <1>3, <1>4, <1>5, <2>1, <3>1, PaintPaints
    <2>2. CASE ~Silent
      BY <1>1, <1>5, <2>2 DEF Silent, Painted, OnScreen, PlainShown
    <2> QED BY <2>1, <2>2
  <1>8. value' \in [{"bar", "message", "log"} -> Nat] /\ textbox' \in BOOLEAN /\ fx' = list
    BY <1>1, <1>5
  <1> QED BY <1>3, <1>6, <1>7, <1>8, DrawnKeeps

\* A new theme: its services are replayed, its textbox is not.
LEMMA SetThemeKeeps ==
  ASSUME ScreenInvariant, SetTheme
  PROVE  ScreenInvariant'
  <1> DEFINE S == IF svc = "none" THEN {} ELSE Icons
             vis == IconVis(svc)
             obs == SetVisibility(NewObjects, S, vis)
             list == NewEffects \o EffectsOf(NewObjects, S, vis)
  <1>1. textbox \in BOOLEAN /\ value \in [{"bar", "message", "log"} -> Nat]
    BY DEF ScreenInvariant, ScreenTypes
  <1>2. /\ obj' = obs /\ fx' = list /\ lost' = (IF textbox THEN {} ELSE Textbox)
        /\ reloaded' = TRUE /\ UNCHANGED <<svc, textbox>>
    BY DEF SetTheme
  <1>3. /\ value' = [value EXCEPT !.log = 0]
        /\ shown' = [o \in Objs |-> IF Kind[o] \in DOMAIN value THEN value'[Kind[o]] ELSE 0]
    BY Zenon DEF SetTheme
  <1>4. S \in SUBSET (Icons \union Textbox) /\ \A o \in S : vis[o] \in BOOLEAN
    BY DEF IconVis
  <1>5. /\ obs \in [Objs -> ObjType] /\ list \in Seq(Objs)
        /\ ObjectsSound(obs, list)
        /\ \A o \in S :
             Regular(o) /\ ~(vis[o] /\ NewObjects[o].visible /\ NewObjects[o].step < 0
                             /\ Contains(NewEffects, o))
             => Heading(obs[o], Contains(list, o), vis[o])
        /\ \A o \in Objs : o \notin S =>
             obs[o] = NewObjects[o] /\ (Contains(list, o) <=> Contains(NewEffects, o))
    <2> HIDE DEF vis, S
    <2> QED BY <1>4, NewTheme, RequestSound
  <1> HIDE DEF obs, list
  <1>6. ASSUME NEW o \in Objs, Regular(o), o \notin lost'
        PROVE  Heading(obs[o], Contains(list, o), Wanted(o)')
    <2>1. Wanted(o)' = Wanted(o)
      BY <1>2 DEF Wanted
    <2>2. CASE o \in S
      <3>1. o \in Icons
        BY <2>2
      <3>2. vis[o] = (SvcState[o] = svc)
        BY <3>1 DEF IconVis
      <3>3. Wanted(o) = vis[o]
        BY <1>1, <3>1, <3>2, WantedFacts
      <3>4. ~(NewObjects[o].step < 0)
        <4>1. NewObjects[o].step >= 0 /\ NewObjects[o] \in ObjType
          BY NewTheme
        <4> QED BY <4>1 DEF ObjType
      <3> HIDE DEF vis, S
      <3> QED BY <1>5, <1>6, <2>1, <2>2, <3>3, <3>4
    <2>3. CASE o \notin S
      <3>1. Wanted(o) = (Kind[o] # "icon")
        <4>1. CASE o \in Icons
          <5>1. svc # SvcState[o] /\ Kind[o] = "icon"
            BY <2>3, <4>1, IconFacts, ScreenAssumption DEF Icons
          <5> QED BY <1>1, <4>1, <5>1, WantedFacts
        <4>2. CASE o \in Textbox
          BY <1>1, <1>2, <1>6, <4>2, WantedFacts, IconFacts
        <4>3. CASE o \notin Icons \union Textbox
          BY <1>1, <4>3, WantedFacts, IconFacts
        <4> QED BY <4>1, <4>2, <4>3
      <3>2. Heading(NewObjects[o], Contains(NewEffects, o), Kind[o] # "icon")
        BY <1>6, NewTheme
      <3> HIDE DEF S
      <3> QED BY <1>5, <2>1, <2>3, <3>1, <3>2 DEF Heading
    <2> QED BY <2>2, <2>3
  <1>7. value' \in [{"bar", "message", "log"} -> Nat] /\ textbox' \in BOOLEAN
    BY <1>1, <1>2, <1>3
  <1>8. PlainShown'
    BY <1>1, <1>3 DEF PlainShown
  <1>9. Painted(obj, blit)'
    <2>1. \A o \in Objs : obs[o].invalid
      <3> HIDE DEF vis, S
      <3> QED BY NewInvalid DEF obs
    <2>2. ASSUME NEW o \in Objs PROVE PaintedObject(o, obj[o], o \in blit)'
      <3>1. obs[o] \in ObjType
        BY <1>5
      <3>2. BoxMarked(o, obj[o], fb[o], o \in blit)'
        BY <1>2, <2>1, <3>1 DEF BoxMarked, ObjType
      <3> QED BY <1>2, <3>2 DEF PaintedObject
    <2> QED BY <2>2 DEF Painted
  <1> QED BY <1>2, <1>5, <1>6, <1>7, <1>8, <1>9, DrawnKeeps

\* Every step keeps the invariant.
LEMMA NextKeeps ==
  ASSUME ScreenInvariant, [Next]_vars
  PROVE  ScreenInvariant'
  <1>1. ASSUME NEW state \in States, UpdateSvc(state) PROVE ScreenInvariant'
    BY <1>1, UpdateSvcKeeps
  <1>2. ASSUME NEW v \in Values, Progress(v) \/ SetMessage(v) PROVE ScreenInvariant'
    BY <1>2, ProgressKeeps, SetMessageKeeps
  <1>3. CASE Log
    BY <1>3, LogKeeps
  <1>4. CASE KeyF3
    BY <1>4, KeyF3Keeps
  <1>5. CASE CmdPaint \/ CmdRepaint \/ Arrive
    BY <1>5, CommandsKeep
  <1>6. CASE SetTheme
    BY <1>6, SetThemeKeeps
  <1>7. CASE SwitchVerbose \/ SwitchSilent
    BY <1>7, SwitchKeeps
  <1>8. ASSUME NEW due \in SUBSET DOMAIN fx, AnimRound(due) PROVE ScreenInvariant'
    BY <1>8, AnimRoundKeeps
  <1>9. CASE UNCHANGED vars
    <2>1. UNCHANGED <<obj, fx, shown, blit, fb, value, svc, textbox, ctty, lost, reloaded>>
      BY <1>9 DEF vars, themeVars, inputVars
    <2>2. /\ value' \in [{"bar", "message", "log"} -> Nat] /\ ScreenTypes
          /\ \A o \in Objs : Kind[o] = "bar" => Content(o)' = Content(o)
      BY <2>1 DEF ScreenInvariant, ScreenTypes, Content
    <2> QED BY <2>1, <2>2, SameAlike, MarksKeep
  <1> QED BY <1>1, <1>2, <1>3, <1>4, <1>5, <1>6, <1>7, <1>8, <1>9 DEF Next

\* In every state the effects that are listed move, objects head where they
\* are wanted, and what is out of date on the screen is marked.
THEOREM ScreenInvariance == Spec => []ScreenInvariant
  <1>1. Init => ScreenInvariant
    BY InitInvariant
  <1>2. ScreenInvariant /\ [Next]_vars => ScreenInvariant'
    BY NextKeeps
  <1> QED BY <1>1, <1>2, PTL DEF Spec

-----------------------------------------------------------------------------
(* What the runs check                                                     *)

\* While the splash is on screen, whatever differs from what its object now
\* looks like is marked so that the next paint draws it.
THEOREM StaleTheorem == Spec => []StaleIsMarked
  <1>1. ScreenInvariant => StaleIsMarked
    <2> SUFFICES ASSUME ScreenInvariant, OnScreen, NEW o \in Objs, Kind[o] \notin TextKinds,
                        ~(Kind[o] = "bar" /\ (o \in Textbox \/ reloaded))
                 PROVE  \/ fb[o] = Look(o)
                        \/ obj[o].invalid /\ obj[o].visible
                        \/ o \in blit
                        \/ reloaded /\ ~obj[o].visible
      BY DEF StaleIsMarked, OnScreen
    <2>1. PaintedObject(o, obj[o], o \in blit) /\ ScreenTypes /\ ObjectsSound(obj, fx)
      BY DEF ScreenInvariant, Painted
    <2>2. CASE Kind[o] \in {"box", "icon"}
      <3>1. Look(o) = LookOf(o, obj[o], 0)
        BY <2>1, <2>2, PlainContent DEF Look
      <3> QED BY <2>1, <2>2, <3>1 DEF PaintedObject, BoxMarked
    <2>3. CASE Kind[o] = "bar" /\ o \notin Textbox /\ ~reloaded
      <3>1. obj[o].visible
        BY <2>1, <2>3, IconFacts DEF ObjectsSound
      <3> QED BY <2>1, <2>3, <3>1 DEF PaintedObject, Look
    <2>4. Kind[o] \in {"box", "icon", "bar"}
      BY ScreenAssumption DEF Kinds, TextKinds
    <2> QED BY <2>2, <2>3, <2>4
  <1> QED BY <1>1, ScreenInvariance, PTL

\* When no effect of an object is left it is fully shown or hidden, as the
\* theme, the service and the user want it, whatever interrupted its effects.
THEOREM SettledTheorem == Spec => []SettledAsWanted
  <1>1. ScreenInvariant => SettledAsWanted
    <2> SUFFICES ASSUME ScreenInvariant, NEW o \in Objs, Regular(o), o \notin lost, ~Contains(fx, o)
                 PROVE  IF Wanted(o) THEN obj[o].visible /\ obj[o].opacity = 255
                        ELSE ~obj[o].visible
      BY DEF SettledAsWanted
    <2>1. EffectSound(o, obj[o], Contains(fx, o)) /\ Heading(obj[o], Contains(fx, o), Wanted(o))
      BY DEF ScreenInvariant, ObjectsSound, HeadsTo
    <2> QED BY <2>1 DEF EffectSound, Heading
  <1> QED BY <1>1, ScreenInvariance, PTL

\* No step of an object's effects is larger than that of its shorter effect.
LEMMA SpeedBound ==
  ASSUME NEW o \in Objs, NEW ob \in ObjType, StepSizes(o, ob)
  PROVE  OneStep(o) \in Nat /\ Speed(ob) <= OneStep(o)
  <1> DEFINE i == Blendin[o]
             u == Blendout[o]
             m == IF i < u THEN i ELSE u
  <1>1. i \in Nat /\ u \in Nat /\ m \in Nat /\ m <= i /\ m <= u
    BY ScreenAssumption
  <1> HIDE DEF m
  <1>2. /\ OpacitySteps(i) \in 10..255 /\ OpacitySteps(u) \in 10..255 /\ OpacitySteps(m) \in 10..255
        /\ OpacitySteps(m) <= OpacitySteps(i) /\ OpacitySteps(m) <= OpacitySteps(u)
    BY <1>1, StepCount, StepsMonotone
  <1>3. StepOf(i) \in 1..255 /\ StepOf(u) \in 1..255 /\ StepOf(m) \in 1..255
    BY <1>2, StepSize DEF StepOf
  <1>4. StepOf(i) <= StepOf(m) /\ StepOf(u) <= StepOf(m)
    BY SMTT(30), <1>2, StepSizeAntitone DEF StepOf
  <1>5. OneStep(o) = StepOf(m)
    BY DEF OneStep, StepOf, m
  <1>6. ob.step \in {0, StepOf(i), -StepOf(u)}
    BY DEF StepSizes, StepOf
  <1> QED BY <1>3, <1>4, <1>5, <1>6 DEF Speed

\* How many entries an object has.
LEMMA EntriesType ==
  ASSUME ScreenTypes, NEW o
  PROVE  Entries(o) \in Nat
  <1> DEFINE T == {i \in DOMAIN fx : fx[i] = o}
  <1>1. Len(fx) \in Nat /\ DOMAIN fx = 1..Len(fx)
    BY DEF ScreenTypes
  <1>2. IsFiniteSet(1..Len(fx)) /\ T \in SUBSET (1..Len(fx))
    BY <1>1, FS_Interval
  <1> HIDE DEF T
  <1>3. Cardinality(T) \in Nat
    BY <1>2, FS_Subset, FS_CardinalityType
  <1> QED BY <1>3 DEF Entries, T

\* A request does not change how bright an object with effects both ways is,
\* and a round changes it by one step for each of its entries.
LEMMA BrightSteps ==
  ASSUME ScreenInvariant, Next, NEW o \in Objs, BothWays(o), ~reloaded'
  PROVE  \/ Bright(obj'[o]) = Bright(obj[o])
         \/ Within(Bright(obj'[o]), Bright(obj[o]), Speed(obj[o]) * Entries(o))
  <1>1. /\ ScreenTypes /\ obj \in [Objs -> ObjType] /\ obj[o] \in ObjType /\ textbox \in BOOLEAN
        /\ StepSizes(o, obj[o]) /\ (Regular(o) => EffectSound(o, obj[o], Contains(fx, o)))
    BY DEF ScreenInvariant, ScreenTypes, ObjectsSound
  <1>2. Contains(fx, o) \in BOOLEAN
    BY DEF Contains
  <1>3. ASSUME NEW S \in SUBSET (Icons \union Textbox), NEW vis \in [S -> BOOLEAN]
        PROVE  Bright(SetVisibility(obj, S, vis)[o]) = Bright(obj[o])
    <2>1. CASE o \in S
      <3>1. SetVisibility(obj, S, vis)[o] = Shown(obj[o], o, vis[o]) /\ vis[o] \in BOOLEAN
        BY <2>1 DEF SetVisibility, Shown
      <3>2. Bright(Shown(obj[o], o, vis[o])) = Bright(obj[o])
        BY <1>1, <1>2, <3>1, VisibilityKeeps
      <3> QED BY <3>1, <3>2
    <2>2. CASE o \notin S
      BY <2>2 DEF SetVisibility
    <2> QED BY <2>1, <2>2
  <1>4. ASSUME NEW obs \in [Objs -> ObjType], obj' = Validate(obs) \/ obj' = obs
        PROVE  Bright(obj'[o]) = Bright(obs[o])
    BY <1>4, ValidateAlike, AlikeKeeps
  <1>5. ASSUME NEW state \in States, UpdateSvc(state) PROVE Bright(obj'[o]) = Bright(obj[o])
    <2>1. obj' = SetVisibility(obj, Icons, IconVis(state))
      BY <1>5 DEF UpdateSvc
    <2> QED BY <1>3, <2>1, RequestedVis
  <1>6. ASSUME NEW v \in Values, Progress(v) \/ SetMessage(v) PROVE Bright(obj'[o]) = Bright(obj[o])
    <2>1. \E b : obj'[o] = [obj[o] EXCEPT !.invalid = b]
      BY <1>6 DEF Progress, SetMessage
    <2> QED BY <1>1, <2>1 DEF Bright, ObjType
  <1>7. CASE Log \/ SwitchVerbose \/ SwitchSilent
    BY <1>7 DEF Log, SwitchVerbose, SwitchSilent, themeVars
  <1>8. CASE KeyF3
    <2> DEFINE vis == TextboxVis(~textbox)
               obs == SetVisibility(obj, Textbox, vis)
    <2>1. obj' = Validate(obs) \/ obj' = obs
      BY <1>8 DEF KeyF3, PaintFrom
    <2>2. vis \in [Textbox -> BOOLEAN] /\ Textbox \in SUBSET (Icons \union Textbox)
      BY <1>1, RequestedVis
    <2>3. obs \in [Objs -> ObjType]
      <3>1. \A p \in Textbox : vis[p] \in BOOLEAN
        BY <2>2
      <3> HIDE DEF vis
      <3> QED BY <1>1, <2>2, <3>1, RequestSound DEF ScreenInvariant, ScreenTypes
    <2> HIDE DEF obs
    <2>4. Bright(obj'[o]) = Bright(obs[o])
      BY <1>4, <2>1, <2>3
    <2>5. Bright(obs[o]) = Bright(obj[o])
      <3> HIDE DEF vis
      <3> QED BY <1>3, <2>2 DEF obs
    <2> QED BY <2>4, <2>5
  <1>9. CASE CmdPaint \/ CmdRepaint \/ Arrive
    <2>1. obj' = Validate(obj)
      BY <1>9 DEF CmdPaint, CmdRepaint, Arrive, PaintFrom, RepaintFrom
    <2> QED BY <1>1, <1>4, <2>1
  <1>10. CASE SetTheme
    BY <1>10 DEF SetTheme
  <1>11. ASSUME NEW due \in SUBSET DOMAIN fx, AnimRound(due)
         PROVE  Within(Bright(obj'[o]), Bright(obj[o]), Speed(obj[o]) * Entries(o))
    <2> DEFINE obs == FxLoop(due).obj
    <2>1. obj' = Validate(obs) \/ obj' = obs
      BY <1>11 DEF AnimRound, RepaintFrom
    <2>2. /\ obs \in [Objs -> ObjType]
          /\ LoopObject(o, obs[o], Contains(FxLoop(due).keep, o), FALSE, Entries(o))
      BY <1>1, LoopFacts
    <2> HIDE DEF obs
    <2>3. Bright(obj'[o]) = Bright(obs[o])
      BY <1>4, <2>1, <2>2
    <2> QED BY <2>2, <2>3 DEF LoopObject
  <1> QED BY <1>5, <1>6, <1>7, <1>8, <1>9, <1>10, <1>11 DEF Next

\* While the splash is on the screen an icon with effects both ways
\* appears and disappears smoothly: no step changes its brightness by more
\* than one step of its shorter effect for each of its entries in fxobjs.
THEOREM FlickerTheorem == Spec => NoFlicker
  <1>1. ASSUME ScreenInvariant, ScreenInvariant', [Next]_vars,
               ctty = "silent", ctty' = "silent", ~reloaded, ~reloaded', NEW o \in Icons,
               Regular(o), Blendin[o] > 0, Blendout[o] > 0
        PROVE  Smooth(o)
    <2> DEFINE k == OneStep(o) * Entries(o)
               s == Speed(obj[o])
    <2>1. /\ o \in Objs /\ ScreenTypes /\ obj[o] \in ObjType /\ obj'[o] \in ObjType
          /\ BothWays(o) /\ StepSizes(o, obj[o])
      BY <1>1, IconFacts, ScreenAssumption DEF Icons, ScreenInvariant, ScreenTypes, ObjectsSound, BothWays
    <2>2. fb[o][1] = Bright(obj[o]) /\ Bright(obj[o]) \in Int
      <3>1. fb[o][1] = Bright(obj[o])
        BY <1>1, <2>1 DEF ScreenInvariant, Painted, OnScreen, PaintedObject
      <3> QED BY <2>1, <3>1, BrightType
    <2>3. k \in Int /\ 0 <= k /\ s * Entries(o) \in Int /\ s * Entries(o) <= k
      <3>1. OneStep(o) \in Nat /\ s \in Int /\ 0 <= s /\ s <= OneStep(o) /\ Entries(o) \in Nat
        BY <2>1, SpeedBound, EntriesType, BrightType
      <3> QED BY <3>1
    <2>4. CASE fb'[o] = fb[o]
      BY <2>2, <2>3, <2>4 DEF Smooth
    <2>5. CASE Next
      <3>1. fb'[o][1] = Bright(obj'[o]) /\ Bright(obj'[o]) \in Int
        <4>1. fb'[o][1] = Bright(obj'[o])
          BY <1>1, <2>1, <2>5 DEF ScreenInvariant, Painted, OnScreen, PaintedObject, BothWays, Regular
        <4> QED BY <2>1, <4>1, BrightType
      <3>2. \/ Bright(obj'[o]) = Bright(obj[o])
            \/ Within(Bright(obj'[o]), Bright(obj[o]), s * Entries(o))
        BY <1>1, <2>1, <2>5, BrightSteps
      <3> QED BY <2>2, <2>3, <3>1, <3>2 DEF Smooth, Within
    <2>6. CASE UNCHANGED vars
      BY <2>4, <2>6 DEF vars
    <2> QED BY <1>1, <2>5, <2>6
  <1>2. ScreenInvariant /\ ScreenInvariant' /\ [Next]_vars
        => [ctty = "silent" /\ ctty' = "silent" /\ ~reloaded /\ ~reloaded' =>
              \A o \in Icons : Regular(o) /\ Blendin[o] > 0 /\ Blendout[o] > 0 => Smooth(o)]_vars
    BY <1>1
  <1> QED BY <1>2, ScreenInvariance, PTL DEF Spec, NoFlicker
================================================================================
