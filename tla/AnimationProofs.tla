---------------------------- MODULE AnimationProofs ----------------------------
(***************************************************************************)
(* Proofs about Animation for any set of animations, with any number of    *)
(* frames and any times: no frame goes before its time, and what is on the *)
(* silent screen is current.                                               *)
(***************************************************************************)
EXTENDS Animation, FiniteSetTheorems, WellFoundedInduction, TLAPS

\* An animation that is played by time: the next frame is the first one exactly
\* when no frame was drawn or the last one was.
Timeds(a) ==
  {r \in [visible : BOOLEAN, invalid : BOOLEAN, displayed_first : BOOLEAN,
          frame : 0..Frames[a], wait : Nat, curr : 0..MaxProgress] :
     r.displayed_first <=> r.frame \notin {0, Frames[a]}}

Types ==
  /\ pc \in {"top", "unlocked", "wait"} /\ elapsed \in Nat /\ requests \in Nat
  /\ age \in [Anims -> Nat] /\ \A a \in Timed : anim[a] \in Timeds(a)
  /\ pc # "wait" => elapsed = 0

\* What is left of the time of a frame is no less than what it has not been
\* seen yet; of what is left, the thread has not yet subtracted "elapsed".
Earned(a) ==
  \/ a \in hurried
  \/ age[a] >= FrameDelay[a]
  \/ age[a] + anim[a].wait >= FrameDelay[a] + elapsed

IInv == Types /\ \A a \in Timed : anim[a].displayed_first => Earned(a)

-----------------------------------------------------------------------------
\* The lesser of two numbers.
LEMMA MinPair ==
  ASSUME NEW x \in Nat, NEW y \in Nat
  PROVE  Min({x, y}) = IF x <= y THEN x ELSE y
  <1>1. \E m \in {x, y} : \A n \in {x, y} : m <= n
    OBVIOUS
  <1>2. /\ Min({x, y}) \in {x, y} /\ \A n \in {x, y} : Min({x, y}) <= n
    BY <1>1 DEF Min
  <1> QED BY <1>2

\* Constants of an animation that is played by time.
LEMMA TimedConstants ==
  ASSUME NEW a \in Timed
  PROVE  /\ a \in Anims /\ Frames[a] \in Nat /\ Frames[a] > 1
         /\ FrameDelay[a] \in 1..MaxDelay /\ MaxDelay \in Nat /\ MaxProgress \in Nat \ {0}
  BY AnimationAssumption DEF Timed

\* A frame that is drawn is the one that follows, and has its full time, if it
\* is not the last.
LEMMA DrawEffect ==
  ASSUME NEW a \in Timed, NEW r \in Timeds(a)
  PROVE  /\ Draw(a, r) \in Timeds(a)
         /\ Draw(a, r).displayed_first => Draw(a, r).wait = FrameDelay[a]
         /\ Draw(a, r).frame = Next1(a, r.frame)
  <1> DEFINE next == IF r.displayed_first THEN r.frame + 1 ELSE 1
             over == next = Frames[a]
             d == Draw(a, r)
  <1>1. next \in 1..Frames[a] /\ next = Next1(a, r.frame)
    BY TimedConstants DEF Timeds, Next1
  <1>2. d = [r EXCEPT !.frame = next, !.wait = IF over THEN 0 ELSE FrameDelay[a],
                      !.displayed_first = ~over, !.invalid = TRUE]
    BY DEF Draw, StaysAtEnd, IsOnce, F_ANIM_ONCE
  <1> HIDE DEF next
  <1>3. /\ d.frame = next /\ d.wait = (IF over THEN 0 ELSE FrameDelay[a])
        /\ d.displayed_first = ~over
        /\ d.visible = r.visible /\ d.invalid = TRUE /\ d.curr = r.curr
        /\ d = [visible |-> d.visible, invalid |-> d.invalid, displayed_first |-> d.displayed_first,
                frame |-> d.frame, wait |-> d.wait, curr |-> d.curr]
    BY <1>2 DEF Timeds
  <1> HIDE DEF d
  <1>4. d.frame \in 0..Frames[a] /\ d.wait \in Nat /\ d.frame # 0
    BY <1>1, <1>3, TimedConstants
  <1>5. d \in [visible : BOOLEAN, invalid : BOOLEAN, displayed_first : BOOLEAN,
               frame : 0..Frames[a], wait : Nat, curr : 0..MaxProgress]
    BY <1>3, <1>4 DEF Timeds
  <1>6. (d.displayed_first <=> d.frame \notin {0, Frames[a]})
        /\ (d.displayed_first => d.wait = FrameDelay[a])
    BY <1>3, <1>4
  <1>7. d.frame = Next1(a, r.frame)
    BY <1>1, <1>3
  <1> QED BY <1>5, <1>6, <1>7 DEF d, Timeds

\* The clock of an animation.
SameClock(r, q) == r.displayed_first = q.displayed_first /\ r.frame = q.frame /\ r.wait = q.wait

\* Painting changes nothing about an animation that is played by time but
\* its mark.
LEMMA RenderKeeps ==
  ASSUME NEW A, NEW force \in BOOLEAN, NEW a \in Timed, A[a] \in Timeds(a),
         Render(A, force) \/ anim' = A
  PROVE  anim'[a] \in Timeds(a) /\ SameClock(anim'[a], A[a])
  <1>1. anim'[a] = A[a] \/ anim'[a] = [A[a] EXCEPT !.invalid = FALSE]
    BY TimedConstants DEF Render, Prerender
  <1> QED BY <1>1 DEF Timeds, SameClock

\* A theme just loaded.
LEMMA LoadedTypes ==
  ASSUME NEW a \in Timed
  PROVE  /\ Loaded[a] \in Timeds(a)
         /\ Loaded[a].displayed_first => Loaded[a].wait = FrameDelay[a] /\ a \notin OfService
  <1>1. NewAnim(a) \in Timeds(a) /\ ~NewAnim(a).displayed_first
    BY TimedConstants DEF NewAnim, Timeds
  <1>2. Loaded[a] = IF a \in Timed \ OfService THEN Draw(a, NewAnim(a)) ELSE NewAnim(a)
    BY TimedConstants DEF Loaded
  <1> QED BY <1>1, <1>2, DrawEffect
-----------------------------------------------------------------------------
(* What a step does to an animation and to its time                        *)

\* Nothing, while the time of the others may have been counted.
Kept(a) ==
  /\ anim'[a] \in Timeds(a) /\ SameClock(anim'[a], anim[a])
  /\ a \in hurried => a \in hurried'
  /\ \/ age'[a] = age[a] /\ elapsed' \in {elapsed, 0}
     \/ age'[a] = Min({age[a] + 1, MaxDelay + 1}) /\ elapsed' = elapsed + 1

\* The next frame is drawn, which is due unless there is no timer.
Redrawn(a) ==
  /\ anim'[a] \in Timeds(a) /\ anim'[a].frame = Next1(a, anim[a].frame)
  /\ anim'[a].displayed_first => anim'[a].wait = FrameDelay[a]
  /\ age'[a] = 0 /\ elapsed' = 0
  /\ anim[a].displayed_first => anim[a].wait <= elapsed

\* What the thread has waited is taken from what is left of the frame's time.
Counted(a) ==
  /\ anim'[a] \in Timeds(a) /\ anim'[a].wait = anim[a].wait - elapsed
  /\ anim'[a].frame = anim[a].frame /\ anim'[a].displayed_first = anim[a].displayed_first
  /\ age'[a] = age[a] /\ elapsed' = 0 /\ (a \in hurried => a \in hurried')

\* The theme is loaded anew.
Reloaded(a) ==
  /\ requests' # requests /\ anim'[a] \in Timeds(a)
  /\ anim'[a].displayed_first => anim'[a].wait = FrameDelay[a] /\ (a \in hurried' \/ elapsed = 0)
  /\ age'[a] = 0 /\ elapsed' = elapsed

\* Those are all that can happen to an animation.
LEMMA AnimStep ==
  ASSUME Types, [Next]_vars, NEW a \in Timed
  PROVE  Kept(a) \/ Redrawn(a) \/ Counted(a) \/ Reloaded(a)
  <1> USE DEF Types
  <1>1. a \in Anims /\ anim[a] \in Timeds(a) /\ SameClock(anim[a], anim[a])
    BY TimedConstants DEF SameClock
  <1>2. CASE Round
    <2> DEFINE new == {x \in Anims : Playing(x, anim) /\ ~anim[x].displayed_first}
               A == [x \in Anims |-> IF x \in new THEN Draw(x, anim[x]) ELSE anim[x]]
    <2>1. /\ IF new = {} THEN anim' = anim ELSE RenderIfSilent(A)
          /\ age'[a] = IF a \in new THEN 0 ELSE age[a]
          /\ hurried' = hurried \ new /\ elapsed' = elapsed /\ elapsed = 0
      BY <1>1, <1>2 DEF Round, Drawn
    <2>2. CASE a \in new
      <3>1. A[a] = Draw(a, anim[a]) /\ ~anim[a].displayed_first
        BY <2>2
      <3>2. Render(A, TRUE) \/ anim' = A
        BY <2>1, <2>2 DEF RenderIfSilent
      <3> HIDE DEF A
      <3>3. anim'[a] \in Timeds(a) /\ SameClock(anim'[a], Draw(a, anim[a]))
        BY <1>1, <3>1, <3>2, DrawEffect, RenderKeeps
      <3> QED BY <1>1, <2>1, <2>2, <3>1, <3>3, DrawEffect DEF Redrawn, SameClock
    <2>3. CASE a \notin new
      <3>1. A[a] = anim[a]
        BY <1>1, <2>3
      <3>2. anim' = anim \/ Render(A, TRUE) \/ anim' = A
        BY <2>1 DEF RenderIfSilent
      <3> HIDE DEF A
      <3>3. anim'[a] \in Timeds(a) /\ SameClock(anim'[a], anim[a])
        BY <1>1, <3>1, <3>2, RenderKeeps
      <3> QED BY <2>1, <2>3, <3>3 DEF Kept
    <2> QED BY <2>2, <2>3
  <1>3. CASE Wait
    BY <1>1, <1>3 DEF Wait, Kept, historyVars
  <1>4. CASE Tick
    BY <1>1, <1>4 DEF Tick, Kept, historyVars
  <1>5. CASE Wake
    <2> DEFINE counted == IF silent THEN {x \in Anims : Playing(x, anim) /\ anim[x].wait > 0} ELSE {}
               due == {x \in counted : anim[x].wait <= elapsed}
               A == [x \in Anims |-> IF x \in due THEN Draw(x, anim[x])
                                     ELSE IF x \in counted THEN [anim[x] EXCEPT !.wait = @ - elapsed]
                                     ELSE anim[x]]
    <2>1. /\ RenderIfSilent(A) /\ elapsed' = 0
          /\ age'[a] = IF a \in due THEN 0 ELSE age[a]
          /\ hurried' = hurried \ due
      BY <1>1, <1>5 DEF Wake, Drawn, Rdelay
    <2>2. Render(A, TRUE) \/ anim' = A
      BY <2>1 DEF RenderIfSilent
    <2>3. A[a] = IF a \in due THEN Draw(a, anim[a])
                 ELSE IF a \in counted THEN [anim[a] EXCEPT !.wait = @ - elapsed] ELSE anim[a]
      BY <1>1
    <2>4. CASE a \in due
      <3>1. anim[a].wait <= elapsed
        BY <2>4
      <3> HIDE DEF A, due
      <3>2. anim'[a] \in Timeds(a) /\ SameClock(anim'[a], Draw(a, anim[a]))
        BY <1>1, <2>2, <2>3, <2>4, DrawEffect, RenderKeeps
      <3> QED BY <1>1, <2>1, <2>4, <3>1, <3>2, DrawEffect DEF Redrawn, SameClock
    <2>5. CASE a \in counted \ due
      <3>1. anim[a].wait - elapsed \in Nat
        BY <1>1, <2>5 DEF Timeds
      <3> HIDE DEF A, due, counted
      <3>2. A[a] = [anim[a] EXCEPT !.wait = anim[a].wait - elapsed]
        BY <2>3, <2>5
      <3>3. A[a] \in Timeds(a) /\ A[a].wait = anim[a].wait - elapsed
            /\ A[a].frame = anim[a].frame /\ A[a].displayed_first = anim[a].displayed_first
        BY <1>1, <3>1, <3>2 DEF Timeds
      <3>4. anim'[a] \in Timeds(a) /\ SameClock(anim'[a], A[a])
        BY <2>2, <3>3, RenderKeeps
      <3> QED BY <2>1, <2>5, <3>3, <3>4 DEF Counted, SameClock
    <2>6. CASE a \notin counted
      <3>1. A[a] = anim[a] /\ a \notin due
        BY <2>3, <2>6
      <3> HIDE DEF A, due
      <3>2. anim'[a] \in Timeds(a) /\ SameClock(anim'[a], anim[a])
        BY <1>1, <2>2, <3>1, RenderKeeps
      <3> QED BY <2>1, <3>1, <3>2 DEF Kept
    <2> QED BY <2>4, <2>5, <2>6
  <1>6. ASSUME NEW S \in SUBSET OfService, UpdateSvc(S) PROVE Kept(a)
    <2>1. anim'[a] = IF a \in S THEN [anim[a] EXCEPT !.visible = a \in on', !.invalid = TRUE]
                     ELSE anim[a]
      BY <1>1, <1>6 DEF UpdateSvc
    <2>2. elapsed' = elapsed /\ age' = age /\ hurried' = hurried
      BY <1>6 DEF UpdateSvc
    <2>3. CASE a \in S
      <3> DEFINE v == a \in on'
      <3>1. v \in BOOLEAN
        OBVIOUS
      <3>2. anim'[a] = [anim[a] EXCEPT !.visible = v, !.invalid = TRUE]
        BY <2>1, <2>3
      <3> HIDE DEF v
      <3>3. anim'[a] \in Timeds(a) /\ SameClock(anim'[a], anim[a])
        BY <1>1, <3>1, <3>2 DEF Timeds, SameClock
      <3> QED BY <2>2, <3>3 DEF Kept
    <2>4. CASE a \notin S
      BY <1>1, <2>1, <2>2, <2>4 DEF Kept
    <2> QED BY <2>3, <2>4
  <1>7. CASE SetTheme
    <2>1. PICK v \in BOOLEAN : anim'[a] = [Loaded[a] EXCEPT !.visible = v]
      <3>1. anim'[a] = [Loaded[a] EXCEPT !.visible = @ \/ a \in on]
        BY <1>1, <1>7 DEF SetTheme
      <3>2. Loaded[a].visible \in BOOLEAN
        BY LoadedTypes DEF Timeds
      <3> QED BY <3>1, <3>2
    <2>2. anim'[a] \in Timeds(a) /\ SameClock(anim'[a], Loaded[a])
      BY <2>1, LoadedTypes DEF Timeds, SameClock
    <2>3. requests' # requests /\ age'[a] = 0 /\ elapsed' = elapsed
          /\ hurried' = IF pc = "wait" /\ elapsed > 0 THEN Timed \ OfService ELSE {}
      BY <1>1, <1>7 DEF SetTheme, Request, threadVars
    <2> QED BY <2>2, <2>3, LoadedTypes DEF Reloaded, SameClock
  <1>8. ASSUME NEW p \in 0..MaxProgress, Progress(p) PROVE Kept(a)
    BY <1>1, <1>8 DEF Progress, Kept, threadVars, historyVars
  <1>9. ASSUME NEW force \in BOOLEAN, Render(anim, force),
               UNCHANGED <<elapsed, age, hurried>>
        PROVE  Kept(a)
    BY <1>1, <1>9, RenderKeeps DEF Kept
  <1>10. CASE SwitchSilent \/ \E force \in BOOLEAN : Paint(force)
    BY <1>9, <1>10 DEF SwitchSilent, Paint, threadVars, historyVars
  <1>11. CASE SwitchVerbose \/ UNCHANGED vars
    BY <1>1, <1>11 DEF SwitchVerbose, Kept, vars, threadVars, historyVars
  <1> QED BY <1>2, <1>3, <1>4, <1>5, <1>6, <1>7, <1>8, <1>10, <1>11 DEF Next, Thread

\* The rest of the types.
LEMMA TypesStep == Types /\ [Next]_vars => Types'
  <1> SUFFICES ASSUME Types, [Next]_vars PROVE Types'
    OBVIOUS
  <1> USE DEF Types
  <1>1. \A a \in Timed : anim'[a] \in Timeds(a)
    BY AnimStep DEF Kept, Redrawn, Counted, Reloaded
  <1>2. /\ pc' \in {"top", "unlocked", "wait"} /\ elapsed' \in Nat /\ requests' \in Nat
        /\ pc' # "wait" => elapsed' = 0
    <2>1. CASE Thread
      BY <2>1 DEF Thread, Round, Wait, Tick, Wake
    <2>2. ASSUME Request, UNCHANGED <<pc, elapsed>>
          PROVE  /\ pc' \in {"top", "unlocked", "wait"} /\ elapsed' \in Nat /\ requests' \in Nat
                 /\ pc' # "wait" => elapsed' = 0
      BY <2>2, AnimationAssumption DEF Request
    <2>3. ASSUME NEW S \in SUBSET OfService, UpdateSvc(S) PROVE Request /\ UNCHANGED <<pc, elapsed>>
      BY <2>3 DEF UpdateSvc
    <2>4. CASE SetTheme \/ SwitchSilent \/ SwitchVerbose
      BY <2>2, <2>4 DEF SetTheme, SwitchSilent, SwitchVerbose, threadVars
    <2>5. ASSUME NEW p \in 0..MaxProgress, Progress(p) PROVE Request /\ UNCHANGED <<pc, elapsed>>
      BY <2>5 DEF Progress, threadVars
    <2>6. ASSUME NEW force \in BOOLEAN, Paint(force) PROVE Request /\ UNCHANGED <<pc, elapsed>>
      BY <2>6 DEF Paint, threadVars
    <2>7. CASE UNCHANGED vars
      BY <2>7 DEF vars, threadVars
    <2> QED BY <2>1, <2>2, <2>3, <2>4, <2>5, <2>6, <2>7 DEF Next
  <1>3. age' \in [Anims -> Nat]
    <2>1. CASE Tick
      <3>1. MaxDelay + 1 \in Nat
        BY AnimationAssumption
      <3>2. \A a \in Anims : Min({age[a] + 1, MaxDelay + 1}) \in Nat
        BY <3>1, MinPair
      <3> QED BY <2>1, <3>2 DEF Tick
    <2>2. ASSUME NEW D, Drawn(D) PROVE age' \in [Anims -> Nat]
      BY <2>2 DEF Drawn
    <2>3. CASE Round \/ Wake
      BY <2>2, <2>3 DEF Round, Wake
    <2>4. CASE SetTheme
      BY <2>4 DEF SetTheme
    <2>5. CASE age' = age
      BY <2>5
    <2>6. Tick \/ Round \/ Wake \/ SetTheme \/ age' = age
      BY DEF Next, Thread, Wait, UpdateSvc, Progress, Paint, SwitchSilent, SwitchVerbose, vars
    <2> QED BY <2>1, <2>3, <2>4, <2>5, <2>6
  <1> QED BY <1>1, <1>2, <1>3

\* What is left of a frame's time is never too little.
LEMMA EarnedStep ==
  ASSUME IInv, [Next]_vars, NEW a \in Timed, anim'[a].displayed_first
  PROVE  Earned(a)'
  <1> USE DEF Types, IInv
  <1>1. /\ a \in Anims /\ age[a] \in Nat /\ anim[a].wait \in Nat /\ elapsed \in Nat
        /\ FrameDelay[a] \in 1..MaxDelay /\ MaxDelay \in Nat
        /\ anim[a].displayed_first => Earned(a)
    BY TimedConstants DEF Timeds
  <1>2. CASE Kept(a)
    <2>1. CASE age'[a] = age[a] /\ elapsed' \in {elapsed, 0}
      BY <1>1, <1>2, <2>1 DEF Kept, SameClock, Earned
    <2>2. CASE age'[a] = Min({age[a] + 1, MaxDelay + 1}) /\ elapsed' = elapsed + 1
      <3>1. age'[a] = age[a] + 1 \/ age'[a] > FrameDelay[a]
        BY <1>1, <2>2, MinPair
      <3>2. age'[a] \in Nat
        BY <1>1, <2>2, MinPair
      <3> QED BY <1>1, <1>2, <2>2, <3>1, <3>2 DEF Kept, SameClock, Earned
    <2> QED BY <1>2, <2>1, <2>2 DEF Kept
  <1>3. CASE Redrawn(a)
    BY <1>1, <1>3 DEF Redrawn, Earned
  <1>4. CASE Counted(a)
    BY <1>1, <1>4 DEF Counted, Earned
  <1>5. CASE Reloaded(a)
    BY <1>1, <1>5 DEF Reloaded, Earned
  <1> QED BY <1>2, <1>3, <1>4, <1>5, AnimStep

\* The theme as it is loaded at the start has all frames' time before it.
LEMMA InitIInv == Init => IInv
  <1> SUFFICES ASSUME Init PROVE IInv
    OBVIOUS
  <1>1. Types
    BY LoadedTypes DEF Init, Types
  <1>2. ASSUME NEW a \in Timed, anim[a].displayed_first PROVE Earned(a)
    BY <1>2, TimedConstants, LoadedTypes DEF Init, Earned
  <1> QED BY <1>1, <1>2 DEF IInv

-----------------------------------------------------------------------------
(* Theorems                                                                *)

\* The inductive invariant: frames and timers of the animations played by time
\* fit together, and what is left of a frame's time is not too little.
THEOREM AnimationInvariance == Spec => []IInv
  <1>1. IInv /\ [Next]_vars => IInv'
    <2> SUFFICES ASSUME IInv, [Next]_vars PROVE IInv'
      OBVIOUS
    <2>1. Types'
      BY TypesStep DEF IInv
    <2>2. \A a \in Timed : anim'[a].displayed_first => Earned(a)'
      BY EarnedStep
    <2> QED BY <2>1, <2>2 DEF IInv
  <1> QED BY InitIInv, <1>1, PTL DEF Spec

\* No frame goes before its time, nor out of turn, however often commands wake
\* the thread, for any animations; but for those loaded while it slept.
THEOREM TimeTheorem == Spec => NotTooEarly
  <1> DEFINE Due(a) == anim'[a].frame # anim[a].frame =>
         \/ requests' # requests
         \/ /\ anim'[a].frame = Next1(a, anim[a].frame)
            /\ \/ anim[a].frame \in {0, Frames[a]}
               \/ age[a] >= FrameDelay[a] \/ a \in hurried
  <1>1. IInv /\ [Next]_vars => [\A a \in Timed : Due(a)]_vars
    <2> SUFFICES ASSUME IInv, [Next]_vars, NEW a \in Timed PROVE Due(a)
      OBVIOUS
    <2>1. Kept(a) \/ Redrawn(a) \/ Counted(a) \/ Reloaded(a)
      BY AnimStep DEF IInv
    <2>2. CASE Kept(a) \/ Counted(a) \/ Reloaded(a)
      BY <2>2 DEF Kept, SameClock, Counted, Reloaded
    <2>3. CASE Redrawn(a)
      <3>1. anim[a].displayed_first => Earned(a) /\ anim[a].wait <= elapsed
        BY <2>3 DEF IInv, Redrawn
      <3>2. ~anim[a].displayed_first => anim[a].frame \in {0, Frames[a]}
        BY DEF IInv, Types, Timeds
      <3>3. /\ age[a] \in Nat /\ anim[a].wait \in Nat /\ elapsed \in Nat
            /\ FrameDelay[a] \in Nat
        BY TimedConstants DEF IInv, Types, Timeds
      <3> QED BY <2>3, <3>1, <3>2, <3>3 DEF Redrawn, Earned
    <2> QED BY <2>1, <2>2, <2>3
  <1> QED BY AnimationInvariance, <1>1, PTL DEF Spec, NotTooEarly

-----------------------------------------------------------------------------
(* Frames by progress, and the least of the waits                          *)

\* A quotient as the code computes it counts the multiples that fit.
LEMMA Quotients ==
  ASSUME NEW x \in Nat, NEW m \in Nat \ {0}, NEW k \in Nat
  PROVE  /\ x \div m \in Nat
         /\ k * m <= x <=> k <= x \div m
  <1> DEFINE q == x \div m
  <1>1. q \in Nat /\ q * m <= x /\ x < (q + 1) * m
    OBVIOUS
  <1> HIDE DEF q
  <1>2. ASSUME k <= q PROVE k * m <= x
    <2>1. k * m <= q * m
      BY <1>1, <1>2
    <2>2. k * m \in Nat /\ q * m \in Nat
      BY <1>1
    <2> QED BY <1>1, <2>1, <2>2
  <1>3. ASSUME q + 1 <= k PROVE x < k * m
    <2>1. (q + 1) * m <= k * m
      BY <1>1, <1>3
    <2>2. k * m \in Nat /\ (q + 1) * m \in Nat
      BY <1>1
    <2> QED BY <1>1, <2>1, <2>2
  <1>4. k <= q \/ q + 1 <= k
    BY <1>1
  <1>5. k * m \in Nat
    OBVIOUS
  <1> QED BY <1>1, <1>2, <1>3, <1>4, <1>5 DEF q

\* The frame for a progress is the number of the frames whose share of the
\* progress has been reached, the first one always.
FrameFor(a, p) ==
  IF Frames[a] = 0 THEN 1
  ELSE Cardinality({k \in 1..Frames[a] : k = 1 \/ (k - 1) * MaxProgress <= p * Frames[a]})

LEMMA ProportionalFrame ==
  ASSUME NEW a \in Anims, NEW p \in 0..MaxProgress
  PROVE  FrameOf(a, p) = FrameFor(a, p) /\ FrameOf(a, p) \in Nat \ {0}
  <1> DEFINE n == Frames[a]
             q == (p * n) \div MaxProgress
  <1>1. n \in Nat /\ MaxProgress \in Nat \ {0} /\ p \in Nat /\ p * n \in Nat
    BY AnimationAssumption
  <1>2. CASE n = 0
    BY <1>2 DEF FrameOf, FrameFor
  <1>3. CASE n # 0
    <2>1. q \in Nat
      BY <1>1, Quotients
    <2>2. \A k \in 1..n : k - 1 \in Nat
      BY <1>1
    <2>3. \A k \in 1..n : (k - 1) * MaxProgress <= p * n <=> k - 1 <= q
      BY <1>1, <2>2, Quotients
    <2> DEFINE f == Min({n, q + 1})
    <2>4. FrameOf(a, p) = f
      BY <1>3 DEF FrameOf
    <2> HIDE DEF q
    <2>5. f = IF n <= q + 1 THEN n ELSE q + 1
      BY <1>1, <2>1, MinPair
    <2> HIDE DEF f, n
    <2>6. f \in Nat \ {0} /\ f \in Int /\ 1 <= f
      BY <1>1, <1>3, <2>1, <2>5
    <2>7. {k \in 1..n : k = 1 \/ (k - 1) * MaxProgress <= p * n} = 1..f
      <3>1. \A k \in 1..n : (k = 1 \/ k - 1 <= q) <=> k <= f
        BY <1>1, <1>3, <2>1, <2>5
      <3>2. \A k \in 1..f : k \in 1..n
        BY <1>1, <2>1, <2>5, <2>6
      <3> QED BY <1>1, <2>3, <2>6, <3>1, <3>2
    <2>8. Cardinality(1..f) = f
      BY <2>6, FS_Interval
    <2> QED BY <1>3, <2>4, <2>6, <2>7, <2>8 DEF FrameFor, n
  <1> QED BY <1>2, <1>3

\* A set of numbers with one of them has a least one.
LEMMA LeastNumber ==
  ASSUME NEW T \in SUBSET Nat, NEW n \in T
  PROVE  Min(T) \in T /\ \A m \in T : Min(T) <= m
  <1> DEFINE R == {ss \in Nat \X Nat : ss[1] < ss[2]}
  <1>1. IsWellFoundedOn(R, Nat)
    BY NatLessThanWellFounded, Zenon DEF OpToRel
  <1>2. PICK x \in T : \A y \in T : ~(<<y, x>> \in R)
    <2> HIDE DEF R
    <2> QED BY <1>1, WFMin
  <1>3. ASSUME NEW y \in T, y < x PROVE <<y, x>> \in R
    BY <1>3
  <1>4. \A y \in T : y \in Nat /\ x \in Nat /\ ~(y < x)
    BY <1>2, <1>3
  <1>5. \A y \in T : x <= y
    BY <1>4
  <1> QED BY <1>5 DEF Min

\* The thread waits no longer than any animation that plays.
LEMMA SleepBound ==
  ASSUME NEW A, \A x \in Timed : A[x].wait \in Nat
  PROVE  /\ Sleep(A) \in Nat
         /\ \A x \in Timed : A[x].visible /\ A[x].wait > 0 => Sleep(A) <= A[x].wait
  <1> DEFINE T == {MaxDelay} \union {A[x].wait : x \in {b \in Anims : Playing(b, A) /\ A[b].wait > 0}}
  <1>1. T \in SUBSET Nat /\ MaxDelay \in T
    BY AnimationAssumption DEF Playing
  <1>2. \A x \in Timed : A[x].visible /\ A[x].wait > 0 => A[x].wait \in T
    BY DEF Playing, Timed
  <1>3. Sleep(A) = Min(T)
    BY DEF Sleep
  <1> HIDE DEF T
  <1>4. Min(T) \in T /\ \A m \in T : Min(T) <= m
    BY <1>1, LeastNumber
  <1> QED BY <1>1, <1>2, <1>3, <1>4

-----------------------------------------------------------------------------
(* The second invariant: what is on the screen is current                  *)

Records ==
  [visible : BOOLEAN, invalid : BOOLEAN, displayed_first : BOOLEAN,
   frame : Nat, wait : Nat, curr : 0..MaxProgress]

\* A proportional animation r with s of it on the screen: once drawn, the canvas
\* has the frame for the progress it was drawn with, and so has the screen unless
\* it was hidden.  Before it is drawn, its area is listed, and an empty canvas on
\* the screen, only if it was hidden.
CanvasFits(a, r, s, B, U) ==
  /\ s = <<0>> => a \in U
  /\ a \in B /\ ~r.displayed_first => a \in U
  /\ r.displayed_first => a \notin U /\ r.frame = FrameOf(a, r.curr) /\ s \in {None, Shown(r)}

\* At progress p: it was drawn with that progress, if it is not marked.
BarSound(a, r, s, p, B, U) ==
  r \in Records /\ CanvasFits(a, r, s, B, U) /\ (r.visible /\ ~r.invalid => r.curr = p)

\* And as the state has it.
Bar(a) == BarSound(a, anim[a], screen[a], progress, blit, undrawn)

\* An animation played by time: a canvas that was drawn stays so, and a silent
\* screen does not keep the empty one.
CanvasSound(a) ==
  /\ a \notin OfService => anim[a].frame # 0
  /\ anim[a].frame # 0 /\ (silent \/ a \notin OfService) => screen[a] # <<0>>

\* The thread does not sleep longer than an animation that it knows of waits.
Heard(a) ==
  pc # "top" /\ ~signalled /\ a \notin unheard /\ anim[a].visible =>
    anim[a].frame # 0 /\ (anim[a].wait > 0 => delay <= anim[a].wait)

\* Nothing is left of a frame's time when it was seen for all of it.
Spent(a) ==
  a \notin frozen /\ anim[a].wait > 0 => age[a] + anim[a].wait <= FrameDelay[a] + elapsed

Waits ==
  /\ delay \in Nat /\ elapsed <= delay /\ progress \in 0..MaxProgress
  /\ silent \in BOOLEAN /\ signalled \in BOOLEAN /\ (signalled => pc = "wait")

SeenInv ==
  /\ Waits
  /\ \A a \in Anims \ Timed : Bar(a)
  /\ \A a \in Timed : CanvasSound(a) /\ Heard(a) /\ Spent(a)

\* Painting a proportional animation, or not.
LEMMA RenderBar ==
  ASSUME NEW A, NEW force \in BOOLEAN, NEW a \in Anims \ Timed, progress \in 0..MaxProgress,
         BarSound(a, A[a], screen[a], progress, blit, undrawn),
         Render(A, force) \/ (anim' = A /\ UNCHANGED screenVars), progress' = progress
  PROVE  Bar(a)'
  <1> USE DEF BarSound, CanvasFits
  <1>1. CASE anim' = A /\ UNCHANGED screenVars
    BY <1>1 DEF screenVars, Bar
  <1>2. CASE Render(A, force)
    <2> DEFINE r == A[a]
               q == anim'[a]
               drawn == r.visible /\ (force \/ (r.invalid /\ r.curr # progress))
    <2>1. FrameOf(a, progress) \in Nat \ {0}
      BY ProportionalFrame
    <2>2. /\ q = IF force \/ r.invalid THEN Prerender(a, r, force) ELSE r
          /\ a \in undrawn' <=> a \in undrawn /\ ~q.displayed_first
          /\ drawn => screen'[a] = Shown(q)
          /\ ~drawn /\ r.visible => ~force
          /\ ~drawn => screen'[a] = screen[a] \/ screen'[a] = None \/ (a \in blit /\ screen'[a] = Shown(q))
          /\ a \in blit' => a \in blit \/ drawn
      BY <1>2 DEF Render, Touched
    <2>3. CASE drawn
      <3>1. q = [r EXCEPT !.invalid = FALSE, !.curr = progress, !.frame = FrameOf(a, progress),
                          !.displayed_first = TRUE]
        BY <2>2, <2>3 DEF Prerender
      <3>2. /\ q \in Records /\ q.frame = FrameOf(a, q.curr) /\ q.curr = progress /\ q.frame # 0
            /\ q.displayed_first
        BY <2>1, <3>1 DEF Records
      <3>3. screen'[a] = Shown(q) /\ a \notin undrawn'
        BY <2>2, <2>3, <3>2
      <3>4. Shown(q) # <<0>>
        BY <3>2 DEF Shown
      <3> HIDE DEF q
      <3>5. BarSound(a, q, screen'[a], progress, blit', undrawn')
        BY <3>2, <3>3, <3>4
      <3> QED BY <1>2, <3>5 DEF Bar, q
    <2>4. CASE ~drawn
      <3>1. q = r \/ q = [r EXCEPT !.invalid = FALSE]
        BY <2>2, <2>4 DEF Prerender
      <3>2. /\ q \in Records /\ q.visible = r.visible /\ q.curr = r.curr
            /\ q.frame = r.frame /\ q.displayed_first = r.displayed_first
        BY <3>1 DEF Records
      <3>3. screen'[a] \in {screen[a], None} \/ (a \in blit /\ screen'[a] = Shown(q))
        BY <2>2, <2>4
      <3>4. r.visible /\ ~q.invalid => r.curr = progress
        <4>1. CASE r.visible /\ r.invalid
          BY <2>4, <4>1
        <4>2. CASE r.visible /\ ~r.invalid
          BY <4>2
        <4> QED BY <4>1, <4>2 DEF Records
      <3>5. None # <<0>>
        BY DEF None
      <3>6. Shown(q) = Shown(r)
        BY <3>2 DEF Shown
      <3>7. r.displayed_first => Shown(q) # <<0>>
        BY <3>2, ProportionalFrame DEF Shown, Records
      <3>8. (a \in undrawn' <=> a \in undrawn /\ ~q.displayed_first) /\ (a \in blit' => a \in blit)
        BY <2>2, <2>4
      <3> HIDE DEF q
      <3>9. BarSound(a, q, screen'[a], progress, blit', undrawn')
        <4>1. q.displayed_first => q.frame = FrameOf(a, q.curr) /\ screen'[a] \in {None, Shown(q)}
          BY <3>2, <3>3, <3>6
        <4>2. screen'[a] = <<0>> => a \in undrawn'
          BY <3>2, <3>3, <3>5, <3>7, <3>8
        <4>3. a \in blit' /\ ~q.displayed_first => a \in undrawn'
          BY <3>2, <3>8
        <4> QED BY <3>2, <3>4, <3>8, <4>1, <4>2, <4>3
      <3> QED BY <1>2, <3>9 DEF Bar, q
    <2> QED BY <2>3, <2>4
  <1> QED BY <1>1, <1>2

\* A bar that was just loaded, or that is marked without having been drawn
\* anew.
LEMMA MarkedBar ==
  ASSUME NEW a \in Anims \ Timed, NEW r \in Records, NEW s, NEW p, NEW v \in BOOLEAN,
         NEW B, NEW U, CanvasFits(a, r, s, B, U)
  PROVE  BarSound(a, [r EXCEPT !.visible = v, !.invalid = TRUE], s, p, B, U)
  <1> DEFINE q == [r EXCEPT !.visible = v, !.invalid = TRUE]
  <1>1. /\ q \in Records /\ q.invalid = TRUE /\ q.frame = r.frame /\ q.curr = r.curr
        /\ q.displayed_first = r.displayed_first
    BY DEF Records
  <1> HIDE DEF q
  <1> QED BY <1>1 DEF BarSound, CanvasFits, Shown, q

\* Proportional animations remain sound.
LEMMA BarStep ==
  ASSUME Waits, [Next]_vars, NEW a \in Anims \ Timed, Bar(a)
  PROVE  Bar(a)'
  <1> USE DEF Waits
  <1>0. anim[a] \in Records /\ CanvasFits(a, anim[a], screen[a], blit, undrawn)
    BY DEF Bar, BarSound
  <1>1. ASSUME NEW A, A[a] = anim[a], NEW force \in BOOLEAN,
               Render(A, force) \/ (anim' = A /\ UNCHANGED screenVars), progress' = progress
        PROVE  Bar(a)'
    <2>1. BarSound(a, A[a], screen[a], progress, blit, undrawn)
      BY <1>1 DEF Bar
    <2> QED BY <1>1, <2>1, RenderBar
  <1>2. CASE Round
    <2> DEFINE new == {x \in Anims : Playing(x, anim) /\ ~anim[x].displayed_first}
               A == [x \in Anims |-> IF x \in new THEN Draw(x, anim[x]) ELSE anim[x]]
    <2>1. /\ progress' = progress
          /\ IF new = {} THEN anim' = anim /\ UNCHANGED screenVars ELSE RenderIfSilent(A)
      BY <1>2 DEF Round
    <2>2. A[a] = anim[a]
      BY DEF Playing
    <2>3. \/ Render(A, TRUE) \/ (anim' = A /\ UNCHANGED screenVars)
          \/ anim' = anim /\ UNCHANGED screenVars
      BY <2>1 DEF RenderIfSilent
    <2> HIDE DEF A
    <2> QED BY <1>1, <2>1, <2>2, <2>3
  <1>3. CASE Wake
    <2> DEFINE counted == IF silent THEN {x \in Anims : Playing(x, anim) /\ anim[x].wait > 0} ELSE {}
               due == {x \in counted : anim[x].wait <= elapsed}
               A == [x \in Anims |-> IF x \in due THEN Draw(x, anim[x])
                                     ELSE IF x \in counted THEN [anim[x] EXCEPT !.wait = @ - elapsed]
                                     ELSE anim[x]]
    <2>1. progress' = progress /\ RenderIfSilent(A)
      BY <1>3 DEF Wake, Rdelay
    <2>2. A[a] = anim[a]
      BY DEF Playing
    <2>3. Render(A, TRUE) \/ (anim' = A /\ UNCHANGED screenVars)
      BY <2>1 DEF RenderIfSilent
    <2> HIDE DEF A
    <2> QED BY <1>1, <2>1, <2>2, <2>3
  <1>4. ASSUME NEW S \in SUBSET OfService, UpdateSvc(S)
        PROVE  Bar(a)'
    <2> DEFINE v == a \in on'
    <2>1. /\ screen' = screen /\ progress' = progress
          /\ a \in blit' <=> a \in blit \/ a \in S \intersect on
          /\ a \in undrawn' <=> a \in undrawn \/ (a \in S \intersect on /\ ~anim[a].displayed_first)
      BY <1>4 DEF UpdateSvc
    <2>2. CASE a \notin S
      <3>1. /\ anim'[a] = anim[a] /\ (a \in blit' <=> a \in blit)
            /\ a \in undrawn' <=> a \in undrawn
        BY <1>4, <2>1, <2>2 DEF UpdateSvc
      <3> QED BY <2>1, <3>1 DEF Bar, BarSound, CanvasFits
    <2>3. CASE a \in S
      <3>1. anim'[a] = [anim[a] EXCEPT !.visible = v, !.invalid = TRUE]
        BY <1>4, <2>3 DEF UpdateSvc
      <3>2. v \in BOOLEAN
        OBVIOUS
      <3>3. CanvasFits(a, anim[a], screen[a], blit', undrawn')
        BY <1>0, <2>1 DEF CanvasFits
      <3> HIDE DEF v
      <3>4. BarSound(a, [anim[a] EXCEPT !.visible = v, !.invalid = TRUE],
                     screen[a], progress, blit', undrawn')
        BY <1>0, <3>2, <3>3, MarkedBar
      <3> QED BY <2>1, <3>1, <3>4 DEF Bar
    <2> QED BY <2>2, <2>3
  <1>5. CASE SetTheme
    <2> DEFINE r == NewAnim(a)
               v == r.visible \/ a \in on
    <2>1. r \in Records /\ r.displayed_first = FALSE /\ r.invalid = TRUE /\ v \in BOOLEAN
      BY AnimationAssumption DEF NewAnim, Records
    <2>2. Loaded[a] = r
      BY DEF Loaded
    <2>3. anim'[a] = [r EXCEPT !.visible = v]
      BY <1>5, <2>2 DEF SetTheme
    <2>4. anim'[a] = [r EXCEPT !.visible = v, !.invalid = TRUE]
      BY <2>1, <2>3 DEF Records
    <2>5. screen' = screen /\ blit' = {} /\ undrawn' = undrawn
      BY <1>5 DEF SetTheme
    <2> HIDE DEF r, v
    <2>6. BarSound(a, [r EXCEPT !.visible = v, !.invalid = TRUE], screen[a], progress', {}, undrawn)
      <3>1. CanvasFits(a, r, screen[a], {}, undrawn)
        BY <1>0, <2>1 DEF CanvasFits
      <3> QED BY <2>1, <3>1, MarkedBar
    <2> QED BY <2>4, <2>5, <2>6 DEF Bar
  <1>6. ASSUME NEW p \in 0..MaxProgress, Progress(p)
        PROVE  Bar(a)'
    <2>1. anim'[a] = [anim[a] EXCEPT !.invalid = TRUE] /\ UNCHANGED screenVars
      BY <1>6 DEF Progress
    <2>2. anim[a].visible \in BOOLEAN
          /\ anim'[a] = [anim[a] EXCEPT !.visible = anim[a].visible, !.invalid = TRUE]
      BY <1>0, <2>1 DEF Records
    <2>3. BarSound(a, [anim[a] EXCEPT !.visible = anim[a].visible, !.invalid = TRUE],
                   screen[a], progress', blit, undrawn)
      BY <1>0, <2>2, MarkedBar
    <2> QED BY <2>1, <2>2, <2>3 DEF Bar, screenVars
  <1>7. ASSUME NEW force \in BOOLEAN, Paint(force)
        PROVE  Bar(a)'
    BY <1>1, <1>7 DEF Paint
  <1>8. CASE SwitchSilent
    BY <1>1, <1>8 DEF SwitchSilent
  <1>9. CASE Wait \/ Tick \/ SwitchVerbose \/ UNCHANGED vars
    BY <1>9 DEF Wait, Tick, SwitchVerbose, vars, screenVars, Bar
  <1> QED BY <1>2, <1>3, <1>4, <1>5, <1>6, <1>7, <1>8, <1>9 DEF Next, Thread

\* Painting an animation that is played by time.
LEMMA RenderCanvas ==
  ASSUME NEW A, NEW force \in BOOLEAN, NEW a \in Timed, A[a] \in Timeds(a),
         Render(A, force) \/ (anim' = A /\ screen' = screen)
  PROVE  /\ anim'[a].visible = A[a].visible
         /\ screen'[a] \in {None, screen[a], <<A[a].frame>>}
         /\ Render(A, force) /\ force => screen'[a] \in {None, <<A[a].frame>>}
  <1>1. anim'[a] = A[a] \/ anim'[a] = [A[a] EXCEPT !.invalid = FALSE]
    BY TimedConstants DEF Render, Prerender
  <1>2. anim'[a].visible = A[a].visible /\ anim'[a].frame = A[a].frame
    BY <1>1 DEF Timeds
  <1>3. a \in Anims
    BY TimedConstants
  <1> QED BY <1>2, <1>3 DEF Render, Shown

\* A canvas that was drawn is not empty.
LEMMA DrawnFrame ==
  ASSUME NEW a \in Timed, NEW r \in Timeds(a)
  PROVE  /\ Draw(a, r).frame # 0
         /\ Draw(a, r).wait > 0 => Draw(a, r).wait <= FrameDelay[a]
         /\ r.displayed_first => r.frame # 0
  <1>1. Next1(a, r.frame) # 0 /\ (r.displayed_first => r.frame # 0)
    BY TimedConstants DEF Timeds, Next1
  <1>2. Draw(a, r).wait = 0 \/ Draw(a, r).wait = FrameDelay[a]
    <2> DEFINE next == IF r.displayed_first THEN r.frame + 1 ELSE 1
    <2>1. Draw(a, r).wait = IF next = Frames[a] THEN 0 ELSE FrameDelay[a]
      BY DEF Draw, Timeds
    <2> QED BY <2>1
  <1> QED BY <1>1, <1>2, DrawEffect, TimedConstants

\* An animation played by time, and its canvas, remain sound.
LEMMA SeenStep ==
  ASSUME Types, Waits, [Next]_vars, NEW a \in Timed, CanvasSound(a), Heard(a), Spent(a)
  PROVE  CanvasSound(a)' /\ Heard(a)' /\ Spent(a)'
  <1> USE DEF Types, Waits
  <1>1. /\ a \in Anims /\ anim[a] \in Timeds(a) /\ SameClock(anim[a], anim[a])
        /\ anim[a].wait \in Nat /\ age[a] \in Nat /\ FrameDelay[a] \in Nat
        /\ anim[a].frame \in Nat /\ anim[a].visible \in BOOLEAN
        /\ MaxDelay \in Nat
    BY TimedConstants DEF SameClock, Timeds
  <1>2. CASE Round
    <2> DEFINE new == {x \in Anims : Playing(x, anim) /\ ~anim[x].displayed_first}
               A == [x \in Anims |-> IF x \in new THEN Draw(x, anim[x]) ELSE anim[x]]
    <2>1. /\ IF new = {} THEN anim' = anim /\ screen' = screen ELSE RenderIfSilent(A)
          /\ age'[a] = IF a \in new THEN 0 ELSE age[a]
          /\ frozen' = frozen \ new /\ elapsed' = elapsed /\ elapsed = 0
          /\ silent' = silent /\ delay' = Sleep(A) /\ pc' = "unlocked"
      BY <1>1, <1>2 DEF Round, Drawn, screenVars
    <2>2. \A x \in Timed : A[x].wait \in Nat
      <3> TAKE x \in Timed
      <3>1. x \in Anims /\ anim[x] \in Timeds(x) /\ Draw(x, anim[x]) \in Timeds(x)
        BY TimedConstants, DrawEffect
      <3> QED BY <3>1 DEF Timeds
    <2>3. A[a].visible /\ A[a].wait > 0 => delay' <= A[a].wait
      <3> HIDE DEF A
      <3> QED BY <2>1, <2>2, SleepBound
    <2>4. CASE a \in new
      <3>1. A[a] = Draw(a, anim[a])
        BY <2>4
      <3>2. (Render(A, TRUE) /\ silent) \/ (anim' = A /\ screen' = screen /\ ~silent)
        BY <2>1, <2>4 DEF RenderIfSilent, screenVars
      <3> HIDE DEF A
      <3>3. /\ A[a] \in Timeds(a) /\ A[a].frame # 0
            /\ A[a].wait > 0 => A[a].wait <= FrameDelay[a]
        BY <1>1, <3>1, DrawEffect, DrawnFrame
      <3>4. /\ SameClock(anim'[a], A[a]) /\ anim'[a].visible = A[a].visible
            /\ silent => screen'[a] \in {None, <<A[a].frame>>}
            /\ ~silent => screen'[a] = screen[a]
        BY <3>2, <3>3, RenderKeeps, RenderCanvas
      <3>5. None # <<0>> /\ <<A[a].frame>> # <<0>>
        BY <3>3 DEF None
      <3>6. CanvasSound(a)'
        BY <2>1, <3>3, <3>4, <3>5 DEF CanvasSound, SameClock
      <3>7. Heard(a)'
        BY <2>3, <3>3, <3>4 DEF Heard, SameClock
      <3>8. Spent(a)'
        BY <1>1, <2>1, <2>4, <3>3, <3>4 DEF Spent, SameClock, Timeds
      <3> QED BY <3>6, <3>7, <3>8
    <2>5. CASE a \notin new
      <3>1. A[a] = anim[a] /\ (anim[a].visible => anim[a].frame # 0)
        BY <1>1, <2>5, DrawnFrame DEF Playing
      <3>2. Render(A, TRUE) \/ (anim' = A /\ screen' = screen) \/ (anim' = anim /\ screen' = screen)
        BY <2>1 DEF RenderIfSilent, screenVars
      <3> HIDE DEF A
      <3>3. /\ SameClock(anim'[a], anim[a]) /\ anim'[a].visible = anim[a].visible
            /\ screen'[a] \in {None, screen[a], <<anim[a].frame>>}
        <4>1. CASE anim' = anim /\ screen' = screen
          BY <1>1, <4>1
        <4>2. CASE Render(A, TRUE) \/ (anim' = A /\ screen' = screen)
          <5>1. A[a] \in Timeds(a)
            BY <1>1, <3>1
          <5>2. anim'[a].visible = A[a].visible /\ screen'[a] \in {None, screen[a], <<A[a].frame>>}
            BY <4>2, <5>1, RenderCanvas
          <5>3. SameClock(anim'[a], A[a])
            BY <4>2, <5>1, RenderKeeps
          <5> QED BY <3>1, <5>2, <5>3
        <4> QED BY <3>2, <4>1, <4>2
      <3>4. None # <<0>> /\ (anim[a].frame # 0 => <<anim[a].frame>> # <<0>>)
        BY DEF None
      <3>5. CanvasSound(a)'
        BY <2>1, <3>3, <3>4 DEF CanvasSound, SameClock
      <3>6. Heard(a)'
        BY <2>3, <3>1, <3>3 DEF Heard, SameClock
      <3>7. Spent(a)'
        BY <1>1, <2>1, <2>5, <3>3 DEF Spent, SameClock
      <3> QED BY <3>5, <3>6, <3>7
    <2> QED BY <2>4, <2>5
  <1>3. CASE Wait
    BY <1>1, <1>3 DEF Wait, screenVars, CanvasSound, Heard, Spent, historyVars
  <1>4. CASE Tick
    <2>1. age'[a] \in Nat /\ age'[a] <= age[a] + 1
      <3>1. age'[a] = Min({age[a] + 1, MaxDelay + 1})
        BY <1>1, <1>4 DEF Tick
      <3>2. age[a] + 1 \in Nat /\ MaxDelay + 1 \in Nat
        BY <1>1
      <3> QED BY <3>1, <3>2, MinPair
    <2> QED BY <1>1, <1>4, <2>1 DEF Tick, screenVars, CanvasSound, Heard, Spent, historyVars
  <1>5. CASE Wake
    <2> DEFINE counted == IF silent THEN {x \in Anims : Playing(x, anim) /\ anim[x].wait > 0} ELSE {}
               due == {x \in counted : anim[x].wait <= elapsed}
               A == [x \in Anims |-> IF x \in due THEN Draw(x, anim[x])
                                     ELSE IF x \in counted THEN [anim[x] EXCEPT !.wait = @ - elapsed]
                                     ELSE anim[x]]
    <2>1. /\ RenderIfSilent(A) /\ elapsed' = 0 /\ pc' = "top" /\ silent' = silent
          /\ age'[a] = IF a \in due THEN 0 ELSE age[a]
          /\ frozen' = (frozen \ due) \union
                         (IF elapsed > 0 THEN {x \in Timed \ counted : anim[x].wait > 0} ELSE {})
      BY <1>1, <1>5 DEF Wake, Drawn, Rdelay
    <2>2. (Render(A, TRUE) /\ silent) \/ (anim' = A /\ screen' = screen /\ ~silent)
      BY <2>1 DEF RenderIfSilent, screenVars
    <2>3. A[a] = IF a \in due THEN Draw(a, anim[a])
                 ELSE IF a \in counted THEN [anim[a] EXCEPT !.wait = @ - elapsed] ELSE anim[a]
      BY <1>1
    <2>4. a \in due => a \in counted
      OBVIOUS
    <2>5. /\ a \in counted => silent
          /\ a \in counted \ due => anim[a].wait - elapsed \in Nat
      BY <1>1
    <2> HIDE DEF A
    <2>6. /\ A[a] \in Timeds(a) /\ (anim[a].frame # 0 => A[a].frame # 0)
          /\ A[a].frame # 0 => anim[a].frame # 0 \/ a \in due
          /\ a \in due => A[a].frame # 0 /\ (A[a].wait > 0 => A[a].wait <= FrameDelay[a])
          /\ a \in counted \ due => A[a].wait = anim[a].wait - elapsed
          /\ a \notin counted => A[a].wait = anim[a].wait
      <3>1. CASE a \in due
        BY <1>1, <2>3, <2>4, <3>1, DrawEffect, DrawnFrame
      <3>2. CASE a \in counted \ due
        BY <1>1, <2>3, <2>5, <3>2 DEF Timeds
      <3>3. CASE a \notin counted
        BY <1>1, <2>3, <2>4, <3>3
      <3> QED BY <3>1, <3>2, <3>3
    <2>7. /\ SameClock(anim'[a], A[a])
          /\ silent => screen'[a] \in {None, <<A[a].frame>>}
          /\ ~silent => screen'[a] = screen[a]
      BY <2>2, <2>6, RenderKeeps, RenderCanvas
    <2>8. None # <<0>> /\ (A[a].frame # 0 => <<A[a].frame>> # <<0>>)
      BY DEF None
    <2> HIDE DEF due, counted
    <2>9. CanvasSound(a)'
      BY <2>1, <2>4, <2>5, <2>6, <2>7, <2>8 DEF CanvasSound, SameClock
    <2>10. Heard(a)'
      BY <2>1 DEF Heard
    <2>11. Spent(a)'
      <3>1. CASE a \in due
        BY <1>1, <2>1, <2>6, <2>7, <3>1 DEF Spent, SameClock, Timeds
      <3>2. CASE a \in counted \ due
        BY <1>1, <2>1, <2>4, <2>6, <2>7, <3>2 DEF Spent, SameClock
      <3>3. CASE a \notin counted
        BY <1>1, <2>1, <2>4, <2>6, <2>7, <3>3 DEF Spent, SameClock
      <3> QED BY <3>1, <3>2, <3>3
    <2> QED BY <2>9, <2>10, <2>11
  <1>6. ASSUME NEW S \in SUBSET OfService, UpdateSvc(S)
        PROVE  CanvasSound(a)' /\ Heard(a)' /\ Spent(a)'
    <2> DEFINE v == a \in on'
    <2>1. /\ anim'[a] = IF a \in S THEN [anim[a] EXCEPT !.visible = v, !.invalid = TRUE] ELSE anim[a]
          /\ signalled' = (pc = "wait") /\ on' = (on \ S) \union (S \ on)
          /\ unheard' = IF pc = "unlocked" THEN unheard \union (S \ on) ELSE unheard
          /\ UNCHANGED <<pc, delay, elapsed, screen, silent, age, frozen>>
      BY <1>1, <1>6 DEF UpdateSvc
    <2>2. /\ anim'[a].frame = anim[a].frame /\ anim'[a].wait = anim[a].wait
          /\ a \in S => anim'[a].visible = v
          /\ a \notin S => anim'[a].visible = anim[a].visible
      <3>1. v \in BOOLEAN
        OBVIOUS
      <3> HIDE DEF v
      <3> QED BY <1>1, <2>1, <3>1 DEF Timeds
    <2>3. CanvasSound(a)'
      BY <2>1, <2>2 DEF CanvasSound
    <2>4. Spent(a)'
      BY <2>1, <2>2 DEF Spent
    <2>5. Heard(a)'
      BY <2>1, <2>2 DEF Heard
    <2> QED BY <2>3, <2>4, <2>5
  <1>7. CASE SetTheme
    <2>1. Loaded[a] \in Timeds(a) /\ Loaded[a].visible \in BOOLEAN
      BY LoadedTypes DEF Timeds
    <2>2. anim'[a] = [Loaded[a] EXCEPT !.visible = @ \/ a \in on]
      BY <1>1, <1>7 DEF SetTheme
    <2>3. anim'[a].frame = Loaded[a].frame /\ anim'[a].wait = Loaded[a].wait
      BY <2>1, <2>2 DEF Timeds
    <2>4. /\ a \notin OfService => Loaded[a].frame # 0
          /\ a \in OfService => Loaded[a].frame = 0
          /\ Loaded[a].wait > 0 => Loaded[a].wait <= FrameDelay[a]
      <3>1. NewAnim(a) \in Timeds(a) /\ NewAnim(a).frame = 0 /\ NewAnim(a).wait = 0
        BY TimedConstants DEF NewAnim, Timeds
      <3>2. Loaded[a] = IF a \in Timed \ OfService THEN Draw(a, NewAnim(a)) ELSE NewAnim(a)
        BY TimedConstants DEF Loaded
      <3> QED BY <1>1, <3>1, <3>2, DrawnFrame
    <2>5. /\ age'[a] = 0 /\ UNCHANGED <<pc, delay, elapsed, signalled, screen, silent>>
          /\ pc # "top" => unheard' = {x \in Anims : anim'[x].visible}
      BY <1>1, <1>7 DEF SetTheme, threadVars
    <2>6. CanvasSound(a)'
      BY <2>3, <2>4, <2>5 DEF CanvasSound
    <2>7. Heard(a)'
      BY <1>1, <2>5 DEF Heard
    <2>8. Loaded[a].wait \in Nat
      BY <2>1 DEF Timeds
    <2>9. Spent(a)'
      BY <1>1, <2>3, <2>4, <2>5, <2>8 DEF Spent
    <2> QED BY <2>6, <2>7, <2>9
  <1>8. ASSUME NEW p \in 0..MaxProgress, Progress(p)
        PROVE  CanvasSound(a)' /\ Heard(a)' /\ Spent(a)'
    BY <1>1, <1>8 DEF Progress, threadVars, screenVars, historyVars, CanvasSound, Heard, Spent
  <1>9. ASSUME NEW force \in BOOLEAN, Render(anim, force), silent' = TRUE,
               silent \/ force, UNCHANGED <<threadVars, age, historyVars>>
        PROVE  CanvasSound(a)' /\ Heard(a)' /\ Spent(a)'
    <2>1. /\ SameClock(anim'[a], anim[a]) /\ anim'[a].visible = anim[a].visible
          /\ screen'[a] \in {None, screen[a], <<anim[a].frame>>}
          /\ force => screen'[a] \in {None, <<anim[a].frame>>}
      BY <1>1, <1>9, RenderKeeps, RenderCanvas
    <2>2. None # <<0>> /\ (anim[a].frame # 0 => <<anim[a].frame>> # <<0>>)
      BY DEF None
    <2>3. CanvasSound(a)'
      BY <1>9, <2>1, <2>2 DEF CanvasSound, SameClock
    <2>4. Heard(a)' /\ Spent(a)'
      BY <1>9, <2>1 DEF Heard, Spent, SameClock, threadVars, historyVars
    <2> QED BY <2>3, <2>4
  <1>10. CASE SwitchSilent \/ \E force \in BOOLEAN : Paint(force)
    <2>1. CASE SwitchSilent
      BY <1>9, <2>1 DEF SwitchSilent
    <2>2. ASSUME NEW force \in BOOLEAN, Paint(force)
          PROVE  CanvasSound(a)' /\ Heard(a)' /\ Spent(a)'
      BY <1>9, <2>2 DEF Paint
    <2> QED BY <1>10, <2>1, <2>2
  <1>11. CASE SwitchVerbose \/ UNCHANGED vars
    BY <1>11
       DEF SwitchVerbose, vars, threadVars, screenVars, historyVars, CanvasSound, Heard, Spent
  <1> QED BY <1>2, <1>3, <1>4, <1>5, <1>6, <1>7, <1>8, <1>10, <1>11 DEF Next, Thread

\* The times of a round remain in order.
LEMMA WaitsStep ==
  ASSUME Types, Waits, [Next]_vars
  PROVE  Waits'
  <1> DEFINE Numbers == delay \in Nat /\ elapsed <= delay /\ progress \in 0..MaxProgress
             Flags == silent \in BOOLEAN /\ signalled \in BOOLEAN /\ (signalled => pc = "wait")
  <1>0. MaxDelay \in Nat /\ elapsed \in Nat /\ Numbers /\ Flags
    BY AnimationAssumption DEF Types, Waits
  <1> SUFFICES Numbers' /\ Flags'
    BY DEF Waits
  <1>1. CASE Round
    <2> DEFINE new == {x \in Anims : Playing(x, anim) /\ ~anim[x].displayed_first}
               A == [x \in Anims |-> IF x \in new THEN Draw(x, anim[x]) ELSE anim[x]]
    <2>1. \A x \in Timed : A[x].wait \in Nat
      <3> TAKE x \in Timed
      <3>1. x \in Anims /\ anim[x] \in Timeds(x) /\ Draw(x, anim[x]) \in Timeds(x)
        BY TimedConstants, DrawEffect DEF Types
      <3> QED BY <3>1 DEF Timeds
    <2>2. delay' = Sleep(A) /\ UNCHANGED <<elapsed, signalled, silent, progress>>
          /\ pc = "top" /\ elapsed = 0
      BY <1>1 DEF Round, Types
    <2> HIDE DEF A
    <2>3. delay' \in Nat
      BY <2>1, <2>2, SleepBound
    <2> QED BY <1>0, <2>2, <2>3 DEF Types
  <1>2. CASE Wait
    <2>1. Flags'
      BY <1>0, <1>2, Zenon DEF Wait
    <2>2. Numbers'
      BY <1>0, <1>2 DEF Wait
    <2> QED BY <2>1, <2>2
  <1>3. CASE Tick \/ Wake
    <2>1. Flags'
      BY <1>0, <1>3 DEF Tick, Wake
    <2>2. Numbers'
      BY <1>0, <1>3 DEF Tick, Wake
    <2> QED BY <2>1, <2>2
  <1>4. ASSUME NEW S \in SUBSET OfService, UpdateSvc(S) PROVE Numbers' /\ Flags'
    BY <1>0, <1>4 DEF UpdateSvc
  <1>5. ASSUME NEW p \in 0..MaxProgress, Progress(p) PROVE Numbers' /\ Flags'
    BY <1>0, <1>5 DEF Progress, threadVars
  <1>6. CASE SetTheme
    BY <1>0, <1>6 DEF SetTheme, threadVars
  <1>7. CASE SwitchSilent \/ \E force \in BOOLEAN : Paint(force)
    <2>1. Flags'
      <3>1. signalled' = signalled /\ pc' = pc
        BY <1>7 DEF SwitchSilent, Paint, threadVars
      <3>2. silent' = TRUE \/ silent' = silent
        BY <1>7 DEF SwitchSilent, Paint
      <3> QED BY <1>0, <3>1, <3>2, Zenon
    <2>2. Numbers'
      BY <1>0, <1>7 DEF SwitchSilent, Paint, threadVars
    <2> QED BY <2>1, <2>2
  <1>8. CASE SwitchVerbose \/ UNCHANGED vars
    <2>1. Flags'
      <3>1. signalled' = signalled /\ pc' = pc
        BY <1>8 DEF SwitchVerbose, vars, threadVars
      <3>2. silent' = FALSE \/ silent' = silent
        BY <1>8 DEF SwitchVerbose, vars
      <3> QED BY <1>0, <3>1, <3>2, Zenon
    <2>2. Numbers'
      BY <1>0, <1>8 DEF SwitchVerbose, vars, threadVars
    <2> QED BY <2>1, <2>2
  <1> QED BY <1>1, <1>2, <1>3, <1>4, <1>5, <1>6, <1>7, <1>8 DEF Next, Thread

\* The second invariant at the start: nothing is on the screen.
LEMMA InitSeen == Init => SeenInv
  <1> SUFFICES ASSUME Init PROVE SeenInv
    OBVIOUS
  <1> USE DEF Init
  <1>1. Waits
    <2>1. MaxDelay \in Nat /\ 0 \in 0..MaxProgress
      BY AnimationAssumption
    <2>2. /\ delay = MaxDelay /\ elapsed = 0 /\ progress = 0 /\ signalled = FALSE
          /\ silent \in BOOLEAN
      OBVIOUS
    <2>3. signalled \in BOOLEAN /\ (signalled => pc = "wait")
      BY <2>2, Zenon
    <2>4. delay \in Nat /\ elapsed <= delay /\ progress \in 0..MaxProgress
      BY <2>1, <2>2
    <2> QED BY <2>2, <2>3, <2>4, Zenon DEF Waits
  <1>2. None # <<0>>
    BY DEF None
  <1>3. ASSUME NEW a \in Anims \ Timed PROVE Bar(a)
    <2>1. NewAnim(a) \in Records /\ NewAnim(a).displayed_first = FALSE /\ NewAnim(a).invalid = TRUE
      BY AnimationAssumption DEF NewAnim, Records
    <2>2. anim[a] = NewAnim(a) /\ screen[a] = None
      BY DEF Loaded
    <2> QED BY <1>2, <2>1, <2>2 DEF Bar, BarSound, CanvasFits
  <1>4. ASSUME NEW a \in Timed PROVE CanvasSound(a) /\ Heard(a) /\ Spent(a)
    <2>1. a \in Anims /\ FrameDelay[a] \in Nat /\ screen[a] = None
      BY TimedConstants
    <2>2. NewAnim(a) \in Timeds(a) /\ NewAnim(a).wait = 0
      BY TimedConstants DEF NewAnim, Timeds
    <2>3. anim[a] = IF a \in Timed \ OfService THEN Draw(a, NewAnim(a)) ELSE NewAnim(a)
      BY <2>1 DEF Loaded
    <2>4. /\ a \notin OfService => anim[a].frame # 0
          /\ anim[a].wait > 0 => anim[a].wait <= FrameDelay[a]
          /\ anim[a].wait \in Nat
      <3>1. CASE a \in OfService
        BY <2>2, <2>3, <3>1
      <3>2. CASE a \notin OfService
        <4>1. anim[a] = Draw(a, NewAnim(a))
          BY <2>3, <3>2
        <4>2. anim[a].wait \in Nat
          BY <2>2, <4>1, DrawEffect DEF Timeds
        <4> QED BY <2>2, <4>1, <4>2, DrawnFrame
      <3> QED BY <3>1, <3>2
    <2>5. age[a] = 0
      BY <2>1
    <2> QED BY <1>2, <2>1, <2>4, <2>5 DEF CanvasSound, Heard, Spent
  <1> QED BY <1>1, <1>3, <1>4 DEF SeenInv

\* What is current follows.
LEMMA SeenCurrent == Types /\ SeenInv => ShownIsCurrent
  <1> SUFFICES ASSUME Types, SeenInv, NEW a \in Anims \ (unheard \union frozen),
                      pc = "wait", ~signalled, silent, anim[a].visible
               PROVE  /\ a \notin undrawn => screen[a] # <<0>>
                      /\ a \in Timed /\ anim[a].wait > 0 => age[a] <= FrameDelay[a]
                      /\ a \notin Timed /\ ~anim[a].invalid /\ anim[a].displayed_first =>
                           screen[a] \in {None, <<FrameFor(a, progress)>>}
    BY DEF ShownIsCurrent, FrameFor
  <1>1. Waits
    BY DEF SeenInv
  <1>2. CASE a \in Timed
    <2>1. CanvasSound(a) /\ Heard(a) /\ Spent(a)
      BY <1>2 DEF SeenInv
    <2>2. screen[a] # <<0>>
      BY <2>1 DEF CanvasSound, Heard
    <2>3. ASSUME anim[a].wait > 0 PROVE age[a] <= FrameDelay[a]
      <3>1. age[a] + anim[a].wait <= FrameDelay[a] + elapsed /\ delay <= anim[a].wait
        BY <2>1, <2>3 DEF Heard, Spent
      <3>2. /\ age[a] \in Nat /\ anim[a].wait \in Nat /\ FrameDelay[a] \in Nat
            /\ elapsed \in Nat /\ delay \in Nat /\ elapsed <= delay
        BY <1>1, <1>2, TimedConstants DEF Types, Timeds, Waits
      <3> QED BY <3>1, <3>2
    <2> QED BY <1>2, <2>2, <2>3
  <1>3. CASE a \notin Timed
    <2>1. Bar(a)
      BY <1>3 DEF SeenInv
    <2>2. FrameOf(a, progress) = FrameFor(a, progress)
      BY <1>1, ProportionalFrame DEF Waits
    <2> QED BY <1>3, <2>1, <2>2 DEF Bar, BarSound, CanvasFits, Shown
  <1> QED BY <1>2, <1>3

\* What the silent screen shows of an animation while the thread waits is
\* current, for any animations, whenever commands come: no empty canvas, no frame
\* longer than its time, and of a proportional one the frame for the progress;
\* with the exceptions that ShownIsCurrent names.
THEOREM CurrentTheorem == Spec => []ShownIsCurrent
  <1>1. Types /\ SeenInv /\ [Next]_vars => SeenInv'
    <2> SUFFICES ASSUME Types, SeenInv, [Next]_vars PROVE SeenInv'
      OBVIOUS
    <2>1. Waits'
      BY WaitsStep DEF SeenInv
    <2>2. ASSUME NEW a \in Anims \ Timed
          PROVE  Bar(a)'
      BY BarStep DEF SeenInv
    <2>3. ASSUME NEW a \in Timed PROVE CanvasSound(a)' /\ Heard(a)' /\ Spent(a)'
      BY SeenStep DEF SeenInv
    <2> QED BY <2>1, <2>2, <2>3 DEF SeenInv
  <1>2. IInv => Types
    BY DEF IInv
  <1> QED BY InitSeen, AnimationInvariance, SeenCurrent, <1>1, <1>2, PTL DEF Spec
================================================================================
