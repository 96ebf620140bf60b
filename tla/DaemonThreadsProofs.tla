-------------------------- MODULE DaemonThreadsProofs --------------------------
(***************************************************************************)
(* Proofs about DaemonThreads for any number of key monitors: who holds    *)
(* which mutex at each step of a program, which accesses may overlap, and  *)
(* that no threads wait for each other.                                    *)
(***************************************************************************)
EXTENDS DaemonThreads, SequenceTheorems, TLAPS

Kinds == {"lock", "unlock", "access", "wait", "cancel", "start", "kill", "join", "sigreturn",
          "trytty", "end", "exit"}
Names == {"", "paint", "tty", "anim", "render", "repaint", "leave", "reload", "service", "mode",
          "switch", "choose", "autoverbose", "verbose", "move", "vtty", "gpm", "progress", "message",
          "log", "effects", "settheme", "svcs", "request", "arm", "alarm", "gpmclose", "reopen",
          "textbox", "activate", "watchev", "watchtty", "cleanup", "free"}
StepRecords == [do : Kinds, on : Names]
Programs == Seq(StepRecords)

-----------------------------------------------------------------------------
(* A program p run by a thread that holds the mutexes H                    *)

Locks(s, m)    == s.do = "lock" /\ s.on = m
Releases(s, m) == (s.do = "unlock" /\ s.on = m) \/ (s.do = "wait" /\ m = "anim")

\* The accesses that are made under m.
Under(m) ==
  CASE m = "paint" -> {"render", "repaint", "leave", "reload", "service", "mode", "switch", "choose",
                       "autoverbose"}
    [] m = "tty"   -> {"switch", "verbose", "move", "vtty", "gpm"}
    [] OTHER       -> {}

Needs(s, m) == Releases(s, m) \/ (s.do = "access" /\ s.on \in Under(m))

\* m is not released between the steps j and i.
Kept(p, j, i, m) == \A k \in j+1..i-1 : ~Releases(p[k], m)

\* m is held when step i comes.
Opened(p, i, m)  == \E j \in 1..i-1 : Locks(p[j], m) /\ Kept(p, j, i, m)
Held(p, H, i, m) == Opened(p, i, m) \/ (m \in H /\ Kept(p, 0, i, m))

\* A step that needs a mutex comes when it is held.
Covered(p, H) == \A i \in 1..Len(p), m \in Mutexes : Needs(p[i], m) => Held(p, H, i, m)

\* mtx_paint is taken first, and the end of the signal thread is awaited
\* without a mutex.
Rank(m) == IF m = "paint" THEN 1 ELSE 2

InHandler(p, i) == \E k \in i..Len(p) : p[k].do = "sigreturn"

Ordered(p, H) ==
  \A i \in 1..Len(p) :
    /\ p[i].do \in {"lock", "unlock"} => p[i].on \in Mutexes
    /\ \A m \in Mutexes : Held(p, H, i, m) =>
         /\ p[i].do = "lock" => Rank(m) < Rank(p[i].on) \/ InHandler(p, i)
         /\ p[i].do # "join"

Ends(p, H, G) == \A m \in Mutexes : m \in G <=> Held(p, H, Len(p) + 1, m)

\* p keeps the discipline, from H to G.
Runs(p, H, G) == p \in Programs /\ Covered(p, H) /\ Ordered(p, H) /\ Ends(p, H, G)

Only(p, kinds) == \A i \in 1..Len(p) : p[i].do \in kinds

-----------------------------------------------------------------------------
(* Programs one after another                                              *)

\* The length and the steps of two programs one after the other.
LEMMA ConcatLen ==
  ASSUME NEW p \in Programs, NEW q \in Programs
  PROVE  /\ p \o q \in Programs /\ Len(p \o q) = Len(p) + Len(q)
         /\ Len(p) \in Nat /\ Len(q) \in Nat
         /\ \A i \in 1..Len(p) : (p \o q)[i] = p[i]
         /\ \A i \in 1..Len(q) : (p \o q)[Len(p) + i] = q[i]
         /\ \A i \in 1..Len(p)+Len(q) : \/ i \in 1..Len(p)
                                        \/ \E j \in 1..Len(q) : i = Len(p) + j
  <1>1. Len(p) \in Nat /\ Len(q) \in Nat
    BY DEF Programs
  <1>2. ASSUME NEW i \in 1..Len(p)+Len(q), i \notin 1..Len(p)
        PROVE  i - Len(p) \in 1..Len(q) /\ i = Len(p) + (i - Len(p))
    BY <1>1, <1>2
  <1> QED BY SMTT(30), <1>1, <1>2 DEF Programs

\* What is held at a step of two programs one after the other, where G is what
\* the first ends with.
LEMMA ConcatHeld ==
  ASSUME NEW p \in Programs, NEW q \in Programs, NEW H, NEW m, NEW G,
         m \in G <=> Held(p, H, Len(p) + 1, m)
  PROVE  /\ \A i \in 1..Len(p)+1 : Held(p \o q, H, i, m) <=> Held(p, H, i, m)
         /\ \A i \in 1..Len(q)+1 : Held(p \o q, H, Len(p) + i, m) <=> Held(q, G, i, m)
  <1> DEFINE r == p \o q
             n == Len(p)
  <1>1. /\ n \in Nat /\ Len(q) \in Nat
        /\ \A i \in 1..n : r[i] = p[i]
        /\ \A i \in 1..Len(q) : r[n + i] = q[i]
    BY DEF Programs
  <1> HIDE DEF r, n
  <1>2. ASSUME NEW i \in 1..n+1, NEW j \in 0..i-1
        PROVE  Kept(r, j, i, m) <=> Kept(p, j, i, m)
    <2>1. \A k \in j+1..i-1 : k \in 1..n
      BY <1>1, <1>2
    <2> QED BY <1>1, <2>1 DEF Kept
  <1>3. ASSUME NEW i \in 1..n+1
        PROVE  Held(r, H, i, m) <=> Held(p, H, i, m)
    <2>1. \A j \in 1..i-1 : j \in 1..n /\ j \in 0..i-1
      BY <1>1, <1>3
    <2>2. 0 \in 0..i-1
      BY <1>1, <1>3
    <2> QED BY <1>1, <1>2, <2>1, <2>2 DEF Held, Opened
  <1>4. ASSUME NEW i \in 1..Len(q)+1, NEW j \in 0..i-1
        PROVE  Kept(r, n + j, n + i, m) <=> Kept(q, j, i, m)
    <2>1. \A k \in (n+j)+1..(n+i)-1 : k - n \in j+1..i-1 /\ r[k] = q[k - n]
      <3>1. \A k \in (n+j)+1..(n+i)-1 : k - n \in j+1..i-1 /\ k - n \in 1..Len(q) /\ k = n + (k - n)
        BY <1>1, <1>4
      <3> QED BY <1>1, <3>1
    <2>2. \A k \in j+1..i-1 : n + k \in (n+j)+1..(n+i)-1 /\ r[n + k] = q[k]
      <3>1. \A k \in j+1..i-1 : n + k \in (n+j)+1..(n+i)-1 /\ k \in 1..Len(q)
        BY <1>1, <1>4
      <3> QED BY <1>1, <3>1
    <2> QED BY <2>1, <2>2 DEF Kept
  <1>5. ASSUME NEW i \in 1..Len(q)+1, NEW j \in 0..n
        PROVE  Kept(r, j, n + i, m) <=> Kept(p, j, n + 1, m) /\ Kept(q, 0, i, m)
    <2>1. Kept(r, n, n + i, m) <=> Kept(q, 0, i, m)
      <3>1. 0 \in 0..i-1 /\ n + 0 = n
        BY <1>1, <1>5
      <3> QED BY <1>4, <3>1
    <2>2. Kept(r, j, n + 1, m) <=> Kept(p, j, n + 1, m)
      <3>1. j \in 0..(n+1)-1 /\ n + 1 \in 1..n+1
        BY <1>1, <1>5
      <3> QED BY <1>2, <3>1
    <2>3. \A k : k \in j+1..(n+i)-1 <=> k \in j+1..(n+1)-1 \/ k \in n+1..(n+i)-1
      BY <1>1, <1>5
    <2> QED BY <2>1, <2>2, <2>3 DEF Kept
  <1>6. ASSUME NEW i \in 1..Len(q)+1
        PROVE  Held(r, H, n + i, m) <=> Held(q, G, i, m)
    <2>1. (m \in H /\ Kept(r, 0, n + i, m)) <=> (m \in H /\ Kept(p, 0, n + 1, m) /\ Kept(q, 0, i, m))
      <3>1. 0 \in 0..n
        BY <1>1
      <3> QED BY <1>5, <3>1
    <2>2. ASSUME NEW j \in 1..(n+i)-1, Locks(r[j], m), Kept(r, j, n + i, m)
          PROVE  Opened(q, i, m) \/ (Opened(p, n + 1, m) /\ Kept(q, 0, i, m))
      <3>1. CASE j \in 1..n
        <4>1. j \in 0..n /\ j \in 1..(n+1)-1 /\ r[j] = p[j]
          BY <1>1, <3>1
        <4> QED BY <1>5, <2>2, <4>1 DEF Opened
      <3>2. CASE j \notin 1..n
        <4>1. j - n \in 1..i-1 /\ j - n \in 0..i-1 /\ n + (j - n) = j /\ j - n \in 1..Len(q)
          BY <1>1, <1>6, <2>2, <3>2
        <4>2. r[j] = q[j - n]
          BY <1>1, <4>1
        <4> QED BY <1>4, <2>2, <4>1, <4>2 DEF Opened
      <3> QED BY <3>1, <3>2
    <2>3. ASSUME NEW j \in 1..i-1, Locks(q[j], m), Kept(q, j, i, m)
          PROVE  Opened(r, n + i, m)
      <3>1. n + j \in 1..(n+i)-1 /\ j \in 0..i-1 /\ j \in 1..Len(q)
        BY <1>1, <1>6, <2>3
      <3> QED BY <1>1, <1>4, <2>3, <3>1 DEF Opened
    <2>4. ASSUME NEW j \in 1..(n+1)-1, Locks(p[j], m), Kept(p, j, n + 1, m), Kept(q, 0, i, m)
          PROVE  Opened(r, n + i, m)
      <3>1. j \in 0..n /\ j \in 1..n /\ j \in 1..(n+i)-1
        BY <1>1, <1>6, <2>4
      <3> QED BY <1>1, <1>5, <2>4, <3>1 DEF Opened
    <2>5. m \in G <=> Opened(p, n + 1, m) \/ (m \in H /\ Kept(p, 0, n + 1, m))
      BY DEF Held, n
    <2>6. Opened(r, n + i, m) <=> Opened(q, i, m) \/ (Opened(p, n + 1, m) /\ Kept(q, 0, i, m))
      BY <2>2, <2>3, <2>4 DEF Opened
    <2> QED BY <2>1, <2>5, <2>6 DEF Held
  <1> QED BY <1>3, <1>6 DEF r, n

\* A program that keeps the discipline from H to G and one that keeps it from G
\* to K keep it from H to K.
LEMMA Concat ==
  ASSUME NEW p \in Programs, NEW q \in Programs, NEW H, NEW G, NEW K, Ends(p, H, G)
  PROVE  /\ Covered(p, H) /\ Covered(q, G) => Covered(p \o q, H)
         /\ Ordered(p, H) /\ Ordered(q, G) => Ordered(p \o q, H)
         /\ Ends(q, G, K) => Ends(p \o q, H, K)
         /\ Runs(p, H, G) /\ Runs(q, G, K) => Runs(p \o q, H, K)
         /\ \A kinds : Only(p, kinds) /\ Only(q, kinds) => Only(p \o q, kinds)
  <1> DEFINE r == p \o q
             n == Len(p)
  <1>1. /\ Len(r) = n + Len(q) /\ n \in Nat /\ Len(q) \in Nat /\ r \in Programs
        /\ \A i \in 1..n : r[i] = p[i]
        /\ \A i \in 1..Len(q) : r[n + i] = q[i]
        /\ \A i \in 1..Len(r) : i \in 1..n \/ \E j \in 1..Len(q) : i = n + j
    <2>1. /\ Len(r) = n + Len(q) /\ n \in Nat /\ Len(q) \in Nat /\ r \in Programs
          /\ \A i \in 1..n : r[i] = p[i]
          /\ \A i \in 1..Len(q) : r[n + i] = q[i]
      BY ConcatLen
    <2>2. \A i \in 1..n+Len(q) : i \in 1..n \/ \E j \in 1..Len(q) : i = n + j
      BY ConcatLen
    <2> QED BY <2>1, <2>2
  <1>2. /\ \A m \in Mutexes : \A i \in 1..n : Held(r, H, i, m) <=> Held(p, H, i, m)
        /\ \A m \in Mutexes : \A i \in 1..Len(q)+1 : Held(r, H, n + i, m) <=> Held(q, G, i, m)
    <2>1. \A i \in 1..n : i \in 1..n+1
      BY <1>1
    <2> QED BY <1>1, <2>1, ConcatHeld DEF Ends
  <1> HIDE DEF r, n
  <1>3. ASSUME Covered(p, H), Covered(q, G) PROVE Covered(r, H)
    <2>1. ASSUME NEW i \in 1..n, NEW m \in Mutexes, Needs(r[i], m) PROVE Held(r, H, i, m)
      BY <1>1, <1>2, <1>3, <2>1 DEF Covered, n
    <2>2. ASSUME NEW i \in 1..Len(q), NEW m \in Mutexes, Needs(r[n + i], m)
          PROVE  Held(r, H, n + i, m)
      <3>1. i \in 1..Len(q)+1 /\ Held(q, G, i, m)
        BY <1>1, <1>3, <2>2 DEF Covered
      <3> QED BY <1>2, <3>1
    <2> QED BY <1>1, <2>1, <2>2 DEF Covered
  <1>4. ASSUME Ordered(p, H), Ordered(q, G) PROVE Ordered(r, H)
    <2>1. ASSUME NEW i \in 1..n, NEW m \in Mutexes, Held(r, H, i, m)
          PROVE  /\ r[i].do = "lock" => Rank(m) < Rank(r[i].on) \/ InHandler(r, i)
                 /\ r[i].do # "join"
      <3>1. InHandler(p, i) => InHandler(r, i)
        <4>1. \A k \in i..n : k \in i..Len(r) /\ r[k] = p[k]
          BY <1>1, <2>1
        <4> QED BY <4>1 DEF InHandler, n
      <3> QED BY <1>1, <1>2, <1>4, <2>1, <3>1 DEF Ordered, n
    <2>2. ASSUME NEW i \in 1..Len(q), NEW m \in Mutexes, Held(r, H, n + i, m)
          PROVE  /\ r[n + i].do = "lock" => Rank(m) < Rank(r[n + i].on) \/ InHandler(r, n + i)
                 /\ r[n + i].do # "join"
      <3>1. InHandler(q, i) => InHandler(r, n + i)
        <4>1. \A k \in i..Len(q) : n + k \in n+i..Len(r) /\ r[n + k] = q[k]
          BY <1>1, <2>2
        <4> QED BY <4>1 DEF InHandler
      <3>2. i \in 1..Len(q)+1 /\ Held(q, G, i, m)
        BY <1>1, <1>2, <2>2
      <3> QED BY <1>1, <1>4, <3>1, <3>2 DEF Ordered
    <2>3. \A i \in 1..Len(r) : r[i].do \in {"lock", "unlock"} => r[i].on \in Mutexes
      BY <1>1, <1>4 DEF Ordered, n
    <2> QED BY <1>1, <2>1, <2>2, <2>3 DEF Ordered
  <1>5. ASSUME Ends(q, G, K) PROVE Ends(r, H, K)
    <2>1. Len(q) + 1 \in 1..Len(q)+1 /\ n + (Len(q) + 1) = Len(r) + 1
      BY <1>1
    <2> QED BY <1>2, <1>5, <2>1 DEF Ends
  <1>6. \A kinds : Only(p, kinds) /\ Only(q, kinds) => Only(r, kinds)
    BY <1>1 DEF Only, n
  <1>7. Runs(p, H, G) /\ Runs(q, G, K) => Runs(r, H, K)
    BY <1>1, <1>3, <1>4, <1>5 DEF Runs
  <1> QED BY <1>3, <1>4, <1>5, <1>6, <1>7 DEF r

-----------------------------------------------------------------------------
(* A program that goes on                                                  *)

\* What is held after a step of a program.
LEMMA Advance ==
  ASSUME NEW p \in Programs, p # <<>>, NEW q, q = Tail(p), NEW H, NEW G,
         \A m \in Mutexes : m \in G <=> Locks(p[1], m) \/ (m \in H /\ ~Releases(p[1], m))
  PROVE  /\ q \in Programs /\ Len(q) = Len(p) - 1 /\ \A i \in 1..Len(q) : q[i] = p[i + 1]
         /\ Covered(p, H) => Covered(q, G)
         /\ Ordered(p, H) => Ordered(q, G)
         /\ \A K : Ends(p, H, K) => Ends(q, G, K)
  <1>1. /\ q \in Programs /\ Len(q) = Len(p) - 1 /\ Len(p) \in Nat \ {0} /\ Len(q) \in Nat
        /\ \A i \in 1..Len(q) : q[i] = p[i + 1]
    BY HeadTailProperties DEF Programs
  <1>2. ASSUME NEW i \in 1..Len(q)+1, NEW j \in 0..i-1, NEW m
        PROVE  Kept(q, j, i, m) <=> Kept(p, j + 1, i + 1, m)
    <2>1. /\ \A k \in j+1..i-1 : k + 1 \in (j+1)+1..(i+1)-1 /\ k \in 1..Len(q)
          /\ \A k \in (j+1)+1..(i+1)-1 : k - 1 \in j+1..i-1 /\ (k - 1) + 1 = k /\ k - 1 \in 1..Len(q)
      BY <1>1, <1>2
    <2> QED BY <1>1, <2>1 DEF Kept
  <1>3. ASSUME NEW i \in 1..Len(q)+1, NEW m
        PROVE  Kept(p, 0, i + 1, m) <=> ~Releases(p[1], m) /\ Kept(q, 0, i, m)
    <2>1. \A k : k \in 0+1..(i+1)-1 <=> k = 1 \/ k \in (0+1)+1..(i+1)-1
      BY <1>1, <1>3
    <2>2. 0 \in 0..i-1
      BY <1>1, <1>3
    <2>3. Kept(p, 0, i + 1, m) <=> ~Releases(p[1], m) /\ Kept(p, 0 + 1, i + 1, m)
      BY <2>1 DEF Kept
    <2> QED BY <1>2, <2>2, <2>3
  <1>4. ASSUME NEW i \in 1..Len(q)+1, NEW m \in Mutexes
        PROVE  Held(q, G, i, m) <=> Held(p, H, i + 1, m)
    <2>1. \A j : j \in 1..(i+1)-1 <=> j = 1 \/ \E k \in 1..i-1 : j = k + 1
      <3>1. ASSUME NEW j \in 1..(i+1)-1, j # 1 PROVE j - 1 \in 1..i-1 /\ j = (j - 1) + 1
        BY <1>1, <1>4, <3>1
      <3>2. 1 \in 1..(i+1)-1 /\ \A k \in 1..i-1 : k + 1 \in 1..(i+1)-1
        BY <1>1, <1>4
      <3> QED BY <3>1, <3>2
    <2>2. \A k \in 1..i-1 : /\ q[k] = p[k + 1]
                            /\ Kept(q, k, i, m) <=> Kept(p, k + 1, i + 1, m)
      <3>1. \A k \in 1..i-1 : k \in 1..Len(q) /\ k \in 0..i-1
        BY <1>1, <1>4
      <3> QED BY <1>1, <1>2, <3>1
    <2>3. Opened(p, i + 1, m) <=> (Locks(p[1], m) /\ Kept(p, 1, i + 1, m)) \/ Opened(q, i, m)
      BY <2>1, <2>2 DEF Opened
    <2>4. Kept(p, 1, i + 1, m) <=> Kept(q, 0, i, m)
      <3>1. 0 \in 0..i-1 /\ 0 + 1 = 1
        BY <1>1, <1>4
      <3> QED BY <1>2, <3>1
    <2> QED BY <1>3, <2>3, <2>4 DEF Held
  <1>5. \A i \in 1..Len(q) : i + 1 \in 1..Len(p) /\ i \in 1..Len(q)+1
    BY <1>1
  <1>6. ASSUME NEW i \in 1..Len(q) PROVE InHandler(q, i) <=> InHandler(p, i + 1)
    <2>1. /\ \A k \in i..Len(q) : k + 1 \in i+1..Len(p) /\ k \in 1..Len(q)
          /\ \A k \in i+1..Len(p) : k - 1 \in i..Len(q) /\ k - 1 \in 1..Len(q) /\ (k - 1) + 1 = k
      BY <1>1, <1>6
    <2> QED BY <1>1, <2>1 DEF InHandler
  <1>7. Covered(p, H) => Covered(q, G)
    BY <1>1, <1>4, <1>5 DEF Covered
  <1>8. Ordered(p, H) => Ordered(q, G)
    BY <1>1, <1>4, <1>5, <1>6 DEF Ordered
  <1>9. ASSUME NEW K, Ends(p, H, K) PROVE Ends(q, G, K)
    <2>1. Len(q) + 1 \in 1..Len(q)+1 /\ (Len(q) + 1) + 1 = Len(p) + 1
      BY <1>1
    <2> QED BY <1>4, <1>9, <2>1 DEF Ends
  <1> QED BY <1>1, <1>7, <1>8, <1>9

-----------------------------------------------------------------------------
(* The programs                                                            *)

\* What is held when a program starts, and after each of its steps.
LEMMA HeldStep ==
  ASSUME NEW p, NEW H, NEW m
  PROVE  /\ Held(p, H, 1, m) <=> m \in H
         /\ \A i \in Nat \ {0} :
              Held(p, H, i + 1, m) <=> Locks(p[i], m) \/ (Held(p, H, i, m) /\ ~Releases(p[i], m))
  <1>1. 1..1-1 = {} /\ 0+1..1-1 = {}
    OBVIOUS
  <1>2. Held(p, H, 1, m) <=> m \in H
    BY <1>1 DEF Held, Opened, Kept
  <1>3. ASSUME NEW i \in Nat \ {0}
        PROVE  Held(p, H, i + 1, m) <=> Locks(p[i], m) \/ (Held(p, H, i, m) /\ ~Releases(p[i], m))
    <2>1. ASSUME NEW j \in 0..i-1 PROVE Kept(p, j, i + 1, m) <=> Kept(p, j, i, m) /\ ~Releases(p[i], m)
      <3>1. \A k : k \in j+1..(i+1)-1 <=> k \in j+1..i-1 \/ k = i
        BY <1>3, <2>1
      <3> QED BY <3>1 DEF Kept
    <2>2. Kept(p, i, i + 1, m)
      <3>1. i+1..(i+1)-1 = {}
        BY <1>3
      <3> QED BY <3>1 DEF Kept
    <2>3. \A j : j \in 1..(i+1)-1 <=> j \in 1..i-1 \/ j = i
      BY <1>3
    <2>4. 0 \in 0..i-1 /\ \A j \in 1..i-1 : j \in 0..i-1
      BY <1>3
    <2>5. Opened(p, i + 1, m) <=> Locks(p[i], m) \/ (Opened(p, i, m) /\ ~Releases(p[i], m))
      BY <2>1, <2>2, <2>3, <2>4 DEF Opened
    <2> QED BY <2>1, <2>4, <2>5 DEF Held
  <1> QED BY <1>2, <1>3

\* The steps that the programs of DaemonThreads are built from are programs.
LEMMA StepTypes ==
  /\ \A m \in Names : Lock(m) = <<[do |-> "lock", on |-> m]>> /\ Lock(m) \in Programs
  /\ \A m \in Names : Unlock(m) = <<[do |-> "unlock", on |-> m]>> /\ Unlock(m) \in Programs
  /\ \A a \in Names : Access(a) = <<[do |-> "access", on |-> a]>> /\ Access(a) \in Programs
  /\ \A k \in Kinds : Special(k) = <<[do |-> k, on |-> ""]>> /\ Special(k) \in Programs
  /\ Mutexes \subseteq Names
  <1>1. \A k \in Kinds, n \in Names : [do |-> k, on |-> n] \in StepRecords
    BY DEF StepRecords
  <1>2. \A s \in StepRecords : <<s>> \in Programs
    BY DEF Programs
  <1>3. {"lock", "unlock", "access"} \subseteq Kinds /\ "" \in Names
    BY DEF Kinds, Names
  <1>4. Mutexes \subseteq Names
    BY DEF Mutexes, Names
  <1> QED BY <1>1, <1>2, <1>3, <1>4 DEF Lock, Unlock, Access, Special

\* A program of three steps, and one of four.
LEMMA ThreeSteps ==
  ASSUME NEW S, NEW a \in S, NEW b \in S, NEW c \in S
  PROVE  /\ Len(<<a>> \o <<b>> \o <<c>>) = 3 /\ <<a>> \o <<b>> \o <<c>> \in Seq(S)
         /\ (<<a>> \o <<b>> \o <<c>>)[1] = a
         /\ (<<a>> \o <<b>> \o <<c>>)[2] = b
         /\ (<<a>> \o <<b>> \o <<c>>)[3] = c
  OBVIOUS

LEMMA FourSteps ==
  ASSUME NEW S, NEW a \in S, NEW b \in S, NEW c \in S, NEW d \in S
  PROVE  /\ Len(<<a>> \o <<b>> \o <<c>> \o <<d>>) = 4
         /\ <<a>> \o <<b>> \o <<c>> \o <<d>> \in Seq(S)
         /\ (<<a>> \o <<b>> \o <<c>> \o <<d>>)[1] = a
         /\ (<<a>> \o <<b>> \o <<c>> \o <<d>>)[2] = b
         /\ (<<a>> \o <<b>> \o <<c>> \o <<d>>)[3] = c
         /\ (<<a>> \o <<b>> \o <<c>> \o <<d>>)[4] = d
  OBVIOUS

\* A program of one step.
LEMMA OneStep ==
  ASSUME NEW s \in StepRecords, s.do \in {"lock", "unlock"} => s.on \in Mutexes, NEW H, NEW G,
         \A m \in Mutexes : m \in G <=> Locks(s, m) \/ (m \in H /\ ~Releases(s, m)),
         \A m \in Mutexes : Needs(s, m) => m \in H
  PROVE  /\ <<s>> \in Programs /\ Covered(<<s>>, H) /\ Ends(<<s>>, H, G) /\ Only(<<s>>, {s.do})
         /\ (\A m \in Mutexes : m \in H => /\ s.do = "lock" => Rank(m) < Rank(s.on)
                                           /\ s.do # "join")
              => Ordered(<<s>>, H) /\ Runs(<<s>>, H, G)
  <1> DEFINE p == <<s>>
  <1>1. p \in Programs /\ Len(p) = 1 /\ p[1] = s /\ \A i \in 1..1 : i = 1
    BY DEF Programs
  <1> HIDE DEF p
  <1>2. \A m \in Mutexes : Held(p, H, 1, m) <=> m \in H
    BY HeldStep
  <1>3. \A m \in Mutexes : Held(p, H, 1 + 1, m) <=> m \in G
    BY <1>1, <1>2, HeldStep
  <1>4. Covered(p, H) /\ Ends(p, H, G) /\ Only(p, {s.do})
    BY <1>1, <1>2, <1>3 DEF Covered, Ends, Only
  <1>5. ASSUME \A m \in Mutexes : m \in H => /\ s.do = "lock" => Rank(m) < Rank(s.on)
                                             /\ s.do # "join"
        PROVE  Ordered(p, H) /\ Runs(p, H, G)
    BY <1>1, <1>2, <1>4, <1>5 DEF Ordered, Runs
  <1> QED BY <1>1, <1>4, <1>5 DEF p

\* The steps of DaemonThreads.
LEMMA RunLock ==
  ASSUME NEW m \in Mutexes, NEW H, \A n \in H : Rank(n) < Rank(m)
  PROVE  Runs(Lock(m), H, H \union {m}) /\ Only(Lock(m), {"lock"})
  <1> DEFINE s == [do |-> "lock", on |-> m]
  <1>1. s \in StepRecords /\ Lock(m) = <<s>> /\ s.do = "lock" /\ s.on = m
    BY StepTypes DEF StepRecords, Kinds, Lock
  <1> HIDE DEF s
  <1> QED BY <1>1, OneStep DEF Locks, Releases, Needs

\* pthread_mutex_unlock of a mutex that is held.
LEMMA RunUnlock ==
  ASSUME NEW m \in Mutexes, NEW H, m \in H
  PROVE  Runs(Unlock(m), H, H \ {m}) /\ Only(Unlock(m), {"unlock"})
  <1> DEFINE s == [do |-> "unlock", on |-> m]
  <1>1. s \in StepRecords /\ Unlock(m) = <<s>> /\ s.do = "unlock" /\ s.on = m
    BY StepTypes DEF StepRecords, Kinds, Unlock
  <1> HIDE DEF s
  <1> QED BY <1>1, OneStep DEF Locks, Releases, Needs

\* An access, under the mutexes it is made under.
LEMMA RunAccess ==
  ASSUME NEW a \in Names, NEW H, \A m \in Mutexes : a \in Under(m) => m \in H
  PROVE  Runs(Access(a), H, H) /\ Only(Access(a), {"access"})
  <1> DEFINE s == [do |-> "access", on |-> a]
  <1>1. s \in StepRecords /\ Access(a) = <<s>> /\ s.do = "access" /\ s.on = a
    BY StepTypes DEF StepRecords, Kinds, Access
  <1> HIDE DEF s
  <1> QED BY <1>1, OneStep DEF Locks, Releases, Needs

\* The other steps change nothing that is held; no thread is joined with a mutex.
LEMMA RunSpecial ==
  ASSUME NEW k \in Kinds \ {"lock", "unlock", "access", "wait"}, NEW H, k = "join" => H = {}
  PROVE  Runs(Special(k), H, H) /\ Only(Special(k), {k})
  <1> DEFINE s == [do |-> k, on |-> ""]
  <1>1. s \in StepRecords /\ Special(k) = <<s>> /\ s.do = k
    BY StepTypes DEF StepRecords, Names, Special
  <1> HIDE DEF s
  <1> QED BY <1>1, OneStep DEF Locks, Releases, Needs

\* pthread_cond_timedwait gives up mtx_anim.
LEMMA RunWait ==
  Runs(Special("wait"), {"anim"}, {}) /\ Only(Special("wait"), {"wait"})
  <1> DEFINE s == [do |-> "wait", on |-> ""]
  <1>1. s \in StepRecords /\ Special("wait") = <<s>> /\ s.do = "wait"
    BY DEF StepRecords, Names, Special, Kinds
  <1> HIDE DEF s
  <1> QED BY <1>1, OneStep DEF Locks, Releases, Needs

Does(p, H, G, kinds) == Runs(p, H, G) /\ Only(p, kinds)

\* Programs one after the other, with the kinds of their steps.
LEMMA Then ==
  ASSUME NEW p, NEW q, NEW H, NEW G, NEW K, NEW kinds,
         Does(p, H, G, kinds), Does(q, G, K, kinds)
  PROVE  Does(p \o q, H, K, kinds)
  <1>1. p \in Programs /\ q \in Programs /\ Ends(p, H, G)
    BY DEF Runs, Does
  <1> QED BY <1>1, Concat DEF Does

\* A program may be said to use more kinds of steps than it does.
LEMMA More ==
  ASSUME NEW p, NEW H, NEW G, NEW J, NEW K, Does(p, H, G, J), J \subseteq K
  PROVE  Does(p, H, G, K)
  BY DEF Does, Only

Plain == {"lock", "unlock", "access"}

\* The locks, unlocks and accesses of the programs, at the mutexes held there.
LEMMA PlainSteps ==
  ASSUME NEW K, Plain \subseteq K
  PROVE  /\ Does(Lock("paint"), {}, {"paint"}, K) /\ Does(Unlock("paint"), {"paint"}, {}, K)
         /\ Does(Lock("tty"), {}, {"tty"}, K) /\ Does(Unlock("tty"), {"tty"}, {}, K)
         /\ Does(Lock("anim"), {}, {"anim"}, K) /\ Does(Unlock("anim"), {"anim"}, {}, K)
         /\ Does(Lock("tty"), {"paint"}, {"paint", "tty"}, K)
         /\ Does(Unlock("tty"), {"paint", "tty"}, {"paint"}, K)
         /\ Does(Lock("anim"), {"paint"}, {"paint", "anim"}, K)
         /\ Does(Unlock("anim"), {"paint", "anim"}, {"paint"}, K)
         /\ \A a \in Names \ Under("tty") : Does(Access(a), {"paint"}, {"paint"}, K)
         /\ \A a \in Names \ Under("paint") : Does(Access(a), {"tty"}, {"tty"}, K)
         /\ \A a \in Names \ (Under("paint") \union Under("tty")) : Does(Access(a), {}, {}, K)
         /\ \A a \in Names : Does(Access(a), {"paint", "tty"}, {"paint", "tty"}, K)
  <1>1. {"lock"} \subseteq K /\ {"unlock"} \subseteq K /\ {"access"} \subseteq K
    BY DEF Plain
  <1>2. {"paint", "tty", "anim"} \subseteq Mutexes
    BY DEF Mutexes
  <1>3. ASSUME NEW m \in Mutexes, NEW H, \A n \in H : Rank(n) < Rank(m), NEW G, G = H \union {m}
        PROVE  Does(Lock(m), H, G, K)
    BY <1>1, <1>3, RunLock, More DEF Does
  <1>4. ASSUME NEW m \in Mutexes, NEW H, m \in H, NEW G, G = H \ {m}
        PROVE  Does(Unlock(m), H, G, K)
    BY <1>1, <1>4, RunUnlock, More DEF Does
  <1>5. ASSUME NEW a \in Names, NEW H,
               a \in Under("paint") => "paint" \in H, a \in Under("tty") => "tty" \in H
        PROVE  Does(Access(a), H, H, K)
    <2>1. \A m \in Mutexes : a \in Under(m) => m \in H
      BY <1>5 DEF Mutexes, Under
    <2> QED BY <1>1, <2>1, RunAccess, More DEF Does
  <1>6. Rank("paint") < Rank("tty") /\ Rank("paint") < Rank("anim")
    BY DEF Rank
  <1>7. /\ {"paint", "tty"} = {"paint"} \union {"tty"} /\ {"paint", "tty"} \ {"tty"} = {"paint"}
        /\ {"paint", "anim"} = {"paint"} \union {"anim"} /\ {"paint", "anim"} \ {"anim"} = {"paint"}
        /\ \A m : {m} = {} \union {m} /\ {m} \ {m} = {}
    OBVIOUS
  <1>8. /\ Does(Lock("paint"), {}, {"paint"}, K) /\ Does(Lock("tty"), {}, {"tty"}, K)
        /\ Does(Lock("anim"), {}, {"anim"}, K)
    BY <1>2, <1>3, <1>7
  <1>9. /\ Does(Lock("tty"), {"paint"}, {"paint", "tty"}, K)
        /\ Does(Lock("anim"), {"paint"}, {"paint", "anim"}, K)
    BY <1>2, <1>3, <1>6, <1>7
  <1>10. /\ Does(Unlock("paint"), {"paint"}, {}, K) /\ Does(Unlock("tty"), {"tty"}, {}, K)
         /\ Does(Unlock("anim"), {"anim"}, {}, K)
         /\ Does(Unlock("tty"), {"paint", "tty"}, {"paint"}, K)
         /\ Does(Unlock("anim"), {"paint", "anim"}, {"paint"}, K)
    BY <1>2, <1>4, <1>7
  <1> QED BY <1>5, <1>8, <1>9, <1>10

\* Steps that neither take, leave nor need a mutex.
LEMMA SpecialSteps ==
  ASSUME NEW k \in Kinds \ {"lock", "unlock", "access", "wait", "join"}, NEW H, NEW K, k \in K
  PROVE  Does(Special(k), H, H, K)
  BY RunSpecial, More DEF Does

\* A paint under mtx_paint holds nothing before and after.
LEMMA RunPainting ==
  ASSUME NEW a \in Names \ Under("tty"), NEW K, Plain \subseteq K
  PROVE  Does(Painting(a), {}, {}, K)
  BY PlainSteps, Then DEF Painting

\* So does an access under mtx_tty.
LEMMA RunConsole ==
  ASSUME NEW a \in Names \ Under("paint"), NEW K, Plain \subseteq K
  PROVE  Does(Console(a), {}, {}, K)
  BY PlainSteps, Then DEF Console

\* process_switch_sig leaves every mutex it takes.
LEMMA RunSwitch == Does(SwitchProg, {}, {}, Plain)
  <1>1. "switch" \in Names
    BY DEF Names
  <1>2. Does(Console("switch"), {"paint"}, {"paint"}, Plain)
    BY <1>1, PlainSteps, Then DEF Console
  <1> QED BY <1>2, PlainSteps, Then DEF SwitchProg

\* Everything the signal handler thread does keeps the discipline.
LEMMA RunSignal == \A p \in SignalProgs : Does(p, {}, {}, Plain)
  <1>1. {"mode", "repaint", "reload"} \subseteq Names \ Under("tty")
    BY DEF Names, Under
  <1>2. Does(Painting("repaint"), {}, {}, Plain) /\ Does(Painting("mode"), {}, {}, Plain)
    BY <1>1, RunPainting
  <1>3. Does(SwitchProg \o Painting("mode") \o Painting("repaint"), {}, {}, Plain)
    BY <1>2, RunSwitch, Then
  <1>4. Does(SwitchProg \o Lock("paint") \o Access("mode") \o Access("reload") \o Unlock("paint"), {}, {}, Plain)
    BY <1>1, RunSwitch, PlainSteps, Then
  <1> QED BY <1>2, <1>3, <1>4, RunSwitch, Then DEF SignalProgs

\* A turn of thf_anim keeps the discipline.
LEMMA RunAnim == Does(AnimProg, {}, {}, Plain \union {"wait"})
  <1> DEFINE K == Plain \union {"wait"}
  <1>1. "render" \in Names \ Under("tty") /\ Plain \subseteq K
    BY DEF Names, Under
  <1>2. Does(Painting("render"), {}, {}, K)
    BY <1>1, RunPainting
  <1>3. Does(Special("wait"), {"anim"}, {}, K)
    BY RunWait, More DEF Does
  <1> HIDE DEF K
  <1>4. Does(AnimProg, {}, {}, K)
    BY <1>1, <1>2, <1>3, PlainSteps, Then DEF AnimProg
  <1> QED BY <1>4 DEF K

\* The key monitor keeps the discipline, for every key and either device.
LEMMA RunKey ==
  ASSUME NEW key, NEW evdev
  PROVE  Does(KeyProg(key, evdev), {}, {}, Plain)
  <1>1. /\ {"render", "choose"} \subseteq Names \ Under("tty") /\ "verbose" \in Names \ Under("paint")
        /\ {"textbox", "activate"} \subseteq Names \ (Under("paint") \union Under("tty"))
    BY DEF Names, Under
  <1>2. Does(Painting("render"), {}, {}, Plain) /\ Does(Painting("choose"), {}, {}, Plain)
    BY <1>1, RunPainting
  <1>3. Does(Access("textbox") \o Painting("render"), {}, {}, Plain)
    BY <1>1, <1>2, PlainSteps, Then
  <1>4. Does(Painting("choose") \o Access("activate"), {}, {}, Plain)
    BY <1>1, <1>2, PlainSteps, Then
  <1>5. Does(Console("verbose"), {}, {}, Plain)
    BY <1>1, RunConsole
  <1> QED BY <1>3, <1>4, <1>5 DEF KeyProg

MainKinds == Plain \union {"cancel", "kill", "join", "exit"}

\* cmd_exit keeps the discipline: it joins the signal handler with no mutex held.
LEMMA RunExit == Does(ExitProg, {}, {}, MainKinds)
  <1>1. /\ "leave" \in Names \ Under("tty") /\ "free" \in Names \ (Under("paint") \union Under("tty"))
        /\ Plain \subseteq MainKinds
    BY DEF Names, Under, MainKinds
  <1>2. Does(Painting("leave"), {}, {}, MainKinds)
    BY <1>1, RunPainting
  <1>3. \A k \in {"cancel", "kill", "exit"} : Does(Special(k), {}, {}, MainKinds)
    BY SpecialSteps DEF MainKinds, Kinds
  <1>4. Does(Special("join"), {}, {}, MainKinds)
    <2>1. "join" \in Kinds \ {"lock", "unlock", "access", "wait"} /\ {"join"} \subseteq MainKinds
      BY DEF Kinds, MainKinds
    <2>2. Does(Special("join"), {}, {}, {"join"})
      BY <2>1, RunSpecial DEF Does
    <2> QED BY <2>1, <2>2, More
  <1> QED BY <1>1, <1>2, <1>3, <1>4, PlainSteps, Then DEF ExitProg

\* Every command keeps the discipline.
LEMMA RunCommand ==
  /\ \A c \in Commands \ {"evdev"} : Does(CommandProg(c), {}, {}, MainKinds)
  /\ Does(CommandProg("evdev"), {}, {}, MainKinds \union {"start"})
  <1>1. /\ {"render", "repaint", "reload", "service"} \subseteq Names \ Under("tty")
        /\ {"move", "gpm", "vtty"} \subseteq Names \ Under("paint")
        /\ {"progress", "message", "log", "effects", "svcs", "settheme", "request", "arm", "gpmclose",
            "reopen"} \subseteq Names \ (Under("paint") \union Under("tty"))
        /\ Plain \subseteq MainKinds
    BY DEF Names, Under, MainKinds
  <1>2. \A a \in {"render", "repaint", "reload"} : Does(Painting(a), {}, {}, MainKinds)
    BY <1>1, RunPainting
  <1>3. \A H : Does(Special("cancel"), H, H, MainKinds)
    BY SpecialSteps DEF MainKinds, Kinds
  <1>4. Does(Access("svcs") \o Lock("paint") \o Access("service") \o Lock("anim") \o Unlock("anim")
             \o Unlock("paint"), {}, {}, MainKinds)
    BY <1>1, PlainSteps, Then
  <1>5. \A a \in {"vtty", "gpm"} : Does(Console(a), {}, {}, MainKinds)
    BY <1>1, RunConsole
  <1>6. Does(Lock("tty") \o Special("cancel") \o Access("move") \o Unlock("tty"), {}, {}, MainKinds)
    BY <1>1, <1>3, PlainSteps, Then
  <1>7. Does(Lock("tty") \o Special("cancel") \o Access("move") \o Unlock("tty")
             \o Access("gpmclose") \o Console("gpm"), {}, {}, MainKinds)
    BY <1>1, <1>5, <1>6, PlainSteps, Then
  <1>8. Does(Special("cancel") \o Access("reopen") \o Special("start"), {}, {}, MainKinds \union {"start"})
    <2> DEFINE K == MainKinds \union {"start"}
    <2>1. Does(Special("cancel"), {}, {}, K) /\ Does(Special("start"), {}, {}, K) /\ Plain \subseteq K
      BY SpecialSteps DEF MainKinds, Kinds
    <2> HIDE DEF K
    <2>2. Does(Special("cancel") \o Access("reopen") \o Special("start"), {}, {}, K)
      BY <1>1, <2>1, PlainSteps, Then
    <2> QED BY <2>2 DEF K
  <1>9. \A a \in {"progress", "message", "log", "effects"} : Does(Access(a), {}, {}, MainKinds)
    BY <1>1, PlainSteps
  <1>10. Does(Access("settheme") \o Painting("reload"), {}, {}, MainKinds)
    BY <1>1, <1>2, PlainSteps, Then
  <1>11. Does(Access("request") \o Access("arm"), {}, {}, MainKinds)
    BY <1>1, PlainSteps, Then
  <1>12. Commands \subseteq {"paint", "repaint", "theme", "progress", "message", "log", "svc", "effects",
                             "mode", "tty", "vtty", "gpm", "evdev", "exit"}
    BY ThreadsAssumption
  <1> QED BY <1>2, <1>4, <1>5, <1>7, <1>8, <1>9, <1>10, <1>11, <1>12, RunExit DEF CommandProg

\* The end of a command's turn in daemon_comm.
LEMMA RunArming == Does(Arming, {}, {}, MainKinds)
  <1>1. "arm" \in Names \ (Under("paint") \union Under("tty")) /\ Plain \subseteq MainKinds
    BY DEF Names, Under, MainKinds
  <1>2. Does(Access("arm"), {}, {}, MainKinds)
    BY <1>1, PlainSteps
  <1>3. Does(<<>>, {}, {}, MainKinds)
    <2> DEFINE p == <<>>
    <2>1. p \in Programs /\ Len(p) = 0 /\ 1..0 = {}
      BY DEF Programs
    <2> HIDE DEF p
    <2>2. \A m : ~Held(p, {}, 0 + 1, m)
      BY HeldStep
    <2>3. Does(p, {}, {}, MainKinds)
      BY <2>1, <2>2 DEF Does, Runs, Covered, Ordered, Ends, Only
    <2> QED BY <2>3 DEF p
  <1> QED BY <1>2, <1>3 DEF Arming

-----------------------------------------------------------------------------
(* The handler of SIGALRM in front of a program                            *)

HandlerKinds == {"lock", "access", "unlock", "sigreturn"}

\* The handler takes and releases mtx_paint, whatever the thread holds.
LEMMA RunAlarm ==
  ASSUME NEW H
  PROVE  /\ AlarmProg \in Programs /\ Len(AlarmProg) > 0 /\ AlarmProg[1].do = "lock" /\ AlarmProg[1].on = "paint"
         /\ \E i \in 1..Len(AlarmProg) : AlarmProg[i].do = "sigreturn"
         /\ Only(AlarmProg, HandlerKinds)
         /\ \A i \in 1..Len(AlarmProg) : AlarmProg[i].on # "render"
         /\ Covered(AlarmProg, H) /\ Ordered(AlarmProg, H) /\ Ends(AlarmProg, H, H \ {"paint"})
  <1> DEFINE a == [do |-> "lock", on |-> "paint"]
             e == [do |-> "access", on |-> "autoverbose"]
             b == [do |-> "unlock", on |-> "paint"]
             c == [do |-> "sigreturn", on |-> ""]
             z == AlarmProg
             G == H \union {"paint"}
             K == H \ {"paint"}
  <1>1. a \in StepRecords /\ e \in StepRecords /\ b \in StepRecords /\ c \in StepRecords
    BY DEF StepRecords, Kinds, Names
  <1>2. z = <<a>> \o <<e>> \o <<b>> \o <<c>>
    BY DEF AlarmProg, Painting, Lock, Access, Unlock, Special
  <1>3. /\ a.do = "lock" /\ a.on = "paint" /\ e.do = "access" /\ e.on = "autoverbose"
        /\ b.do = "unlock" /\ b.on = "paint" /\ c.do = "sigreturn" /\ c.on = ""
    OBVIOUS
  <1> HIDE DEF a, b, c, e, z
  <1>4. Len(z) = 4 /\ z[1] = a /\ z[2] = e /\ z[3] = b /\ z[4] = c /\ z \in Programs
    <2> DEFINE x == <<a>> \o <<e>> \o <<b>> \o <<c>>
    <2>1. /\ Len(x) = 4 /\ x \in Seq(StepRecords)
          /\ x[1] = a /\ x[2] = e /\ x[3] = b /\ x[4] = c
      BY <1>1
    <2>2. z = x
      BY <1>2
    <2> HIDE DEF x
    <2> QED BY <2>1, <2>2 DEF Programs
  <1>5. /\ \A i \in 1..Len(z) : i = 1 \/ i = 2 \/ i = 3 \/ i = 4
        /\ \A i \in 1..Len(z) : 4 \in i..Len(z)
        /\ 4 \in 1..Len(z) /\ Len(z) > 0
    BY <1>4
  <1>6. \A m : /\ Locks(a, m) <=> m = "paint"
               /\ ~Locks(e, m) /\ ~Locks(b, m) /\ ~Locks(c, m)
               /\ ~Releases(a, m) /\ ~Releases(e, m) /\ ~Releases(c, m)
               /\ Releases(b, m) <=> m = "paint"
    BY <1>3 DEF Locks, Releases
  <1>7. \A m \in Mutexes : /\ ~Needs(a, m) /\ ~Needs(c, m)
                           /\ Needs(e, m) => m = "paint"
                           /\ Needs(b, m) => m = "paint"
    BY <1>3, <1>6 DEF Needs, Under, Mutexes
  <1>8. \A m : /\ Held(z, H, 1, m) <=> m \in H
               /\ Held(z, H, 2, m) <=> m \in G
               /\ Held(z, H, 3, m) <=> m \in G
               /\ Held(z, H, 4, m) <=> m \in K
               /\ Held(z, H, 5, m) <=> m \in K
    <2>1. \A m : /\ Held(z, H, 1, m) <=> m \in H
                 /\ Held(z, H, 2, m) <=> Locks(z[1], m) \/ (Held(z, H, 1, m) /\ ~Releases(z[1], m))
                 /\ Held(z, H, 3, m) <=> Locks(z[2], m) \/ (Held(z, H, 2, m) /\ ~Releases(z[2], m))
                 /\ Held(z, H, 4, m) <=> Locks(z[3], m) \/ (Held(z, H, 3, m) /\ ~Releases(z[3], m))
                 /\ Held(z, H, 5, m) <=> Locks(z[4], m) \/ (Held(z, H, 4, m) /\ ~Releases(z[4], m))
      <3>1. /\ 1 \in Nat \ {0} /\ 2 \in Nat \ {0} /\ 3 \in Nat \ {0} /\ 4 \in Nat \ {0}
            /\ 1 + 1 = 2 /\ 2 + 1 = 3 /\ 3 + 1 = 4 /\ 4 + 1 = 5
        OBVIOUS
      <3> TAKE m
      <3>2. /\ Held(z, H, 1, m) <=> m \in H
            /\ \A i \in Nat \ {0} :
                 Held(z, H, i + 1, m) <=> Locks(z[i], m) \/ (Held(z, H, i, m) /\ ~Releases(z[i], m))
        BY HeldStep
      <3>3. /\ Held(z, H, 1 + 1, m) <=> Locks(z[1], m) \/ (Held(z, H, 1, m) /\ ~Releases(z[1], m))
            /\ Held(z, H, 2 + 1, m) <=> Locks(z[2], m) \/ (Held(z, H, 2, m) /\ ~Releases(z[2], m))
            /\ Held(z, H, 3 + 1, m) <=> Locks(z[3], m) \/ (Held(z, H, 3, m) /\ ~Releases(z[3], m))
            /\ Held(z, H, 4 + 1, m) <=> Locks(z[4], m) \/ (Held(z, H, 4, m) /\ ~Releases(z[4], m))
        BY <3>1, <3>2
      <3> QED BY <3>1, <3>2, <3>3
    <2> QED BY <1>4, <1>6, <2>1
  <1>9. Covered(z, H)
    BY <1>4, <1>5, <1>7, <1>8 DEF Covered
  <1>10. Ends(z, H, K)
    <2>1. Len(z) + 1 = 5
      BY <1>4
    <2> QED BY <1>8, <2>1 DEF Ends
  <1>11. Only(z, HandlerKinds)
    BY <1>3, <1>4, <1>5 DEF Only, HandlerKinds
  <1>12. \A i \in 1..Len(z) : /\ InHandler(z, i) /\ z[i].do # "join" /\ z[i].on # "render"
                              /\ z[i].do \in {"lock", "unlock"} => z[i].on \in Mutexes
    BY <1>3, <1>4, <1>5 DEF InHandler, Mutexes
  <1>13. Ordered(z, H)
    BY <1>12 DEF Ordered
  <1>14. \E i \in 1..Len(z) : z[i].do = "sigreturn"
    BY <1>3, <1>4, <1>5
  <1> QED BY <1>3, <1>4, <1>5, <1>9, <1>10, <1>11, <1>12, <1>13, <1>14 DEF z

\* What is in order for a thread that holds H is so for one that holds less.
LEMMA Fewer ==
  ASSUME NEW p, NEW H, NEW G, G \subseteq H
  PROVE  /\ Ordered(p, H) => Ordered(p, G)
         /\ Ends(p, H, {}) => Ends(p, G, {})
  BY DEF Ordered, Ends, Held

-----------------------------------------------------------------------------
(* What each thread keeps                                                  *)

\* A thread caught by SIGALRM waits for a mutex it holds, for ever.
Stuck(p, H) == /\ p # <<>> /\ p[1].do = "lock" /\ p[1].on \in H
               /\ \E i \in 1..Len(p) : p[i].do = "sigreturn"

Keeps(t, p, H) ==
  /\ Stuck(p, H) \/ Covered(p, H)
  /\ Ordered(p, H)
  /\ t # "sig" => Ends(p, H, {})

KindsOf(t) == CASE t = "main" -> MainKinds \union {"start", "sigreturn"}
                [] t = "anim" -> Plain \union {"wait", "sigreturn"}
                [] t = "sig"  -> Plain \union {"trytty", "end", "exit"}
                [] OTHER      -> Plain \union {"sigreturn"}

\* A thread that is not stuck keeps its part by taking its next step.
LEMMA KeepsAdvance ==
  ASSUME NEW t, NEW p \in Programs, p # <<>>, NEW H, NEW G, Keeps(t, p, H), ~Stuck(p, H),
         \A m \in Mutexes : m \in G <=> Locks(p[1], m) \/ (m \in H /\ ~Releases(p[1], m))
  PROVE  Keeps(t, Tail(p), G)
  BY Advance DEF Keeps

\* A thread keeps its part when the handler of SIGALRM comes on top.
LEMMA KeepsAlarm ==
  ASSUME NEW t, NEW p \in Programs, NEW H, H \subseteq Mutexes, Keeps(t, p, H), t # "sig",
         ~ \E i \in 1..Len(p) : p[i].do = "sigreturn"
  PROVE  Keeps(t, AlarmProg \o p, H)
  <1> DEFINE r == AlarmProg \o p
             G == H \ {"paint"}
  <1>1. Ordered(p, G) /\ Ends(p, G, {}) /\ Covered(p, H)
    BY Fewer DEF Keeps, Stuck
  <1>2. Ordered(r, H) /\ Ends(r, H, {}) /\ (Covered(p, G) => Covered(r, H))
    BY <1>1, RunAlarm, Concat
  <1>3. CASE "paint" \notin H
    <2>1. G = H
      BY <1>3
    <2> QED BY <1>1, <1>2, <2>1 DEF Keeps
  <1>4. CASE "paint" \in H
    <2>1. /\ Len(r) = Len(AlarmProg) + Len(p) /\ Len(p) \in Nat /\ Len(AlarmProg) \in Nat /\ r \in Programs
          /\ \A i \in 1..Len(AlarmProg) : r[i] = AlarmProg[i]
      BY RunAlarm, ConcatLen
    <2>2. PICK i \in 1..Len(AlarmProg) : AlarmProg[i].do = "sigreturn"
      BY RunAlarm
    <2>3. 1 \in 1..Len(AlarmProg) /\ i \in 1..Len(r)
      BY <2>1, <2>2
    <2>4. r[1] = AlarmProg[1] /\ r[i] = AlarmProg[i]
      BY <2>1, <2>3
    <2>5. r # <<>>
      BY <2>1, <2>3
    <2> HIDE DEF r
    <2>6. Stuck(r, H)
      <3>1. r[1].do = "lock" /\ r[1].on = "paint" /\ r[i].do = "sigreturn"
        BY <2>2, <2>4, RunAlarm
      <3> QED BY <1>4, <2>3, <2>5, <3>1 DEF Stuck
    <2> QED BY <1>2, <2>6 DEF Keeps, r
  <1> QED BY <1>3, <1>4

-----------------------------------------------------------------------------
(* The threads together                                                    *)

Has(t) == {m \in Mutexes : owner[m] = t}

Types ==
  /\ prog \in [Threads -> Programs]
  /\ owner \in [Mutexes -> Threads \union {None, "dead"}]
  /\ ended \subseteq Threads /\ cancelled \subseteq Monitors /\ monitor \in Monitors
  /\ sigint \in BOOLEAN /\ armed \in BOOLEAN /\ exited \in BOOLEAN

Disciplined == \A t \in Threads : Keeps(t, prog[t], Has(t)) /\ Only(prog[t], KindsOf(t))

\* The action makes t go on with p, and changes only what t holds.
Changes(t, p) ==
  /\ prog' = [prog EXCEPT ![t] = p] /\ p \in Programs
  /\ Only(p, KindsOf(t)) /\ Keeps(t, p, Has(t)')
  /\ \A u \in Threads \ {t} : Has(u)' = Has(u)

\* When one thread goes on as it should, all threads do.
LEMMA ChangesKeep ==
  ASSUME Types, Disciplined, NEW t \in Threads, NEW p, Changes(t, p)
  PROVE  Disciplined' /\ prog' \in [Threads -> Programs] /\ prog'[t] = p
  <1>1. prog' \in [Threads -> Programs] /\ prog'[t] = p /\ \A u \in Threads \ {t} : prog'[u] = prog[u]
    BY DEF Changes, Types
  <1>2. Keeps(t, prog'[t], Has(t)') /\ Only(prog'[t], KindsOf(t))
    BY <1>1 DEF Changes
  <1>3. ASSUME NEW u \in Threads \ {t}
        PROVE  Keeps(u, prog'[u], Has(u)') /\ Only(prog'[u], KindsOf(u))
    BY <1>1 DEF Changes, Disciplined
  <1>4. \A u \in Threads : Keeps(u, prog'[u], Has(u)') /\ Only(prog'[u], KindsOf(u))
    BY <1>2, <1>3
  <1> QED BY <1>1, <1>4 DEF Disciplined

\* No thread is taken for the owner of a free or an orphaned mutex.
LEMMA NoneIsNone == \A t \in Threads : t # None /\ t # "dead"
  BY ThreadsAssumption DEF Threads

\* What is at the head of a program.
LEMMA HeadFacts ==
  ASSUME NEW p \in Programs, p # <<>>, NEW t, NEW H, Keeps(t, p, H), Only(p, KindsOf(t))
  PROVE  /\ Head(p) = p[1] /\ p[1] \in StepRecords /\ 1 \in 1..Len(p)
         /\ Tail(p) \in Programs /\ Only(Tail(p), KindsOf(t)) /\ p[1].do \in KindsOf(t)
         /\ Len(Tail(p)) = Len(p) - 1 /\ \A i \in 1..Len(Tail(p)) : Tail(p)[i] = p[i + 1]
         /\ p[1].do \in {"lock", "unlock"} => p[1].on \in Mutexes
         /\ ~(p[1].do = "lock" /\ p[1].on \in H) =>
              \A m \in Mutexes : Needs(p[1], m) => m \in H
         /\ \A m \in Mutexes : m \in H => /\ p[1].do = "lock" => Rank(m) < Rank(p[1].on) \/ InHandler(p, 1)
                                          /\ p[1].do # "join"
  <1>1. Head(p) = p[1] /\ p[1] \in StepRecords /\ 1 \in 1..Len(p) /\ Len(p) \in Nat
    BY DEF Programs
  <1>2. /\ Tail(p) \in Programs /\ Len(Tail(p)) = Len(p) - 1
        /\ \A i \in 1..Len(Tail(p)) : Tail(p)[i] = p[i + 1]
    BY HeadTailProperties DEF Programs
  <1>3. \A i \in 1..Len(Tail(p)) : i + 1 \in 1..Len(p)
    BY <1>1, <1>2
  <1>4. Only(Tail(p), KindsOf(t)) /\ p[1].do \in KindsOf(t)
    BY <1>1, <1>2, <1>3 DEF Only
  <1>5. \A m : Held(p, H, 1, m) <=> m \in H
    BY HeldStep
  <1>6. ~(p[1].do = "lock" /\ p[1].on \in H) => \A m \in Mutexes : Needs(p[1], m) => m \in H
    BY <1>1, <1>5 DEF Keeps, Stuck, Covered
  <1>7. /\ p[1].do \in {"lock", "unlock"} => p[1].on \in Mutexes
        /\ \A m \in Mutexes : m \in H => /\ p[1].do = "lock" => Rank(m) < Rank(p[1].on) \/ InHandler(p, 1)
                                         /\ p[1].do # "join"
    BY <1>1, <1>5 DEF Keeps, Ordered
  <1> QED BY <1>1, <1>2, <1>4, <1>6, <1>7

Cleans(p) ==
  \A i \in 1..Len(p) : \/ p[i].do \in {"trytty", "end", "exit"}
                       \/ p[i].do = "access" /\ p[i].on = "cleanup"

\* The steps of trying to take mtx_tty, cleaning up and ending.
LEMMA KeepsCleanup ==
  ASSUME NEW p \in Programs, NEW H, Cleans(p)
  PROVE  Keeps("sig", p, H)
  <1>1. \A m : "cleanup" \notin Under(m)
    BY DEF Under
  <1> QED BY <1>1 DEF Keeps, Covered, Ordered, Cleans, Needs, Releases

\* What is left to do of a program when its first step is done.
LEMMA StepChanges ==
  ASSUME Types, Disciplined, NEW t \in Threads, Step(t),
         At("sig", "trytty") => Cleans(prog["sig"])
  PROVE  /\ Changes(t, Tail(prog[t])) /\ prog[t] # <<>> /\ ~exited
         /\ owner' \in [Mutexes -> Threads \union {None, "dead"}]
         /\ \A m \in Mutexes : owner'[m] \in {owner[m], None, t}
         /\ armed' \in BOOLEAN
         /\ Ends(prog[t], Has(t), {}) /\ ~At(t, "trytty") => Ends(Tail(prog[t]), Has(t)', {})
  <1> DEFINE p == prog[t]
             H == Has(t)
  <1>1. p \in Programs /\ Keeps(t, p, H) /\ Only(p, KindsOf(t))
    BY DEF Types, Disciplined
  <1>2. prog' = [prog EXCEPT ![t] = Tail(p)] /\ p # <<>> /\ ~exited /\ armed' \in BOOLEAN
    BY DEF Step, LockStep, UnlockStep, AccessStep, WaitStep, CancelStep, StartStep, KillStep, JoinStep,
           SigReturnStep, TryTtyStep, EndStep, ExitStep, Done, At, Types
  <1> HIDE DEF p
  <1>3. /\ Head(p) = p[1] /\ Tail(p) \in Programs /\ Only(Tail(p), KindsOf(t)) /\ p[1].do \in KindsOf(t)
        /\ p[1].do \in {"lock", "unlock"} => p[1].on \in Mutexes
        /\ ~(p[1].do = "lock" /\ p[1].on \in H) => \A m \in Mutexes : Needs(p[1], m) => m \in H
    BY <1>1, <1>2, HeadFacts
  <1>4. /\ \A s : At(t, s) <=> p[1].do = s
        /\ Of(t) = p[1].on
        /\ t # None
    BY <1>2, <1>3, NoneIsNone DEF At, Of, p
  <1>5. ASSUME LockStep(t)
        PROVE  /\ Keeps(t, Tail(p), Has(t)') /\ \A u \in Threads \ {t} : Has(u)' = Has(u)
               /\ Ends(p, H, {}) => Ends(Tail(p), Has(t)', {})
               /\ owner' \in [Mutexes -> Threads \union {None, "dead"}]
               /\ \A m \in Mutexes : owner'[m] \in {owner[m], None, t}
    <2>1. p[1].do = "lock" /\ p[1].on \in Mutexes /\ owner[p[1].on] = None
          /\ owner' = [owner EXCEPT ![p[1].on] = t]
      BY <1>3, <1>4, <1>5 DEF LockStep
    <2>2. p[1].on \notin H
      BY <1>4, <2>1 DEF Has
    <2>3. \A m \in Mutexes : owner'[m] = IF m = p[1].on THEN t ELSE owner[m]
      BY <2>1 DEF Types
    <2>4. \A m \in Mutexes : m \in Has(t)' <=> Locks(p[1], m) \/ (m \in H /\ ~Releases(p[1], m))
      BY <2>1, <2>3 DEF Has, Locks, Releases
    <2>5. Keeps(t, Tail(p), Has(t)') /\ (Ends(p, H, {}) => Ends(Tail(p), Has(t)', {}))
      BY <1>1, <1>2, <2>2, <2>4, KeepsAdvance, Advance DEF Stuck
    <2>6. \A u \in Threads \ {t} : Has(u)' = Has(u)
      BY <2>1, <2>3, NoneIsNone DEF Has
    <2> QED BY <2>1, <2>3, <2>5, <2>6 DEF Types
  <1>6. ASSUME NEW m \in Mutexes, Releases(p[1], m), owner' = [owner EXCEPT ![m] = None]
        PROVE  /\ Keeps(t, Tail(p), Has(t)') /\ \A u \in Threads \ {t} : Has(u)' = Has(u)
               /\ Ends(p, H, {}) => Ends(Tail(p), Has(t)', {})
               /\ owner' \in [Mutexes -> Threads \union {None, "dead"}]
               /\ \A n \in Mutexes : owner'[n] \in {owner[n], None, t}
    <2>1. p[1].do # "lock" /\ m \in H /\ \A n \in Mutexes : Releases(p[1], n) => n = m
      BY <1>3, <1>6 DEF Needs, Releases
    <2>2. \A n \in Mutexes : owner'[n] = IF n = m THEN None ELSE owner[n]
      BY <1>6 DEF Types
    <2>3. \A n \in Mutexes : n \in Has(t)' <=> Locks(p[1], n) \/ (n \in H /\ ~Releases(p[1], n))
      BY <1>4, <1>6, <2>1, <2>2 DEF Has, Locks
    <2>4. Keeps(t, Tail(p), Has(t)') /\ (Ends(p, H, {}) => Ends(Tail(p), Has(t)', {}))
      BY <1>1, <1>2, <2>1, <2>3, KeepsAdvance, Advance DEF Stuck
    <2>5. owner[m] = t
      BY <2>1 DEF Has
    <2>6. \A u \in Threads \ {t} : Has(u)' = Has(u)
      BY <2>2, <2>5, NoneIsNone DEF Has
    <2> QED BY <1>6, <2>2, <2>4, <2>6 DEF Types
  <1>7. CASE UnlockStep(t)
    <2>1. p[1].do = "unlock" /\ p[1].on \in Mutexes /\ owner' = [owner EXCEPT ![p[1].on] = None]
      BY <1>3, <1>4, <1>7 DEF UnlockStep
    <2> QED BY <1>2, <1>3, <1>6, <2>1 DEF Releases, Changes, p
  <1>8. CASE WaitStep(t)
    <2>1. p[1].do = "wait" /\ "anim" \in Mutexes /\ owner' = [owner EXCEPT !["anim"] = None]
      BY <1>4, <1>8 DEF WaitStep, Mutexes
    <2> QED BY <1>2, <1>3, <1>6, <2>1 DEF Releases, Changes, p
  <1>9. ASSUME owner' = owner, p[1].do \notin {"lock", "unlock", "wait"}
        PROVE  Changes(t, Tail(p)) /\ (Ends(p, H, {}) => Ends(Tail(p), Has(t)', {}))
    <2>1. \A u \in Threads : Has(u)' = Has(u)
      BY <1>9 DEF Has
    <2>2. \A m \in Mutexes : m \in H <=> Locks(p[1], m) \/ (m \in H /\ ~Releases(p[1], m))
      BY <1>9 DEF Locks, Releases
    <2>3. Keeps(t, Tail(p), H) /\ (Ends(p, H, {}) => Ends(Tail(p), H, {}))
      BY <1>1, <1>2, <1>9, <2>2, KeepsAdvance, Advance DEF Stuck
    <2> QED BY <1>2, <1>3, <2>1, <2>3 DEF Changes, p
  <1>10. CASE \/ AccessStep(t) \/ CancelStep(t) \/ StartStep(t) \/ KillStep(t) \/ JoinStep(t)
              \/ SigReturnStep(t) \/ EndStep(t) \/ ExitStep(t)
    <2>1. owner' = owner /\ p[1].do \notin {"lock", "unlock", "wait"}
      BY <1>4, <1>10 DEF AccessStep, CancelStep, StartStep, KillStep, JoinStep, SigReturnStep, EndStep, ExitStep
    <2> QED BY <1>2, <1>9, <2>1 DEF Types, p
  <1>11. CASE TryTtyStep(t)
    <2>1. t = "sig"
      BY <1>3, <1>4, <1>11 DEF TryTtyStep, KindsOf, MainKinds, Plain
    <2>2. Cleans(p)
      BY <1>11, <2>1 DEF TryTtyStep, p
    <2>3. Cleans(Tail(p))
      <3>1. /\ Len(Tail(p)) = Len(p) - 1 /\ Len(p) \in Nat
            /\ \A i \in 1..Len(Tail(p)) : Tail(p)[i] = p[i + 1]
        BY <1>1, <1>2, HeadFacts DEF Programs
      <3>2. \A i \in 1..Len(Tail(p)) : i + 1 \in 1..Len(p)
        BY <3>1
      <3> QED BY <2>2, <3>1, <3>2 DEF Cleans
    <2>4. Keeps(t, Tail(p), Has(t)')
      BY <1>3, <2>1, <2>3, KeepsCleanup
    <2>5. owner' = IF owner["tty"] = None THEN [owner EXCEPT !["tty"] = t] ELSE owner
      BY <1>11 DEF TryTtyStep
    <2>6. \A m \in Mutexes : owner'[m] = IF m = "tty" /\ owner["tty"] = None THEN t ELSE owner[m]
      BY <2>5 DEF Types
    <2>7. \A u \in Threads \ {t} : Has(u)' = Has(u)
      BY <2>6, NoneIsNone DEF Has
    <2> QED BY <1>2, <1>3, <1>11, <2>4, <2>5, <2>6, <2>7 DEF Changes, Types, TryTtyStep, p
  <1>12. CASE LockStep(t)
    BY <1>2, <1>3, <1>5, <1>12 DEF Changes, p
  <1> QED BY <1>7, <1>8, <1>10, <1>11, <1>12 DEF Step

\* A thread with nothing to do.
LEMMA EmptyProgram ==
  ASSUME NEW H
  PROVE  /\ <<>> \in Programs /\ Len(<<>>) = 0 /\ \A kinds : Only(<<>>, kinds)
         /\ Covered(<<>>, H) /\ Ordered(<<>>, H)
         /\ Ends(<<>>, H, {}) <=> \A m \in Mutexes : m \notin H
  <1> DEFINE p == <<>>
  <1>1. p \in Programs /\ Len(p) = 0 /\ 1..0 = {}
    BY DEF Programs
  <1> HIDE DEF p
  <1>2. \A m : Held(p, H, 0 + 1, m) <=> m \in H
    BY HeldStep
  <1>3. /\ p \in Programs /\ Len(p) = 0 /\ \A kinds : Only(p, kinds)
        /\ Covered(p, H) /\ Ordered(p, H)
        /\ Ends(p, H, {}) <=> \A m \in Mutexes : m \notin H
    BY <1>1, <1>2 DEF Only, Covered, Ordered, Ends
  <1> QED BY <1>3 DEF p

\* A thread that holds nothing begins a program.
LEMMA BeginChanges ==
  ASSUME Types, Disciplined, NEW t \in Threads, NEW p, NEW K,
         prog[t] = <<>>, Ends(prog[t], Has(t), {}),
         Does(p, {}, {}, K), K \subseteq KindsOf(t), Begin(t, p), owner' = owner
  PROVE  Changes(t, p)
  <1>1. Has(t) = {}
    BY EmptyProgram DEF Has
  <1>2. \A u : Has(u)' = Has(u)
    BY DEF Has
  <1>3. Keeps(t, p, {}) /\ p \in Programs
    BY DEF Keeps, Does, Runs
  <1>4. Only(p, KindsOf(t))
    BY DEF Does, Only
  <1> QED BY <1>1, <1>2, <1>3, <1>4 DEF Changes, Begin

\* SIGALRM puts the handler in front of what its thread does.
LEMMA AlarmChanges ==
  ASSUME Types, Disciplined, NEW t \in Threads, Alarm(t)
  PROVE  Changes(t, AlarmProg \o prog[t])
  <1>1. /\ t # "sig" /\ ~Handling(t) /\ owner' = owner /\ prog' = [prog EXCEPT ![t] = AlarmProg \o prog[t]]
    BY DEF Alarm, Types
  <1>2. prog[t] \in Programs /\ Keeps(t, prog[t], Has(t)) /\ Only(prog[t], KindsOf(t)) /\ Has(t) \subseteq Mutexes
    BY DEF Types, Disciplined, Has
  <1>3. ~ \E i \in 1..Len(prog[t]) : prog[t][i].do = "sigreturn"
    BY <1>1, <1>2 DEF Handling, Programs
  <1>4. Keeps(t, AlarmProg \o prog[t], Has(t))
    BY <1>1, <1>2, <1>3, KeepsAlarm
  <1>5. AlarmProg \o prog[t] \in Programs
    BY <1>2, RunAlarm, ConcatLen
  <1>6. Only(AlarmProg \o prog[t], KindsOf(t))
    <2>1. HandlerKinds \subseteq KindsOf(t)
      BY <1>1 DEF HandlerKinds, KindsOf, MainKinds, Plain
    <2>2. Only(AlarmProg, KindsOf(t))
      BY <2>1, RunAlarm DEF Only
    <2>3. AlarmProg \in Programs /\ Ends(AlarmProg, {}, {} \ {"paint"})
      BY RunAlarm
    <2> QED BY <1>2, <2>2, <2>3, Concat
  <1>7. \A u : Has(u)' = Has(u)
    BY <1>1 DEF Has
  <1> QED BY <1>1, <1>4, <1>5, <1>6, <1>7 DEF Changes

\* A cancelled monitor that dies has nothing left to do.
LEMMA DiesChanges ==
  ASSUME Types, Disciplined, NEW m \in Monitors, Dies(m)
  PROVE  Changes(m, <<>>)
  <1>1. m \in Threads
    BY DEF Threads
  <1>2. \A x \in Mutexes : owner'[x] = IF owner[x] = m THEN "dead" ELSE owner[x]
    BY DEF Dies
  <1>3. Has(m)' = {}
    BY <1>1, <1>2, NoneIsNone DEF Has
  <1>4. \A u \in Threads \ {m} : Has(u)' = Has(u)
    BY <1>2, NoneIsNone DEF Has
  <1>5. Keeps(m, <<>>, Has(m)')
    BY <1>3, EmptyProgram DEF Keeps
  <1> QED BY <1>4, <1>5, EmptyProgram DEF Changes, Dies

-----------------------------------------------------------------------------
(* The signal handler thread and the end of threads                        *)

\* What is left of do_cleanup.
CleanupAccess(s) == s.do = "access" /\ s.on = "cleanup"

Cleaning(p) ==
  \/ Len(p) = 3 /\ p[1].do = "trytty" /\ CleanupAccess(p[2]) /\ p[3].do \in {"end", "exit"}
  \/ Len(p) = 2 /\ CleanupAccess(p[1]) /\ p[2].do \in {"end", "exit"}
  \/ Len(p) = 1 /\ p[1].do \in {"end", "exit"}

\* The thread for signals holds nothing between two signals, and goes on from
\* do_cleanup to its end.
SigState ==
  \/ prog["sig"] = <<>> /\ ("sig" \in ended \/ exited)
  \/ Cleaning(prog["sig"])
  \/ Only(prog["sig"], Plain) /\ Ends(prog["sig"], Has("sig"), {})

SigEnd == \A i \in 1..Len(prog["sig"]) : prog["sig"][i].do = "end" => sigint

\* A monitor that paints releases nothing but mtx_paint.
PaintsOnly(p) == \A i \in 1..Len(p) : p[i].do = "unlock" => p[i].on = "paint"
NeverPaints(p) == \A i \in 1..Len(p) : p[i].on # "render"
KeyShape(p)   == PaintsOnly(p) \/ NeverPaints(p)

Endings ==
  /\ \A t \in ended : prog[t] = <<>> /\ (t \in Monitors \/ (t = "sig" /\ sigint))
  /\ \A m \in Mutexes : owner[m] = "dead" => ExecText /\ m = "paint"
  /\ SigState /\ SigEnd
  /\ \A t \in Monitors : KeyShape(prog[t])

\* A new monitor is started, once, when the last one was cancelled.
Late(p) == \A i \in 1..Len(p) : p[i].do = "start" => \E j \in 1..i-1 : p[j].do = "cancel"
Once(p) == \A i, k \in 1..Len(p) : p[i].do = "start" /\ p[k].do = "start" => i = k

OneStarts ==
  /\ Monitors \ (ended \union cancelled) \subseteq {monitor}
  /\ Once(prog["main"])
  /\ monitor \in ended \union cancelled \/ Late(prog["main"])

IInv == Types /\ Disciplined /\ Endings /\ OneStarts

-----------------------------------------------------------------------------
(* What the shapes of programs keep                                        *)

\* The shapes of programs are kept by taking a step.
LEMMA TailShapes ==
  ASSUME NEW p \in Programs, p # <<>>
  PROVE  /\ Once(p) => Once(Tail(p))
         /\ Late(p) /\ p[1].do # "cancel" => Late(Tail(p))
         /\ Once(p) /\ p[1].do = "start" => Late(Tail(p))
         /\ KeyShape(p) => KeyShape(Tail(p))
  <1> DEFINE q == Tail(p)
  <1>1. /\ q \in Programs /\ Len(q) = Len(p) - 1 /\ Len(p) \in Nat \ {0}
        /\ \A i \in 1..Len(q) : q[i] = p[i + 1]
    BY HeadTailProperties DEF Programs
  <1> HIDE DEF q
  <1>2. 1 \in 1..Len(p) /\ \A i \in 1..Len(q) : i + 1 \in 1..Len(p) /\ i + 1 # 1
    BY <1>1
  <1>3. ASSUME Once(p) PROVE Once(q)
    <2>1. ASSUME NEW i \in 1..Len(q), NEW k \in 1..Len(q), q[i].do = "start", q[k].do = "start"
          PROVE  i = k
      <3>1. i + 1 \in 1..Len(p) /\ k + 1 \in 1..Len(p) /\ p[i + 1].do = "start" /\ p[k + 1].do = "start"
        BY <1>1, <1>2, <2>1
      <3>2. i + 1 = k + 1
        BY <1>3, <3>1 DEF Once
      <3> QED BY <2>1, <3>2
    <2> QED BY <2>1 DEF Once
  <1>4. ASSUME Late(p), p[1].do # "cancel" PROVE Late(q)
    <2>1. ASSUME NEW i \in 1..Len(q), q[i].do = "start" PROVE \E j \in 1..i-1 : q[j].do = "cancel"
      <3>1. PICK j \in 1..(i+1)-1 : p[j].do = "cancel"
        BY <1>1, <1>2, <1>4, <2>1 DEF Late
      <3>2. j # 1
        BY <1>4, <3>1
      <3>3. j - 1 \in 1..i-1 /\ j - 1 \in 1..Len(q) /\ (j - 1) + 1 = j
        BY <1>1, <2>1, <3>1, <3>2
      <3> QED BY <1>1, <3>1, <3>3
    <2> QED BY <2>1 DEF Late
  <1>5. Once(p) /\ p[1].do = "start" => Late(q)
    BY <1>1, <1>2 DEF Once, Late
  <1>6. KeyShape(p) => KeyShape(q)
    BY <1>1, <1>2 DEF KeyShape, PaintsOnly, NeverPaints
  <1> QED BY <1>3, <1>4, <1>5, <1>6 DEF q

\* Programs that unlock only mtx_paint, one after the other.
LEMMA PaintsConcat ==
  ASSUME NEW p \in Programs, NEW q \in Programs, PaintsOnly(p), PaintsOnly(q)
  PROVE  PaintsOnly(p \o q) /\ p \o q \in Programs
  <1> DEFINE r == p \o q
  <1>1. /\ r \in Programs /\ Len(r) = Len(p) + Len(q)
        /\ \A i \in 1..Len(p) : r[i] = p[i]
        /\ \A i \in 1..Len(q) : r[Len(p) + i] = q[i]
    BY ConcatLen
  <1>2. \A i \in 1..Len(p)+Len(q) : i \in 1..Len(p) \/ \E j \in 1..Len(q) : i = Len(p) + j
    BY ConcatLen
  <1> HIDE DEF r
  <1>3. \A i \in 1..Len(r) : i \in 1..Len(p) \/ \E j \in 1..Len(q) : i = Len(p) + j
    BY <1>1, <1>2
  <1>4. PaintsOnly(r)
    BY ZenonT(30), <1>1, <1>3 DEF PaintsOnly
  <1> QED BY <1>1, <1>4 DEF r

\* The steps of such programs.
LEMMA PaintsSteps ==
  /\ \A m \in Mutexes : Lock(m) \in Programs /\ PaintsOnly(Lock(m))
  /\ Unlock("paint") \in Programs /\ PaintsOnly(Unlock("paint"))
  /\ \A a \in Names : Access(a) \in Programs /\ PaintsOnly(Access(a))
  /\ Special("sigreturn") \in Programs /\ PaintsOnly(Special("sigreturn"))
  <1>1. ASSUME NEW s, s.do # "unlock" \/ s.on = "paint" PROVE PaintsOnly(<<s>>)
    <2> DEFINE p == <<s>>
    <2>1. Len(p) = 1 /\ p[1] = s /\ \A i \in 1..1 : i = 1
      OBVIOUS
    <2> HIDE DEF p
    <2>2. PaintsOnly(p)
      BY <1>1, <2>1 DEF PaintsOnly
    <2> QED BY <2>2 DEF p
  <1>2. "paint" \in Names /\ "sigreturn" \in Kinds /\ Mutexes \subseteq Names
    BY DEF Names, Kinds, Mutexes
  <1>3. /\ \A m \in Mutexes : PaintsOnly(Lock(m))
        /\ \A a \in Names : PaintsOnly(Access(a))
        /\ PaintsOnly(Unlock("paint")) /\ PaintsOnly(Special("sigreturn"))
    BY <1>1 DEF Lock, Access, Unlock, Special
  <1> QED BY <1>2, <1>3, StepTypes

\* The handler of SIGALRM, F3, and the keys of the event device only unlock
\* mtx_paint.
LEMMA PaintsPrograms ==
  /\ PaintsOnly(AlarmProg)
  /\ \A evdev : PaintsOnly(KeyProg("F3", evdev))
  /\ \A key : PaintsOnly(KeyProg(key, TRUE))
  <1>1. "paint" \in Mutexes /\ {"textbox", "render", "activate", "choose", "autoverbose"} \subseteq Names
    BY DEF Mutexes, Names
  <1>2. ASSUME NEW a \in Names
        PROVE  PaintsOnly(Painting(a)) /\ Painting(a) \in Programs
    BY <1>1, <1>2, PaintsSteps, PaintsConcat DEF Painting
  <1>3. PaintsOnly(AlarmProg)
    BY <1>1, <1>2, PaintsSteps, PaintsConcat DEF AlarmProg
  <1>4. PaintsOnly(Access("textbox") \o Painting("render"))
    BY <1>1, <1>2, PaintsSteps, PaintsConcat
  <1>5. PaintsOnly(Painting("choose") \o Access("activate"))
    BY <1>1, <1>2, PaintsSteps, PaintsConcat
  <1> QED BY <1>3, <1>4, <1>5 DEF KeyProg

\* What a monitor begins for a key has the shape for monitors.
LEMMA KeyShapes ==
  ASSUME NEW key, NEW evdev
  PROVE  KeyShape(KeyProg(key, evdev))
  <1>1. CASE key = "F3" \/ evdev
    <2>1. PaintsOnly(KeyProg(key, evdev))
      BY <1>1, PaintsPrograms DEF KeyProg
    <2> QED BY <2>1 DEF KeyShape
  <1>2. CASE key # "F3" /\ ~evdev
    <2> DEFINE a == [do |-> "lock", on |-> "tty"]
               b == [do |-> "access", on |-> "verbose"]
               c == [do |-> "unlock", on |-> "tty"]
               p == KeyProg(key, evdev)
    <2>1. p = <<a>> \o <<b>> \o <<c>>
      BY <1>2 DEF KeyProg, Console, Lock, Access, Unlock
    <2>2. /\ a.on # "render" /\ b.on # "render" /\ c.on # "render"
          /\ a \in {a, b, c} /\ b \in {a, b, c} /\ c \in {a, b, c}
      OBVIOUS
    <2> HIDE DEF a, b, c, p
    <2>3. Len(p) = 3 /\ p[1] = a /\ p[2] = b /\ p[3] = c
      <3> DEFINE x == <<a>> \o <<b>> \o <<c>>
      <3>1. Len(x) = 3 /\ x \in Seq({a, b, c}) /\ x[1] = a /\ x[2] = b /\ x[3] = c
        BY <2>2
      <3>2. p = x
        BY <2>1
      <3> HIDE DEF x
      <3> QED BY <3>1, <3>2
    <2>4. \A i \in 1..Len(p) : i = 1 \/ i = 2 \/ i = 3
      BY <2>3
    <2>5. NeverPaints(p)
      BY <2>2, <2>3, <2>4 DEF NeverPaints
    <2> QED BY <2>5 DEF KeyShape, p
  <1> QED BY <1>1, <1>2

\* The handler of SIGALRM in front of a program keeps its shape.
LEMMA AlarmShapes ==
  ASSUME NEW p \in Programs
  PROVE  /\ Once(p) => Once(AlarmProg \o p)
         /\ Late(p) => Late(AlarmProg \o p)
         /\ KeyShape(p) => KeyShape(AlarmProg \o p)
  <1> DEFINE r == AlarmProg \o p
             n == Len(AlarmProg)
  <1>1. AlarmProg \in Programs /\ Only(AlarmProg, HandlerKinds) /\ NeverPaints(AlarmProg)
    BY RunAlarm DEF NeverPaints
  <1>2. /\ r \in Programs /\ Len(r) = n + Len(p) /\ n \in Nat /\ Len(p) \in Nat
        /\ \A i \in 1..n : r[i] = AlarmProg[i]
        /\ \A i \in 1..Len(p) : r[n + i] = p[i]
    BY <1>1, ConcatLen
  <1>3. \A i \in 1..n+Len(p) : i \in 1..n \/ \E j \in 1..Len(p) : i = n + j
    BY <1>1, ConcatLen
  <1>4. \A i \in 1..n : r[i].do \in HandlerKinds /\ r[i].on # "render"
    BY <1>1, <1>2 DEF Only, NeverPaints
  <1>5. PaintsOnly(p) => PaintsOnly(r)
    BY <1>1, PaintsConcat, PaintsPrograms
  <1> HIDE DEF r, n
  <1>6. \A i \in 1..n : r[i].do # "start"
    BY <1>4 DEF HandlerKinds
  <1>7. ASSUME Once(p) PROVE Once(r)
    <2>1. ASSUME NEW i \in 1..Len(r), NEW k \in 1..Len(r), r[i].do = "start", r[k].do = "start"
          PROVE  i = k
      <3>1. PICK j \in 1..Len(p) : i = n + j
        BY <1>2, <1>3, <1>6, <2>1
      <3>2. PICK l \in 1..Len(p) : k = n + l
        BY <1>2, <1>3, <1>6, <2>1
      <3>3. p[j].do = "start" /\ p[l].do = "start"
        BY <1>2, <2>1, <3>1, <3>2
      <3>4. j = l
        BY <1>7, <3>3 DEF Once
      <3> QED BY <3>1, <3>2, <3>4
    <2> QED BY <2>1 DEF Once
  <1>8. ASSUME Late(p) PROVE Late(r)
    <2>1. ASSUME NEW i \in 1..Len(p), r[n + i].do = "start"
          PROVE  \E j \in 1..(n+i)-1 : r[j].do = "cancel"
      <3>1. PICK j \in 1..i-1 : p[j].do = "cancel"
        BY <1>2, <1>8, <2>1 DEF Late
      <3>2. n + j \in 1..(n+i)-1 /\ j \in 1..Len(p)
        BY <1>2, <2>1, <3>1
      <3> QED BY <1>2, <3>1, <3>2
    <2> QED BY <1>2, <1>3, <1>6, <2>1 DEF Late
  <1>9. NeverPaints(p) => NeverPaints(r)
    BY <1>2, <1>3, <1>4 DEF NeverPaints
  <1> QED BY <1>5, <1>7, <1>8, <1>9 DEF KeyShape, r

-----------------------------------------------------------------------------
(* The inductive invariant                                                 *)

\* The invariant holds when the daemon starts.
LEMMA InitInvariant == Init => IInv
  <1> SUFFICES ASSUME Init PROVE IInv
    OBVIOUS
  <1>1. Types
    BY EmptyProgram DEF Init, Types, Threads
  <1>2. \A t \in Threads : prog[t] = <<>> /\ Has(t) = {}
    BY NoneIsNone DEF Init, Has
  <1>3. \A t : Keeps(t, <<>>, {})
    BY EmptyProgram DEF Keeps
  <1>4. Disciplined
    BY <1>2, <1>3, EmptyProgram DEF Disciplined
  <1>5. {"main", "sig"} \subseteq Threads /\ Monitors \subseteq Threads
    BY DEF Threads
  <1>6. 1..Len(<<>>) = {}
    BY EmptyProgram
  <1>7. SigState /\ SigEnd
    BY <1>2, <1>5, <1>6, EmptyProgram DEF SigState, SigEnd
  <1>8. \A t \in Monitors : KeyShape(prog[t])
    BY <1>2, <1>5, <1>6 DEF KeyShape, PaintsOnly
  <1>9. Endings
    BY <1>2, <1>5, <1>7, <1>8, ThreadsAssumption DEF Init, Endings
  <1>10. OneStarts
    BY <1>2, <1>5, <1>6 DEF Init, OneStarts, Once, Late
  <1> QED BY <1>1, <1>4, <1>9, <1>10 DEF IInv

\* A thread other than the one for signals goes on.
LEMMA Continues ==
  ASSUME IInv, NEW t \in Threads, t # "sig", NEW p, Changes(t, p), t \in Monitors => KeyShape(p),
         \A u \in ended' : (u \in ended /\ u # t) \/ (u = t /\ t \in Monitors /\ p = <<>>),
         "sig" \in ended => "sig" \in ended', sigint => sigint', exited => exited',
         \A m \in Mutexes : owner'[m] = "dead" => owner[m] = "dead" \/ (ExecText /\ m = "paint")
  PROVE  Disciplined' /\ Endings' /\ prog' \in [Threads -> Programs]
  <1>1. Disciplined' /\ prog' \in [Threads -> Programs] /\ prog'[t] = p
    BY ChangesKeep DEF IInv
  <1>2. \A u \in Threads : u # t => prog'[u] = prog[u] /\ Has(u)' = Has(u)
    BY DEF Changes, IInv, Types
  <1>3. {"main", "sig"} \subseteq Threads /\ Monitors \subseteq Threads
    BY DEF Threads
  <1>4. prog'["sig"] = prog["sig"] /\ Has("sig")' = Has("sig")
    BY <1>2, <1>3
  <1>5. SigState'
    BY <1>4 DEF IInv, Endings, SigState
  <1>6. SigEnd'
    BY <1>4 DEF IInv, Endings, SigEnd
  <1>7. \A u \in ended' : prog'[u] = <<>> /\ (u \in Monitors \/ (u = "sig" /\ sigint'))
    BY <1>1, <1>2 DEF IInv, Endings, Types
  <1>8. \A u \in Monitors : KeyShape(prog'[u])
    BY <1>1, <1>2, <1>3 DEF IInv, Endings
  <1>9. \A m \in Mutexes : owner'[m] = "dead" => ExecText /\ m = "paint"
    BY DEF IInv, Endings
  <1>10. Endings'
    BY <1>5, <1>6, <1>7, <1>8, <1>9 DEF Endings
  <1> QED BY <1>1, <1>10

\* The thread for signals goes on.
LEMMA SigContinues ==
  ASSUME IInv, NEW p, Changes("sig", p), SigState', \A i \in 1..Len(p) : p[i].do = "end" => sigint',
         ended' = ended \/ (ended' = ended \union {"sig"} /\ p = <<>> /\ sigint'), "sig" \notin ended,
         sigint => sigint', \A m \in Mutexes : owner'[m] = "dead" => owner[m] = "dead",
         monitor' = monitor, cancelled' = cancelled
  PROVE  Disciplined' /\ Endings' /\ OneStarts' /\ prog' \in [Threads -> Programs]
  <1>1. {"main", "sig"} \subseteq Threads /\ Monitors \subseteq Threads
    BY DEF Threads
  <1>2. Disciplined' /\ prog' \in [Threads -> Programs] /\ prog'["sig"] = p
    BY <1>1, ChangesKeep DEF IInv
  <1>3. \A u \in Threads : u # "sig" => prog'[u] = prog[u]
    BY DEF Changes, IInv, Types
  <1>4. SigEnd'
    BY <1>2 DEF SigEnd
  <1>5. \A u \in ended' : prog'[u] = <<>> /\ (u \in Monitors \/ (u = "sig" /\ sigint'))
    BY <1>1, <1>2, <1>3 DEF IInv, Endings, Types
  <1>6. "sig" \notin Monitors /\ "sig" # "main"
    BY ThreadsAssumption
  <1>7. \A u \in Monitors : KeyShape(prog'[u])
    BY <1>1, <1>3, <1>6 DEF IInv, Endings
  <1>8. \A m \in Mutexes : owner'[m] = "dead" => ExecText /\ m = "paint"
    BY DEF IInv, Endings
  <1>9. Endings'
    BY <1>4, <1>5, <1>7, <1>8 DEF Endings
  <1>10. prog'["main"] = prog["main"]
    BY <1>1, <1>3, <1>6
  <1>11. OneStarts'
    BY <1>6, <1>10 DEF IInv, OneStarts, Once, Late
  <1> QED BY <1>2, <1>9, <1>11

\* No monitor starts or is cancelled.
LEMMA NoneStarts ==
  ASSUME OneStarts, monitor' = monitor, Once(prog'["main"]), Late(prog["main"]) => Late(prog'["main"]),
         \A m \in Monitors : m \in (ended' \union cancelled') <=> m \in ended \union cancelled,
         monitor \in Monitors
  PROVE  OneStarts'
  BY DEF OneStarts

\* A thread other than the one for signals begins a program.
LEMMA BeginKeeps ==
  ASSUME IInv, NEW t \in Threads, t # "sig", Idle(t), NEW p, NEW K,
         Does(p, {}, {}, K), K \subseteq KindsOf(t), Begin(t, p),
         t \in Monitors => KeyShape(p), t = "main" => Once(p) /\ Late(p),
         UNCHANGED <<owner, ended, monitor, onEvdev, cancelled, sigint, armed, exited>>
  PROVE  IInv'
  <1>1. prog[t] = <<>> /\ t \notin ended /\ Ends(prog[t], Has(t), {})
    BY DEF Idle, IInv, Disciplined, Keeps
  <1>2. Changes(t, p)
    BY <1>1, BeginChanges DEF IInv
  <1>3. Disciplined' /\ Endings' /\ prog' \in [Threads -> Programs]
    BY <1>1, <1>2, Continues
  <1>4. Types'
    BY <1>3 DEF IInv, Types
  <1>5. "main" \in Threads
    BY DEF Threads
  <1>6. Once(prog'["main"]) /\ (Late(prog["main"]) => Late(prog'["main"]))
    BY <1>2, <1>5 DEF Changes, IInv, Types, OneStarts
  <1>7. OneStarts'
    BY <1>6, NoneStarts DEF IInv, Types
  <1> QED BY <1>3, <1>4, <1>7 DEF IInv

\* 'set event dev' cancels the monitor before it starts another, once.
LEMMA EvdevShape == Once(CommandProg("evdev")) /\ Late(CommandProg("evdev"))
  <1> DEFINE p == CommandProg("evdev")
             a == [do |-> "cancel", on |-> ""]
             b == [do |-> "access", on |-> "reopen"]
             c == [do |-> "start", on |-> ""]
  <1>1. p = <<a>> \o <<b>> \o <<c>>
    BY DEF CommandProg, Special, Access
  <1>2. /\ a.do = "cancel" /\ b.do = "access" /\ c.do = "start"
        /\ a \in {a, b, c} /\ b \in {a, b, c} /\ c \in {a, b, c}
    OBVIOUS
  <1> HIDE DEF a, b, c, p
  <1>3. Len(p) = 3 /\ p[1].do = "cancel" /\ p[2].do = "access" /\ p[3].do = "start"
    <2>1. Len(p) = 3 /\ p[1] = a /\ p[2] = b /\ p[3] = c
      <3> DEFINE x == <<a>> \o <<b>> \o <<c>>
      <3>1. Len(x) = 3 /\ x \in Seq({a, b, c}) /\ x[1] = a /\ x[2] = b /\ x[3] = c
        BY <1>2
      <3>2. p = x
        BY <1>1
      <3> HIDE DEF x
      <3> QED BY <3>1, <3>2
    <2> QED BY <1>2, <2>1
  <1>4. \A i \in 1..Len(p) : p[i].do = "start" => i = 3
    BY <1>3
  <1>5. 1 \in 1..3-1
    OBVIOUS
  <1>6. Once(p) /\ Late(p)
    BY <1>3, <1>4, <1>5 DEF Once, Late
  <1> QED BY <1>6 DEF p

\* What follows without a start changes nothing about the starts before it.
LEMMA StartsBefore ==
  ASSUME NEW p \in Programs, NEW q \in Programs, Once(p), Late(p), Only(q, MainKinds)
  PROVE  Once(p \o q) /\ Late(p \o q)
  <1> DEFINE r == p \o q
  <1>1. /\ Len(r) = Len(p) + Len(q) /\ Len(p) \in Nat /\ Len(q) \in Nat
        /\ \A i \in 1..Len(p) : r[i] = p[i]
        /\ \A i \in 1..Len(q) : r[Len(p) + i] = q[i]
    BY ConcatLen
  <1>2. \A i \in 1..Len(p)+Len(q) : i \in 1..Len(p) \/ \E j \in 1..Len(q) : i = Len(p) + j
    BY ConcatLen
  <1> HIDE DEF r
  <1>3. \A i \in 1..Len(r) : r[i].do = "start" => i \in 1..Len(p) /\ p[i].do = "start"
    <2>1. "start" \notin MainKinds
      BY DEF MainKinds, Plain
    <2>2. \A i \in 1..Len(q) : q[i].do # "start"
      BY <2>1 DEF Only
    <2> SUFFICES ASSUME NEW i \in 1..Len(r), r[i].do = "start"
                 PROVE  i \in 1..Len(p) /\ p[i].do = "start"
      OBVIOUS
    <2>3. i \in 1..Len(p) \/ \E j \in 1..Len(q) : i = Len(p) + j
      BY <1>1, <1>2
    <2>4. i \in 1..Len(p)
      BY <1>1, <2>2, <2>3
    <2> QED BY <1>1, <2>4
  <1>4. Once(r)
    BY <1>3 DEF Once
  <1>5. Late(r)
    <2> SUFFICES ASSUME NEW i \in 1..Len(r), r[i].do = "start"
                 PROVE  \E j \in 1..i-1 : r[j].do = "cancel"
      BY DEF Late
    <2>1. PICK j \in 1..i-1 : p[j].do = "cancel"
      BY <1>3 DEF Late
    <2>2. j \in 1..Len(p)
      BY <1>1, <1>3, <2>1
    <2> QED BY <1>1, <2>1, <2>2
  <1> QED BY <1>4, <1>5 DEF r

\* A command of a client begins.
LEMMA CommandKeeps == IInv /\ BeginCommand => IInv'
  <1> SUFFICES ASSUME IInv, BeginCommand PROVE IInv'
    OBVIOUS
  <1>1. PICK c \in Commands : Begin("main", CommandProg(c) \o Arming)
    BY DEF BeginCommand
  <1>2. "main" \in Threads /\ "main" \notin Monitors /\ MainKinds \union {"start"} \subseteq KindsOf("main")
    BY ThreadsAssumption DEF Threads, KindsOf
  <1>3. PICK K \in {MainKinds, MainKinds \union {"start"}} : Does(CommandProg(c), {}, {}, K)
    BY RunCommand
  <1>4. Once(CommandProg(c)) /\ Late(CommandProg(c))
    <2>1. CASE c = "evdev"
      BY <2>1, EvdevShape
    <2>2. CASE c # "evdev"
      <3>1. Only(CommandProg(c), MainKinds) /\ "start" \notin MainKinds
        BY <2>2, RunCommand DEF Does, MainKinds, Plain
      <3>2. \A i \in 1..Len(CommandProg(c)) : CommandProg(c)[i].do # "start"
        BY <3>1 DEF Only
      <3> QED BY <3>2 DEF Once, Late
    <2> QED BY <2>1, <2>2
  <1>5. K \subseteq KindsOf("main") /\ MainKinds \subseteq K
    BY <1>2
  <1>6. Does(CommandProg(c) \o Arming, {}, {}, K)
    BY <1>3, <1>5, RunArming, More, Then
  <1>7. Once(CommandProg(c) \o Arming) /\ Late(CommandProg(c) \o Arming)
    BY <1>3, <1>4, RunArming, StartsBefore DEF Does, Runs
  <1> QED BY <1>1, <1>2, <1>5, <1>6, <1>7, BeginKeeps DEF BeginCommand

\* The animation thread begins a turn.
LEMMA AnimKeeps == IInv /\ BeginAnim => IInv'
  <1> SUFFICES ASSUME IInv, BeginAnim PROVE IInv'
    OBVIOUS
  <1>1. "anim" \in Threads /\ "anim" \notin Monitors /\ Plain \union {"wait"} \subseteq KindsOf("anim")
    BY ThreadsAssumption DEF Threads, KindsOf
  <1> QED BY <1>1, RunAnim, BeginKeeps DEF BeginAnim

\* A key is pressed.
LEMMA KeyKeeps == ASSUME IInv, NEW m \in Monitors, BeginKey(m) PROVE IInv'
  <1>1. m \in Threads /\ m \notin {"main", "sig", "anim"} /\ Plain \subseteq KindsOf(m)
    BY ThreadsAssumption DEF Threads, KindsOf
  <1>2. PICK k \in Keys : Begin(m, KeyProg(k, m \in onEvdev))
    BY DEF BeginKey
  <1>3. KeyShape(KeyProg(k, m \in onEvdev)) /\ Does(KeyProg(k, m \in onEvdev), {}, {}, Plain)
    BY KeyShapes, RunKey
  <1> QED BY <1>1, <1>2, <1>3, BeginKeeps DEF BeginKey

\* A monitor that dies holds at most mtx_paint, while a text waits for a program.
LEMMA DyingHolds ==
  ASSUME IInv, NEW m \in Monitors, Idle(m) \/ Executing(m), NEW x \in Mutexes, owner[x] = m
  PROVE  ExecText /\ x = "paint"
  <1> DEFINE p == prog[m]
  <1>1. m \in Threads /\ m \notin {"main", "sig", "anim"}
    BY ThreadsAssumption DEF Threads
  <1>2. p \in Programs /\ Ends(p, Has(m), {}) /\ Only(p, KindsOf(m)) /\ KeyShape(p) /\ x \in Has(m)
    BY <1>1 DEF IInv, Types, Disciplined, Keeps, Endings, Has
  <1> HIDE DEF p
  <1>3. p # <<>>
    BY <1>2, EmptyProgram
  <1>4. ExecText /\ Head(p).on = "render"
    BY <1>3 DEF Idle, Executing, p
  <1>5. p[1].on = "render" /\ 1 \in 1..Len(p)
    BY <1>2, <1>3, <1>4 DEF Programs
  <1>6. PaintsOnly(p)
    BY <1>2, <1>5 DEF KeyShape, NeverPaints
  <1>7. ~Held(p, Has(m), Len(p) + 1, x)
    BY <1>2 DEF Ends
  <1>8. ~Kept(p, 0, Len(p) + 1, x)
    BY <1>2, <1>7 DEF Held
  <1>9. PICK k \in 0+1..(Len(p)+1)-1 : Releases(p[k], x)
    BY <1>8 DEF Kept
  <1>10. k \in 1..Len(p)
    BY <1>2, <1>9 DEF Programs
  <1>11. p[k].do # "wait"
    BY <1>1, <1>2, <1>10 DEF Only, KindsOf, Plain
  <1> QED BY <1>4, <1>6, <1>9, <1>10, <1>11 DEF Releases, PaintsOnly

\* A cancelled monitor dies.
LEMMA DiesKeeps == ASSUME IInv, NEW m \in Monitors, MonitorDies(m) PROVE IInv'
  <1>1. m \in Threads /\ m \notin {"main", "sig", "anim"}
    BY ThreadsAssumption DEF Threads
  <1>2. Changes(m, <<>>)
    BY DiesChanges DEF MonitorDies, IInv
  <1>3. \A x \in Mutexes : owner'[x] = IF owner[x] = m THEN "dead" ELSE owner[x]
    BY DEF MonitorDies, Dies
  <1>4. \A x \in Mutexes : owner'[x] = "dead" => owner[x] = "dead" \/ (ExecText /\ x = "paint")
    BY <1>3, DyingHolds DEF MonitorDies
  <1>5. /\ ended' = ended \union {m} /\ cancelled' = cancelled \ {m} /\ m \in cancelled
        /\ UNCHANGED <<monitor, sigint, armed, exited>>
    BY DEF MonitorDies, Dies
  <1>6. \A u \in ended : u # m
    BY DEF MonitorDies, Idle, Executing, IInv, Endings
  <1>7. KeyShape(<<>>)
    <2>1. 1..Len(<<>>) = {}
      BY EmptyProgram
    <2> QED BY <2>1 DEF KeyShape, NeverPaints
  <1>8. Disciplined' /\ Endings' /\ prog' \in [Threads -> Programs]
    BY <1>1, <1>2, <1>4, <1>5, <1>6, <1>7, Continues
  <1>9. owner' \in [Mutexes -> Threads \union {None, "dead"}]
    <2>1. owner' = [x \in Mutexes |-> IF owner[x] = m THEN "dead" ELSE owner[x]]
      BY DEF MonitorDies, Dies
    <2> QED BY <2>1 DEF IInv, Types
  <1>10. Types'
    BY <1>1, <1>5, <1>8, <1>9 DEF IInv, Types
  <1>11. prog'["main"] = prog["main"]
    BY <1>1, <1>2 DEF Changes, IInv, Types, Threads
  <1>12. OneStarts'
    BY <1>5, <1>11, NoneStarts DEF IInv, Types, OneStarts
  <1> QED BY <1>8, <1>10, <1>12 DEF IInv

\* SIGALRM is delivered.
LEMMA AlarmKeeps == ASSUME IInv, NEW t \in Threads, Alarm(t) PROVE IInv'
  <1> DEFINE p == AlarmProg \o prog[t]
  <1>1. /\ t # "sig" /\ t \notin ended
        /\ UNCHANGED <<owner, ended, monitor, onEvdev, cancelled, sigint, exited>> /\ armed' = FALSE
    BY DEF Alarm
  <1>2. Changes(t, p)
    BY <1>1, AlarmChanges DEF IInv
  <1>3. prog[t] \in Programs
    BY DEF IInv, Types
  <1>4. t \in Monitors => KeyShape(p)
    BY <1>3, AlarmShapes DEF IInv, Endings
  <1>5. Disciplined' /\ Endings' /\ prog' \in [Threads -> Programs]
    <2> HIDE DEF p
    <2> QED BY <1>1, <1>2, <1>4, Continues
  <1>6. Types'
    BY <1>1, <1>5 DEF IInv, Types
  <1>7. "main" \in Threads
    BY DEF Threads
  <1>8. prog'["main"] = IF t = "main" THEN p ELSE prog["main"]
    BY <1>2, <1>7 DEF Changes, IInv, Types
  <1>9. Once(prog'["main"]) /\ (Late(prog["main"]) => Late(prog'["main"]))
    BY <1>3, <1>8, AlarmShapes DEF IInv, OneStarts
  <1>10. OneStarts'
    BY <1>1, <1>9, NoneStarts DEF IInv, Types
  <1> QED BY <1>5, <1>6, <1>10 DEF IInv

\* The signal handler thread begins a program.
LEMMA SigBegins ==
  ASSUME IInv, Idle("sig"), NEW p, Changes("sig", p), Begin("sig", p),
         Cleaning(p) \/ (Only(p, Plain) /\ Ends(p, Has("sig"), {})),
         \A i \in 1..Len(p) : p[i].do = "end" => sigint,
         UNCHANGED <<owner, ended, monitor, onEvdev, cancelled, sigint, armed, exited>>
  PROVE  IInv'
  <1>1. "sig" \in Threads
    BY DEF Threads
  <1>2. prog'["sig"] = p /\ Has("sig")' = Has("sig")
    BY <1>1 DEF Begin, IInv, Types, Has
  <1>3. SigState'
    BY <1>2 DEF SigState
  <1>4. Disciplined' /\ Endings' /\ OneStarts' /\ prog' \in [Threads -> Programs]
    BY <1>3, SigContinues DEF Idle
  <1>5. Types'
    BY <1>4 DEF IInv, Types
  <1> QED BY <1>4, <1>5 DEF IInv

\* A console switch begins.
LEMMA SwitchKeeps == IInv /\ BeginSwitch => IInv'
  <1> SUFFICES ASSUME IInv, BeginSwitch PROVE IInv'
    OBVIOUS
  <1>1. PICK p \in SignalProgs : Begin("sig", p)
    BY DEF BeginSwitch
  <1>2. "sig" \in Threads /\ Plain \subseteq KindsOf("sig") /\ Idle("sig")
    BY DEF Threads, KindsOf, BeginSwitch
  <1>3. Does(p, {}, {}, Plain)
    BY RunSignal
  <1>4. prog["sig"] = <<>> /\ "sig" \notin ended /\ ~exited
    BY <1>2 DEF Idle
  <1>5. Ends(<<>>, Has("sig"), {})
    BY <1>4, EmptyProgram DEF IInv, Endings, SigState, Cleaning
  <1>6. Changes("sig", p)
    BY <1>1, <1>2, <1>3, <1>4, <1>5, BeginChanges DEF IInv, BeginSwitch
  <1>7. Has("sig") = {}
    BY <1>5, EmptyProgram DEF Has
  <1>8. Only(p, Plain) /\ Ends(p, Has("sig"), {})
    BY <1>3, <1>7 DEF Does, Runs
  <1>9. \A i \in 1..Len(p) : p[i].do # "end"
    BY <1>8 DEF Only, Plain
  <1> QED BY <1>1, <1>2, <1>6, <1>8, <1>9, SigBegins DEF BeginSwitch

\* do_cleanup begins, after SIGINT or SIGTERM.
LEMMA CleanupKeeps ==
  ASSUME IInv, Idle("sig"), NEW end \in {"end", "exit"}, end = "end" => sigint,
         Begin("sig", CleanupProg(end)),
         UNCHANGED <<owner, ended, monitor, onEvdev, cancelled, sigint, armed, exited>>
  PROVE  IInv'
  <1> DEFINE p == CleanupProg(end)
             a == [do |-> "trytty", on |-> ""]
             b == [do |-> "access", on |-> "cleanup"]
             c == [do |-> end, on |-> ""]
  <1>1. a \in StepRecords /\ b \in StepRecords /\ c \in StepRecords
    BY DEF StepRecords, Kinds, Names
  <1>2. /\ p = <<a>> \o <<b>> \o <<c>>
        /\ a.do = "trytty" /\ b.do = "access" /\ b.on = "cleanup" /\ c.do = end
    BY DEF CleanupProg, Special, Access
  <1> HIDE DEF a, b, c, p
  <1>3. /\ Len(p) = 3 /\ p[1].do = "trytty" /\ p[2].do = "access" /\ p[2].on = "cleanup" /\ p[3].do = end
        /\ \A i \in 1..Len(p) : i = 1 \/ i = 2 \/ i = 3
    <2>1. Len(p) = 3 /\ p[1] = a /\ p[2] = b /\ p[3] = c
      <3> DEFINE x == <<a>> \o <<b>> \o <<c>>
      <3>1. Len(x) = 3 /\ x \in Seq(StepRecords) /\ x[1] = a /\ x[2] = b /\ x[3] = c
        BY <1>1
      <3>2. p = x
        BY <1>2
      <3> HIDE DEF x
      <3> QED BY <3>1, <3>2
    <2>2. \A i \in 1..3 : i = 1 \/ i = 2 \/ i = 3
      OBVIOUS
    <2> QED BY <1>2, <2>1, <2>2
  <1>4. p \in Programs
    <2>1. <<a>> \o <<b>> \o <<c>> \in Seq(StepRecords)
      BY <1>1
    <2> QED BY Zenon, <1>2, <2>1 DEF Programs
  <1>5. Cleaning(p) /\ Cleans(p) /\ Only(p, KindsOf("sig"))
    <2>1. KindsOf("sig") = Plain \union {"trytty", "end", "exit"}
      BY DEF KindsOf
    <2>2. Cleaning(p)
      BY <1>3 DEF Cleaning, CleanupAccess
    <2>3. \A i \in 1..Len(p) : \/ p[i].do \in {"trytty", "end", "exit"}
                               \/ p[i].do = "access" /\ p[i].on = "cleanup"
      BY <1>3
    <2> QED BY <2>1, <2>2, <2>3 DEF Cleans, Only, Plain
  <1>6. \A i \in 1..Len(p) : p[i].do = "end" => sigint
    BY <1>3
  <1>7. \A u : Has(u)' = Has(u)
    BY DEF Has
  <1>8. Changes("sig", p)
    BY <1>4, <1>5, <1>7, KeepsCleanup DEF Changes, Begin, p
  <1> QED BY <1>5, <1>6, <1>8, SigBegins DEF p

-----------------------------------------------------------------------------
(* The steps                                                               *)

\* What a step may change besides the mutexes.
Effect(t) ==
  LET kind == prog[t][1].do
  IN  CASE kind = "end"    -> ended' = ended \union {t} /\ UNCHANGED <<monitor, cancelled, exited>>
        [] kind = "exit"   -> exited' /\ UNCHANGED <<ended, monitor, cancelled>>
        [] kind = "cancel" -> CancelStep(t)
        [] kind = "start"  -> StartStep(t)
        [] OTHER           -> UNCHANGED <<ended, monitor, cancelled, exited>>

\* The thread that takes a step runs, and the step has its effect.
LEMMA StepFrame ==
  ASSUME IInv, NEW t \in Threads, Step(t)
  PROVE  /\ prog[t] \in Programs /\ prog[t] # <<>> /\ t \notin ended /\ ~exited /\ Head(prog[t]) = prog[t][1]
         /\ prog[t][1].do \in KindsOf(t) /\ 1 \in 1..Len(prog[t])
         /\ (sigint => sigint') /\ sigint' \in BOOLEAN /\ exited' \in BOOLEAN
         /\ Effect(t)
  <1>1. prog[t] # <<>> /\ ~exited
    BY DEF Step, LockStep, UnlockStep, AccessStep, WaitStep, CancelStep, StartStep, KillStep, JoinStep,
           SigReturnStep, TryTtyStep, EndStep, ExitStep, At
  <1>2. prog[t] \in Programs /\ Keeps(t, prog[t], Has(t)) /\ Only(prog[t], KindsOf(t)) /\ t \notin ended
    BY <1>1 DEF IInv, Types, Disciplined, Endings
  <1>3. Head(prog[t]) = prog[t][1] /\ prog[t][1].do \in KindsOf(t) /\ 1 \in 1..Len(prog[t])
    BY <1>1, <1>2, HeadFacts
  <1>4. \A s : At(t, s) <=> prog[t][1].do = s
    BY <1>1, <1>3 DEF At
  <1>5. (sigint => sigint') /\ sigint' \in BOOLEAN /\ exited' \in BOOLEAN
    <2>1. (sigint' = sigint \/ sigint' = TRUE) /\ (exited' = exited \/ exited' = TRUE)
      BY DEF Step, LockStep, UnlockStep, AccessStep, WaitStep, CancelStep, StartStep, KillStep, JoinStep,
             SigReturnStep, TryTtyStep, EndStep, ExitStep
    <2>2. sigint \in BOOLEAN /\ exited \in BOOLEAN
      BY DEF IInv, Types
    <2>3. sigint' \in BOOLEAN /\ (sigint => sigint')
      <3>1. CASE sigint' = sigint
        BY <2>2, <3>1
      <3>2. CASE sigint' = TRUE
        BY <3>2
      <3> QED BY <2>1, <3>1, <3>2
    <2>4. exited' \in BOOLEAN
      <3>1. CASE exited' = exited
        BY <2>2, <3>1
      <3>2. CASE exited' = TRUE
        BY <3>2
      <3> QED BY <2>1, <3>1, <3>2
    <2> QED BY <2>3, <2>4
  <1>6. Effect(t)
    BY <1>4 DEF Effect, Step, LockStep, UnlockStep, AccessStep, WaitStep, CancelStep, StartStep, KillStep, JoinStep,
                SigReturnStep, TryTtyStep, EndStep, ExitStep
  <1> QED BY <1>1, <1>2, <1>3, <1>5, <1>6

\* mtx_tty is only tried in do_cleanup.
LEMMA SigOnly ==
  ASSUME IInv, At("sig", "trytty")
  PROVE  Cleans(prog["sig"])
  <1> DEFINE p == prog["sig"]
  <1>1. p \in Programs /\ p # <<>> /\ Head(p).do = "trytty"
    BY DEF IInv, Types, At, Threads
  <1>2. p[1].do = "trytty" /\ 1 \in 1..Len(p)
    BY <1>1 DEF Programs
  <1>3. Cleaning(p)
    BY <1>1, <1>2 DEF IInv, Endings, SigState, Only, Plain
  <1> HIDE DEF p
  <1>4. Len(p) = 3 /\ CleanupAccess(p[2]) /\ p[3].do \in {"end", "exit"}
    BY <1>2, <1>3 DEF Cleaning, CleanupAccess
  <1>5. \A i \in 1..3 : i = 1 \/ i = 2 \/ i = 3
    OBVIOUS
  <1>6. Cleans(p)
    BY <1>2, <1>4, <1>5 DEF Cleans, CleanupAccess
  <1> QED BY <1>6 DEF p

\* The signal handler thread takes a step.
LEMMA SigStepKeeps == ASSUME IInv, Step("sig") PROVE Disciplined' /\ Endings' /\ OneStarts'
  <1> DEFINE p == prog["sig"]
             q == Tail(p)
  <1>1. "sig" \in Threads
    BY DEF Threads
  <1>2. /\ Changes("sig", q) /\ \A m \in Mutexes : owner'[m] \in {owner[m], None, "sig"}
        /\ Ends(p, Has("sig"), {}) /\ ~At("sig", "trytty") => Ends(q, Has("sig")', {})
    BY <1>1, SigOnly, StepChanges DEF IInv
  <1>3. /\ p \in Programs /\ p # <<>> /\ "sig" \notin ended /\ ~exited /\ Head(p) = p[1]
        /\ p[1].do \in KindsOf("sig") /\ 1 \in 1..Len(p) /\ (sigint => sigint')
        /\ CASE p[1].do = "end" -> ended' = ended \union {"sig"} /\ UNCHANGED <<monitor, cancelled, exited>>
              [] p[1].do = "exit" -> exited' /\ UNCHANGED <<ended, monitor, cancelled>>
              [] p[1].do = "cancel" -> CancelStep("sig")
              [] p[1].do = "start" -> StartStep("sig")
              [] OTHER -> UNCHANGED <<ended, monitor, cancelled, exited>>
    BY <1>1, StepFrame DEF Effect
  <1>4. prog'["sig"] = q
    BY <1>1, <1>2 DEF Changes, IInv, Types
  <1>5. At("sig", "trytty") => p[1].do = "trytty"
    BY <1>3 DEF At
  <1>6. Cleaning(p) \/ (Only(p, Plain) /\ Ends(p, Has("sig"), {}))
    BY <1>3 DEF IInv, Endings, SigState
  <1>7. \A i \in 1..Len(p) : p[i].do = "end" => sigint
    BY DEF IInv, Endings, SigEnd
  <1> HIDE DEF p
  <1>8. /\ q \in Programs /\ Len(q) = Len(p) - 1 /\ Len(p) \in Nat /\ Len(q) \in Nat
        /\ \A i \in 1..Len(q) : q[i] = p[i + 1]
    BY <1>3, HeadTailProperties DEF Programs
  <1> HIDE DEF q
  <1>9. \A i \in 1..Len(q) : i + 1 \in 1..Len(p)
    BY <1>8
  <1>10. \A i \in 1..Len(q) : q[i].do = "end" => sigint'
    BY <1>3, <1>7, <1>8, <1>9
  <1>11. "sig" # "dead" /\ None # "dead"
    BY <1>1, ThreadsAssumption
  <1>12. \A m \in Mutexes : owner'[m] = "dead" => owner[m] = "dead"
    BY <1>2, <1>11
  <1>13. CASE Only(p, Plain) /\ Ends(p, Has("sig"), {})
    <2>1. p[1].do \in Plain
      BY <1>3, <1>13 DEF Only
    <2>2. Only(q, Plain) /\ Ends(q, Has("sig")', {})
      BY <1>2, <1>5, <1>8, <1>9, <1>13, <2>1 DEF Only, Plain
    <2>3. SigState'
      BY <1>4, <2>2 DEF SigState
    <2>4. UNCHANGED <<ended, monitor, cancelled, exited>>
      BY <1>3, <2>1 DEF Plain
    <2> QED BY <1>2, <1>3, <1>10, <1>12, <2>3, <2>4, SigContinues
  <1>14. CASE \/ Len(p) = 3 /\ p[1].do = "trytty" /\ CleanupAccess(p[2]) /\ p[3].do \in {"end", "exit"}
              \/ Len(p) = 2 /\ CleanupAccess(p[1]) /\ p[2].do \in {"end", "exit"}
    <2>1. Cleaning(q)
      BY <1>8, <1>14 DEF Cleaning
    <2>2. SigState'
      BY <1>4, <2>1 DEF SigState
    <2>3. UNCHANGED <<ended, monitor, cancelled, exited>>
      BY <1>3, <1>14 DEF CleanupAccess
    <2> QED BY <1>2, <1>3, <1>10, <1>12, <2>2, <2>3, SigContinues
  <1>15. CASE Len(p) = 1 /\ p[1].do \in {"end", "exit"}
    <2>1. q = <<>>
      BY <1>8, <1>15, EmptySeq DEF Programs
    <2>2. p[1].do = "end" => ended' = ended \union {"sig"} /\ sigint' /\ UNCHANGED <<monitor, cancelled, exited>>
      BY <1>3, <1>7
    <2>3. p[1].do = "exit" => exited' /\ UNCHANGED <<ended, monitor, cancelled>>
      BY <1>3
    <2>4. SigState'
      BY <1>4, <1>15, <2>1, <2>2, <2>3 DEF SigState
    <2> QED BY <1>2, <1>3, <1>10, <1>12, <1>15, <2>1, <2>2, <2>3, <2>4, SigContinues
  <1> QED BY <1>6, <1>13, <1>14, <1>15 DEF Cleaning

\* Another thread takes a step; a command may replace the monitor.
LEMMA OtherStepKeeps ==
  ASSUME IInv, NEW t \in Threads, t # "sig", Step(t)
  PROVE  Disciplined' /\ Endings' /\ OneStarts'
  <1> DEFINE p == prog[t]
             q == Tail(p)
  <1>1. Changes(t, q) /\ \A m \in Mutexes : owner'[m] \in {owner[m], None, t}
    BY SigOnly, StepChanges DEF IInv
  <1>2. /\ p \in Programs /\ p # <<>> /\ t \notin ended /\ ~exited
        /\ p[1].do \in KindsOf(t) /\ (sigint => sigint')
        /\ CASE p[1].do = "end" -> ended' = ended \union {t} /\ UNCHANGED <<monitor, cancelled, exited>>
              [] p[1].do = "exit" -> exited' /\ UNCHANGED <<ended, monitor, cancelled>>
              [] p[1].do = "cancel" -> CancelStep(t)
              [] p[1].do = "start" -> StartStep(t)
              [] OTHER -> UNCHANGED <<ended, monitor, cancelled, exited>>
    BY StepFrame DEF Effect
  <1>3. t \in Monitors => KeyShape(p)
    BY DEF IInv, Endings
  <1>4. Once(prog["main"]) /\ (monitor \in ended \union cancelled \/ Late(prog["main"]))
        /\ Monitors \ (ended \union cancelled) \subseteq {monitor} /\ monitor \in Monitors
    BY DEF IInv, OneStarts, Types
  <1>5. "main" \in Threads /\ prog'["main"] = IF t = "main" THEN q ELSE prog["main"]
    BY <1>1 DEF Changes, IInv, Types, Threads
  <1> HIDE DEF p
  <1>6. /\ Once(p) => Once(q)
        /\ Late(p) /\ p[1].do # "cancel" => Late(q)
        /\ Once(p) /\ p[1].do = "start" => Late(q)
        /\ KeyShape(p) => KeyShape(q)
    BY <1>2, TailShapes
  <1> HIDE DEF q
  <1>7. p[1].do # "end" /\ (p[1].do \in {"cancel", "start"} => t = "main")
    BY <1>2 DEF KindsOf, MainKinds, Plain
  <1>8. p[1].do = "start" => \E m \in Monitors \intersect ended : monitor' = m /\ ended' = ended \ {m} /\ cancelled' = cancelled
                             /\ exited' = exited
    BY <1>2 DEF StartStep
  <1>9. p[1].do = "cancel" => /\ cancelled' = IF monitor \in ended THEN cancelled ELSE cancelled \union {monitor}
                              /\ UNCHANGED <<ended, monitor, exited>>
    BY <1>2 DEF CancelStep
  <1>10. ended' \subseteq ended /\ ("sig" \in ended => "sig" \in ended') /\ (exited => exited')
    BY <1>2, <1>7, <1>8, <1>9, ThreadsAssumption
  <1>11. \A u \in ended' : u \in ended /\ u # t
    BY <1>2, <1>10
  <1>12. \A m \in Mutexes : owner'[m] = "dead" => owner[m] = "dead"
    BY <1>1, NoneIsNone, ThreadsAssumption
  <1>13. Disciplined' /\ Endings'
    BY <1>1, <1>2, <1>3, <1>6, <1>10, <1>11, <1>12, Continues
  <1>14. Once(prog'["main"])
    BY <1>4, <1>5, <1>6 DEF p
  <1>15. CASE p[1].do = "cancel"
    <2>1. monitor' \in ended' \union cancelled' /\ Monitors \ (ended' \union cancelled') \subseteq {monitor'}
      BY <1>4, <1>9, <1>15
    <2> QED BY <1>13, <1>14, <2>1 DEF OneStarts
  <1>16. CASE p[1].do = "start"
    <2>1. t = "main" /\ p = prog["main"]
      BY <1>7, <1>16 DEF p
    <2>2. ~Late(p)
      <3>1. 1 \in 1..Len(p) /\ 1..1-1 = {}
        BY <1>2 DEF Programs
      <3> QED BY <1>16, <3>1 DEF Late
    <2>3. Monitors \ (ended \union cancelled) = {}
      BY <1>4, <2>1, <2>2
    <2>4. Monitors \ (ended' \union cancelled') \subseteq {monitor'}
      BY <1>8, <1>16, <2>3
    <2>5. Late(prog'["main"])
      BY <1>4, <1>5, <1>6, <1>16, <2>1
    <2> QED BY <1>13, <1>14, <2>4, <2>5 DEF OneStarts
  <1>17. CASE p[1].do \notin {"cancel", "start"}
    <2>1. UNCHANGED <<ended, monitor, cancelled>>
      BY <1>2, <1>7, <1>17
    <2>2. Late(prog["main"]) => Late(prog'["main"])
      BY <1>5, <1>6, <1>17 DEF p
    <2> QED BY <1>4, <1>13, <1>14, <2>1, <2>2 DEF OneStarts
  <1> QED BY <1>15, <1>16, <1>17

\* Every step of every thread keeps the invariant.
LEMMA StepKeeps == ASSUME IInv, NEW t \in Threads, Step(t) PROVE IInv'
  <1>1. Changes(t, Tail(prog[t])) /\ owner' \in [Mutexes -> Threads \union {None, "dead"}] /\ armed' \in BOOLEAN
    BY SigOnly, StepChanges DEF IInv
  <1>2. Disciplined' /\ Endings' /\ OneStarts'
    BY SigStepKeeps, OtherStepKeeps
  <1>3. prog' \in [Threads -> Programs]
    BY <1>1, ChangesKeep DEF IInv
  <1>4. sigint' \in BOOLEAN /\ exited' \in BOOLEAN
    BY StepFrame
  <1>5. ended' \subseteq Threads /\ cancelled' \subseteq Monitors /\ monitor' \in Monitors
    <2>1. ended \subseteq Threads /\ cancelled \subseteq Monitors /\ monitor \in Monitors
      BY DEF IInv, Types
    <2>2. CASE prog[t][1].do \notin {"cancel", "start"}
      BY <2>1, <2>2, StepFrame DEF Effect
    <2>3. CASE prog[t][1].do = "cancel"
      BY <2>1, <2>3, StepFrame DEF Effect, CancelStep
    <2>4. CASE prog[t][1].do = "start"
      BY <2>1, <2>4, StepFrame DEF Effect, StartStep
    <2> QED BY <2>2, <2>3, <2>4
  <1> QED BY <1>1, <1>2, <1>3, <1>4, <1>5 DEF IInv, Types

\* Every thread keeps the discipline of the mutexes, threads end as they should,
\* and a new key monitor comes after the cancellation of the last, whatever
\* the commands, keys, signals and the number of monitors.
THEOREM ThreadsInvariance == Spec => []IInv
  <1>1. IInv /\ [Next]_vars => IInv'
    <2> SUFFICES ASSUME IInv, [Next]_vars PROVE IInv'
      OBVIOUS
    <2>1. CASE BeginCommand
      BY <2>1, CommandKeeps
    <2>2. CASE BeginAnim
      BY <2>2, AnimKeeps
    <2>3. CASE BeginSwitch
      BY <2>3, SwitchKeeps
    <2>4. CASE BeginInt
      BY <2>4, CleanupKeeps DEF BeginInt
    <2>5. CASE BeginTerm
      BY <2>5, CleanupKeeps DEF BeginTerm
    <2>6. ASSUME NEW m \in Monitors, BeginKey(m) \/ MonitorDies(m) PROVE IInv'
      BY <2>6, KeyKeeps, DiesKeeps
    <2>7. ASSUME NEW t \in Threads, Alarm(t) \/ Step(t) PROVE IInv'
      BY <2>7, AlarmKeeps, StepKeeps
    <2>8. CASE UNCHANGED vars
      BY <2>8 DEF vars, IInv, Types, Disciplined, Endings, OneStarts, SigState, SigEnd, Has
    <2> QED BY <2>1, <2>2, <2>3, <2>4, <2>5, <2>6, <2>7, <2>8 DEF Next
  <1> QED BY <1>1, InitInvariant, PTL DEF Spec

-----------------------------------------------------------------------------
(* What follows for the properties                                         *)

\* A thread at a step that needs a mutex owns it, and one that waits for a mutex
\* holds those of a smaller rank, unless SIGALRM caught it.
LEMMA Heads ==
  ASSUME IInv, NEW t \in Threads, NEW kind, At(t, kind)
  PROVE  /\ prog[t] \in Programs /\ prog[t] # <<>> /\ 1 \in 1..Len(prog[t])
         /\ prog[t][1].do = kind /\ prog[t][1].on = Of(t) /\ Of(t) \in Names /\ kind \in KindsOf(t)
         /\ kind \in {"lock", "unlock"} => Of(t) \in Mutexes
         /\ kind # "lock" => \A m \in Mutexes : Needs(prog[t][1], m) => owner[m] = t
         /\ \A m \in Mutexes : owner[m] = t => /\ kind = "lock" => Rank(m) < Rank(Of(t)) \/ Handling(t)
                                               /\ kind # "join"
  <1> DEFINE p == prog[t]
  <1>1. p \in Programs /\ p # <<>> /\ Head(p).do = kind /\ Keeps(t, p, Has(t)) /\ Only(p, KindsOf(t))
    BY DEF IInv, Types, Disciplined, At
  <1> HIDE DEF p
  <1>2. /\ Head(p) = p[1] /\ p[1] \in StepRecords /\ 1 \in 1..Len(p) /\ p[1].do \in KindsOf(t)
        /\ p[1].do \in {"lock", "unlock"} => p[1].on \in Mutexes
        /\ ~(p[1].do = "lock" /\ p[1].on \in Has(t)) => \A m \in Mutexes : Needs(p[1], m) => m \in Has(t)
        /\ \A m \in Mutexes : m \in Has(t) => /\ p[1].do = "lock" => Rank(m) < Rank(p[1].on) \/ InHandler(p, 1)
                                              /\ p[1].do # "join"
    BY <1>1, HeadFacts
  <1>3. p[1].do = kind /\ p[1].on = Of(t) /\ p[1].on \in Names
    BY <1>1, <1>2 DEF Of, p, StepRecords
  <1>4. InHandler(p, 1) => Handling(t)
    BY <1>1 DEF InHandler, Handling, Programs, p
  <1>5. \A m \in Mutexes : m \in Has(t) <=> owner[m] = t
    BY DEF Has
  <1> QED BY <1>1, <1>2, <1>3, <1>4, <1>5 DEF p

\* A thread with nothing to do holds no mutex.
LEMMA IdleHolds ==
  ASSUME IInv, NEW t \in Threads, t # "sig", prog[t] = <<>>, NEW m \in Mutexes
  PROVE  owner[m] # t
  <1>1. Ends(<<>>, Has(t), {})
    BY DEF IInv, Disciplined, Keeps
  <1>2. m \notin Has(t)
    BY <1>1, EmptyProgram
  <1> QED BY <1>2 DEF Has

\* The discipline of the programs is the one of the mutexes.
LEMMA Discipline == IInv => MutexDiscipline
  <1> SUFFICES ASSUME IInv PROVE MutexDiscipline
    OBVIOUS
  <1>1. ASSUME NEW t \in Threads, At(t, "unlock") PROVE owner[Of(t)] = t
    BY <1>1, Heads DEF Needs, Releases
  <1>2. ASSUME NEW m \in Mutexes, owner[m] \in ended PROVE owner[m] = "sig" /\ sigint
    <2>1. /\ owner[m] \in Threads /\ prog[owner[m]] = <<>>
          /\ owner[m] \in Monitors \/ (owner[m] = "sig" /\ sigint)
      BY <1>2 DEF IInv, Types, Endings
    <2>2. owner[m] = "sig"
      BY <2>1, IdleHolds
    <2> QED BY <2>1, <2>2, ThreadsAssumption
  <1>3. ASSUME NEW m \in Mutexes, owner[m] = "dead" PROVE ExecText /\ m = "paint"
    BY <1>3 DEF IInv, Endings
  <1> QED BY <1>1, <1>2, <1>3 DEF MutexDiscipline

Guard(d) == IF d \in {"fd_tty", "tty_v", "fd_gpm"} THEN "tty" ELSE "paint"

\* An access of a datum that is not listed as unguarded is made under the
\* mutex for it, or only reads what 'exit' alone writes.
LEMMA GuardedAccess ==
  ASSUME NEW a \in Names, NEW d, d \in Reads(a) \union Writes(a), a \notin Unguarded(d)
  PROVE  a \in Under(Guard(d)) \/ (d = "fd_tty0" /\ d \notin Writes(a))
  <1>1. CASE a \in Under("paint") \union Under("tty")
    BY <1>1 DEF Under, Reads, Writes, Unguarded, Guard
  <1>2. CASE a \notin Under("paint") \union Under("tty")
    <2>1. a # "free"
      BY DEF Unguarded
    <2>2. CASE a \in {"progress", "message", "log", "effects", "settheme", "svcs", "request", "arm"}
      BY <2>2 DEF Reads, Writes, Unguarded
    <2>3. CASE a \in {"alarm", "gpmclose", "reopen", "textbox", "activate", "watchev", "watchtty", "cleanup"}
      BY <2>3 DEF Reads, Writes, Unguarded
    <2>4. CASE a \in {"", "paint", "tty", "anim"}
      BY <2>4 DEF Reads, Writes
    <2> QED BY <1>2, <2>1, <2>2, <2>3, <2>4 DEF Names, Under
  <1> QED BY <1>1, <1>2

\* A thread that makes an access under a mutex owns it.
LEMMA MakingHolds ==
  ASSUME IInv, NEW t \in Threads, NEW a \in Making(t)
  PROVE  a \in Names /\ \A m \in Mutexes : a \in Under(m) => owner[m] = t
  <1>1. CASE At(t, "access")
    <2>1. a = Of(t)
      <3>1. ~(At(t, "lock") /\ Handling(t)) /\ ~Idle(t)
        BY <1>1 DEF At, Idle
      <3>2. Making(t) = {Of(t)}
        BY Zenon, <1>1, <3>1 DEF Making
      <3> QED BY <3>2
    <2>2. /\ Of(t) \in Names /\ prog[t][1].do = "access" /\ prog[t][1].on = Of(t)
          /\ \A m \in Mutexes : Needs(prog[t][1], m) => owner[m] = t
      BY <1>1, Heads
    <2> QED BY <2>1, <2>2 DEF Needs
  <1>2. CASE ~At(t, "access")
    <2>1. a \in {"alarm", "watchev", "watchtty"}
      <3>1. CASE At(t, "lock") /\ Handling(t)
        <4>1. ~Idle(t)
          BY <3>1 DEF At, Idle
        <4> QED BY <1>2, <3>1, <4>1 DEF Making
      <3>2. CASE ~(At(t, "lock") /\ Handling(t))
        BY <1>2, <3>2 DEF Making
      <3> QED BY <3>1, <3>2
    <2> QED BY <2>1 DEF Names, Under
  <1> QED BY <1>1, <1>2

\* Two accesses under the same mutex at once would need it twice.
LEMMA Races == IInv => OnlyKnownRaces
  <1> SUFFICES ASSUME IInv, NEW t \in Threads, NEW u \in Threads, t # u,
                      NEW a \in Making(t), NEW b \in Making(u),
                      NEW d \in Writes(a) \intersect (Reads(b) \union Writes(b)),
                      {a, b} \intersect Unguarded(d) = {}
               PROVE  FALSE
    BY DEF OnlyKnownRaces
  <1>1. Guard(d) \in Mutexes
    BY DEF Guard, Mutexes
  <1>2. a \in Under(Guard(d)) /\ d # "fd_tty0"
    <2>1. a \in Under(Guard(d)) \/ (d = "fd_tty0" /\ d \notin Writes(a))
      BY MakingHolds, GuardedAccess
    <2>2. d = "fd_tty0" => a \in Unguarded(d)
      <3>1. d = "fd_tty0" => a = "free"
        BY DEF Writes
      <3> QED BY <3>1 DEF Unguarded
    <2> QED BY <2>1, <2>2
  <1>3. b \in Under(Guard(d))
    BY <1>2, MakingHolds, GuardedAccess
  <1> QED BY <1>1, <1>2, <1>3, MakingHolds

\* A thread that waits and holds a mutex waits for one that comes later.
LEMMA WaitsInOrder ==
  ASSUME IInv, NEW t \in Threads, ~Caught(t), NEW u, WaitsFor(t, u), NEW m \in Mutexes, owner[m] = t
  PROVE  At(t, "lock") /\ Of(t) \in Mutexes /\ owner[Of(t)] = u /\ m = "paint" /\ Of(t) # "paint"
  <1>1. ~At(t, "join")
    BY Heads
  <1>2. At(t, "lock") /\ owner[Of(t)] = u
    BY <1>1 DEF WaitsFor
  <1>3. Of(t) \in Mutexes /\ (Rank(m) < Rank(Of(t)) \/ Handling(t))
    BY <1>2, Heads
  <1>4. ~Handling(t)
    BY <1>2 DEF Caught
  <1> QED BY <1>2, <1>3, <1>4 DEF Rank

\* Waiting in a circle contradicts the order of the mutexes.
LEMMA Deadlocks == IInv => NoDeadlock
  <1> DEFINE waiting == {t \in Threads : ~Caught(t) /\ \E u \in Threads : WaitsFor(t, u)}
  <1> SUFFICES ASSUME IInv, NEW S \in (SUBSET waiting) \ {{}}, \A t \in S : \E u \in S : WaitsFor(t, u)
               PROVE  FALSE
    BY DEF NoDeadlock
  <1>1. \A t \in S : t \in Threads /\ ~Caught(t) /\ \E u \in S : WaitsFor(t, u)
    OBVIOUS
  <1>2. \A t \in S : ~At(t, "lock")
    <2> SUFFICES ASSUME NEW t \in S, At(t, "lock") PROVE FALSE
      OBVIOUS
    <2>1. Of(t) \in Mutexes /\ ~At(t, "join")
      BY <1>1, Heads DEF At
    <2>2. PICK u \in S : owner[Of(t)] = u
      BY <1>1, <2>1 DEF WaitsFor
    <2>3. PICK v \in S : WaitsFor(u, v)
      BY <1>1
    <2>4. Of(u) \in Mutexes /\ owner[Of(u)] = v /\ Of(u) # "paint"
      BY <1>1, <2>1, <2>2, <2>3, WaitsInOrder
    <2>5. PICK w \in S : WaitsFor(v, w)
      BY <1>1
    <2> QED BY <1>1, <2>4, <2>5, WaitsInOrder
  <1>3. PICK t \in S : TRUE
    OBVIOUS
  <1>4. "sig" \in S
    BY <1>1, <1>2, <1>3 DEF WaitsFor
  <1>5. At("sig", "join")
    BY <1>1, <1>2, <1>4 DEF WaitsFor
  <1>6. "join" \notin KindsOf("sig")
    BY DEF KindsOf, Plain
  <1> QED BY <1>1, <1>4, <1>5, <1>6, Heads

\* A mutex is unlocked by its owner, and no thread ends with one that others
\* may want, but for the defects the property names.
THEOREM DisciplineTheorem == Spec => []MutexDiscipline
  BY ThreadsInvariance, Discipline, PTL

\* Painting, loading a theme and service updates never overlap: each data race
\* involves an access that the code makes without the mutex for the datum.
THEOREM RacesTheorem == Spec => []OnlyKnownRaces
  BY ThreadsInvariance, Races, PTL

\* No set of threads waits for each other, unless SIGALRM was delivered to a
\* thread that held a mutex.
THEOREM DeadlockTheorem == Spec => []NoDeadlock
  BY ThreadsInvariance, Deadlocks, PTL

\* Of any number of key monitors one at most runs without a cancellation pending.
THEOREM MonitorTheorem == Spec => []OneMonitor
  <1>1. IInv => OneMonitor
    BY DEF IInv, OneStarts, OneMonitor
  <1> QED BY <1>1, ThreadsInvariance, PTL
================================================================================
