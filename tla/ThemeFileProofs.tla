---------------------------- MODULE ThemeFileProofs ----------------------------
(***************************************************************************)
(* Proofs about ThemeFile for files of any length and any number of        *)
(* messages: which boxes may disappear without an error, what the log      *)
(* holds, and which objects the theme has in the end.                      *)
(***************************************************************************)
EXTENDS ThemeFile, SequenceTheorems, FiniteSetTheorems, TLAPS

Types ==
  /\ phase \in {"reading", "loaded", "missing", "crashed"}
  /\ file \in Seq(Lines) /\ ignore \in BOOLEAN /\ is_textbox \in BOOLEAN
  /\ bprev \in 0..Len(file) /\ reported \subseteq 1..Len(file)
  /\ objs \in Seq([lines : SUBSET (0..Len(file)), textbox : BOOLEAN])
  /\ log_lines \in Nat /\ log_cnt \in Nat /\ msglog \in [chain : Seq(Nat), tail : Nat]
  /\ phase = "reading" => log_cnt = 0 /\ msglog = Empty

-----------------------------------------------------------------------------
(* Files that grow                                                         *)

Grows(l) == file \in Seq(Lines) /\ l \in Lines /\ file' = Append(file, l)

\* What was read stays as it was read.
LEMMA LineEffect ==
  ASSUME NEW l, Grows(l)
  PROVE  /\ Len(file) \in Nat /\ Len(file') = Here /\ file'[Here] = l /\ file' \in Seq(Lines)
         /\ \A n \in 1..Len(file) : file'[n] = file[n]
         /\ DOMAIN file = 1..Len(file) /\ DOMAIN file' = 1..Here
  BY DEF Grows, Here

\* Whether a line is ignored depends on those before it.
LEMMA IgnoredEffect ==
  ASSUME NEW l, Grows(l), NEW h, h = Here
  PROVE  /\ \A n \in 1..h : Ignored(n)' <=> Ignored(n)
         /\ Ignored(h + 1)' <=> l = <<"<type others>">> \/ (Ignored(h) /\ l # <<"</type>">>)
  <1>1. /\ h \in Nat \ {0} /\ file'[h] = l /\ \A n \in 1..h-1 : file'[n] = file[n]
    BY LineEffect DEF Here
  <1> DEFINE Closed(f, m, n) == \A k \in m+1..n-1 : f[k] # <<"</type>">>
             Opens(f, m) == f[m] = <<"<type others>">>
  <1>2. /\ \A n : Ignored(n) <=> \E m \in 1..n-1 : Opens(file, m) /\ Closed(file, m, n)
        /\ \A n : Ignored(n)' <=> \E m \in 1..n-1 : Opens(file', m) /\ Closed(file', m, n)
    BY DEF Ignored
  <1>3. ASSUME NEW n \in 1..h, NEW m \in 1..n-1
        PROVE  /\ Opens(file', m) <=> Opens(file, m)
               /\ Closed(file', m, n) <=> Closed(file, m, n)
    <2>1. m \in 1..h-1 /\ \A k \in m+1..n-1 : k \in 1..h-1
      BY <1>1, <1>3
    <2> QED BY <1>1, <2>1
  <1>4. \A n \in 1..h : Ignored(n)' <=> Ignored(n)
    BY <1>2, <1>3
  <1>5. h \in 1..h /\ (h + 1) - 1 = h
    BY <1>1
  <1>6. Opens(file', h) <=> l = <<"<type others>">>
    BY <1>1
  <1>7. Closed(file', h, h + 1)
    <2>1. h+1..(h+1)-1 = {}
      BY <1>1
    <2> QED BY <2>1
  <1>8. ASSUME NEW m \in 1..h-1
        PROVE  Closed(file', m, h + 1) <=> Closed(file', m, h) /\ l # <<"</type>">>
    <2>1. \A k : k \in m+1..(h+1)-1 <=> k \in m+1..h-1 \/ k = h
      BY <1>1, <1>8
    <2> QED BY <1>1, <2>1
  <1>9. \A m : m \in 1..h <=> m \in 1..h-1 \/ m = h
    BY <1>1
  <1> HIDE DEF Opens, Closed
  <1>10. Ignored(h + 1)' <=> \E m \in 1..h : Opens(file', m) /\ Closed(file', m, h + 1)
    BY <1>2, <1>5
  <1>11. (\E m \in 1..h-1 : Opens(file', m) /\ Closed(file', m, h + 1))
           <=> Ignored(h) /\ l # <<"</type>">>
    BY <1>2, <1>3, <1>5, <1>8
  <1> QED BY <1>4, <1>6, <1>7, <1>9, <1>10, <1>11

-----------------------------------------------------------------------------
(* Boxes that wait for their other half                                    *)

In(n) == \E o \in 1..Len(objs) : n \in objs[o].lines

Inter(n) == n \in 1..Len(file) /\ file[n] = <<"inter">> /\ ~Ignored(n)

Comments(a, b) == \A k \in a..b : file[k] = <<"comment">>
OnlyComments(n) == Comments(n+1, Len(file))

\* Line m is the first one after n that is not a comment.
Follows(m, n) == m \in n+1..Len(file) /\ file[m] # <<"comment">> /\ Comments(n+1, m-1)

Superseded(n) == \E m \in n+1..Len(file) : Follows(m, n) /\ Inter(m)

\* The box that waits is in no object yet and has no error, and those that wait
\* no longer are in an object, reported, or superseded.
LostInv ==
  /\ ignore <=> Ignored(Here)
  /\ \A n \in 1..Len(file) :
       n = bprev => Inter(n) /\ n \notin reported /\ ~In(n) /\ OnlyComments(n)
  /\ \A n \in reported : ~In(n)
  /\ \A n \in 1..Len(file) : Inter(n) => n = bprev \/ n \in reported \/ In(n) \/ Superseded(n)

\* An object that is added.
LEMMA ObjAddEffect ==
  ASSUME Types, NEW L, ObjAdd(L), L \subseteq 0..Len(file')
  PROVE  /\ \A n : In(n)' <=> In(n) \/ n \in L
         /\ 0..Len(file) \subseteq 0..Len(file') =>
              objs' \in Seq([lines : SUBSET (0..Len(file')), textbox : BOOLEAN])
  <1> DEFINE o == [lines |-> L, textbox |-> is_textbox]
             S == [lines : SUBSET (0..Len(file)), textbox : BOOLEAN]
             T == [lines : SUBSET (0..Len(file')), textbox : BOOLEAN]
  <1>1. objs' = Append(objs, o) /\ objs \in Seq(S) /\ o.lines = L /\ o \in T
    BY DEF ObjAdd, Types
  <1> HIDE DEF o
  <1>2. /\ Len(objs) \in Nat /\ Len(objs') = Len(objs) + 1 /\ objs'[Len(objs) + 1] = o
        /\ \A i \in 1..Len(objs) : objs'[i] = objs[i]
    <2> HIDE DEF S, T
    <2> QED BY <1>1
  <1>3. \A i : i \in 1..Len(objs') <=> i \in 1..Len(objs) \/ i = Len(objs) + 1
    BY <1>2
  <1>4. \A n : In(n)' <=> In(n) \/ n \in L
    BY <1>1, <1>2, <1>3 DEF In
  <1>5. ASSUME 0..Len(file) \subseteq 0..Len(file') PROVE objs' \in Seq(T)
    <2>1. S \subseteq T
      BY <1>5
    <2> HIDE DEF S, T
    <2>2. objs \in Seq(T)
      BY <1>1, <2>1
    <2> QED BY <1>1, <2>2
  <1> QED BY <1>4, <1>5

\* What a line leaves as it was.
LEMMA FollowsEffect ==
  ASSUME NEW l, Grows(l), NEW h, h = Here
  PROVE  /\ \A n \in 1..h-1 : Inter(n)' <=> Inter(n)
         /\ Inter(h)' <=> l = <<"inter">> /\ ~Ignored(h)
         /\ \A n \in 1..h-1 : Superseded(n) => Superseded(n)'
         /\ \A n \in 1..h-1 : OnlyComments(n) /\ l = <<"comment">> => OnlyComments(n)'
         /\ \A n \in 1..h-1 : OnlyComments(n) /\ l = <<"inter">> /\ ~Ignored(h) => Superseded(n)'
         /\ OnlyComments(h)'
  <1>1. /\ h \in Nat \ {0} /\ file'[h] = l /\ \A n \in 1..h-1 : file'[n] = file[n]
        /\ Len(file) = h - 1 /\ Len(file') = h
    BY LineEffect DEF Here
  <1>2. \A n \in 1..h : Ignored(n)' <=> Ignored(n)
    BY IgnoredEffect
  <1>3. \A n \in 1..h-1 : Inter(n)' <=> Inter(n)
    BY <1>1, <1>2 DEF Inter
  <1>4. Inter(h)' <=> l = <<"inter">> /\ ~Ignored(h)
    BY <1>1, <1>2 DEF Inter
  <1>5. ASSUME NEW n \in 1..h-1, NEW b \in 0..h-1, Comments(n+1, b) PROVE Comments(n+1, b)'
    <2>1. \A k \in n+1..b : k \in 1..h-1
      BY <1>1
    <2> QED BY <1>1, <1>5, <2>1 DEF Comments
  <1>6. ASSUME NEW n \in 1..h-1, Superseded(n) PROVE Superseded(n)'
    <2>1. PICK m \in n+1..h-1 : Follows(m, n) /\ Inter(m)
      BY <1>1, <1>6 DEF Superseded
    <2>2. m \in 1..h-1 /\ m \in n+1..h /\ m - 1 \in 0..h-1 /\ file'[m] = file[m]
      BY <1>1, <2>1
    <2>3. Follows(m, n)'
      BY <1>1, <1>5, <2>1, <2>2 DEF Follows
    <2> QED BY <1>1, <1>3, <2>1, <2>2, <2>3 DEF Superseded
  <1>7. ASSUME NEW n \in 1..h-1, OnlyComments(n), l = <<"comment">> PROVE OnlyComments(n)'
    <2>1. Comments(n+1, h-1)'
      BY <1>1, <1>5, <1>7 DEF OnlyComments
    <2>2. \A k \in n+1..h : k = h \/ k \in n+1..h-1
      BY <1>1
    <2> QED BY <1>1, <1>7, <2>1, <2>2 DEF Comments, OnlyComments
  <1>8. ASSUME NEW n \in 1..h-1, OnlyComments(n), l = <<"inter">>, ~Ignored(h)
        PROVE  Superseded(n)'
    <2>1. Comments(n+1, h-1)' /\ h \in n+1..h
      BY <1>1, <1>5, <1>8 DEF OnlyComments
    <2>2. Follows(h, n)'
      BY <1>1, <1>8, <2>1 DEF Follows
    <2> QED BY <1>1, <1>4, <1>8, <2>1, <2>2 DEF Superseded
  <1>9. OnlyComments(h)'
    <2>1. h+1..Len(file') = {}
      BY <1>1
    <2> QED BY <2>1 DEF Comments, OnlyComments
  <1> QED BY <1>3, <1>4, <1>6, <1>7, <1>8, <1>9

\* Lines that may be asked for.
LEMMA LogLinesNat == \A n \in LogLines : n \in Nat
  BY ThemeAssumption

\* What a line does to the objects and to the box that waits.
Effect(l, h) ==
  \/ l = <<"comment">> /\ UNCHANGED <<bprev, objs, reported>>
  \/ /\ l # <<"comment">> /\ (l = <<"inter">> => ignore) /\ Dropped
     /\ objs' = objs \/ ObjAdd({h})
  \/ l = <<"inter">> /\ ~ignore /\ bprev' = h /\ UNCHANGED <<objs, reported>>
  \/ /\ l = <<"box">> /\ ObjAdd({h} \union (IF bprev # 0 THEN {bprev} ELSE {}))
     /\ bprev' = 0 /\ reported' = reported

\* Every action that reads a line is one of these, and knows whether to ignore
\* the next one.
LEMMA LineEffects ==
  ASSUME Types, Line, ignore <=> Ignored(Here), NEW h, h = Here
  PROVE  \E l \in Lines :
           /\ Grows(l) /\ Effect(l, h) /\ phase = "reading"
           /\ UNCHANGED <<phase, logVars, carried>>
           /\ ignore' \in BOOLEAN /\ (ignore' <=> Ignored(h + 1)')
           /\ is_textbox' \in BOOLEAN
           /\ \/ log_lines' = log_lines /\ (ignore \/ l[1] # "log_lines")
              \/ ~ignore /\ l[1] = "log_lines" /\ log_lines' = l[2] /\ l[2] \in Nat
  <1> DEFINE Good(l) ==
           /\ Grows(l) /\ Effect(l, h) /\ phase = "reading"
           /\ UNCHANGED <<phase, logVars, carried>>
           /\ ignore' \in BOOLEAN /\ (ignore' <=> Ignored(h + 1)')
           /\ is_textbox' \in BOOLEAN
           /\ \/ log_lines' = log_lines /\ (ignore \/ l[1] # "log_lines")
              \/ ~ignore /\ l[1] = "log_lines" /\ log_lines' = l[2] /\ l[2] \in Nat
  <1>1. /\ \A kind \in {"object", "box", "inter", "comment", "other", "<type mine>", "<type others>",
                        "</type>", "<textbox>", "</textbox>"} :
             <<kind>> \in Lines /\ <<kind>>[1] # "log_lines"
        /\ \A n \in LogLines : /\ <<"log_lines", n>> \in Lines /\ <<"log_lines", n>>[1] = "log_lines"
                               /\ <<"log_lines", n>>[2] = n /\ n \in Nat
    BY LogLinesNat DEF Lines
  <1>2. \A kind : \A n \in LogLines : <<kind>> # <<"log_lines", n>>
    OBVIOUS
  <1>3. ASSUME NEW l \in Lines, Reads(l)
        PROVE  /\ Grows(l)
               /\ Ignored(h + 1)' <=> l = <<"<type others>">> \/ (ignore /\ l # <<"</type>">>)
    <2>1. Grows(l)
      BY <1>3 DEF Grows, Reads, Types
    <2> QED BY <2>1, IgnoredEffect
  <1>4. CASE Comment
    <2> DEFINE l == <<"comment">>
    <2>1. l \in Lines /\ Reads(l) /\ l[1] # "log_lines"
      BY <1>1, <1>4 DEF Comment
    <2>2. Effect(l, h) /\ UNCHANGED <<phase, ignore, is_textbox, log_lines, carried, logVars>>
      BY <1>4 DEF Comment, Effect
    <2> QED BY <1>3, <2>1, <2>2 DEF Types, Reads
  <1>5. CASE Object
    <2> DEFINE l == <<"object">>
    <2>1. l \in Lines /\ Reads(l) /\ l[1] # "log_lines"
      BY <1>1, <1>5 DEF Object
    <2>2. Effect(l, h) /\ UNCHANGED <<phase, ignore, is_textbox, log_lines, carried, logVars>>
      BY <1>5 DEF Object, Effect
    <2> QED BY <1>3, <2>1, <2>2 DEF Types, Reads
  <1>6. CASE InterBox
    <2> DEFINE l == <<"inter">>
    <2>1. l \in Lines /\ Reads(l) /\ l[1] # "log_lines"
      BY <1>1, <1>6 DEF InterBox
    <2>2. Effect(l, h) /\ UNCHANGED <<phase, ignore, is_textbox, log_lines, carried, logVars>>
      BY <1>6 DEF InterBox, Effect
    <2> QED BY <1>3, <2>1, <2>2 DEF Types, Reads
  <1>7. CASE Box
    <2> DEFINE l == <<"box">>
    <2>1. l \in Lines /\ Reads(l) /\ l[1] # "log_lines"
      BY <1>1, <1>7 DEF Box
    <2>2. Effect(l, h) /\ UNCHANGED <<phase, ignore, is_textbox, log_lines, carried, logVars>>
      BY <1>7 DEF Box, Effect
    <2> QED BY <1>3, <2>1, <2>2 DEF Types, Reads
  <1>8. CASE TypeClose
    <2> DEFINE l == <<"</type>">>
    <2>1. l \in Lines /\ Reads(l) /\ l[1] # "log_lines"
      BY <1>1, <1>8 DEF TypeClose
    <2>2. Effect(l, h) /\ UNCHANGED <<phase, is_textbox, log_lines, carried, logVars>> /\ ignore' = FALSE
      BY <1>8 DEF TypeClose, Effect
    <2> QED BY <1>3, <2>1, <2>2 DEF Types, Reads
  <1>9. ASSUME NEW l \in Lines, NoEffect(l) PROVE Good(l)
    <2>1. Reads(l) /\ UNCHANGED <<phase, ignore, is_textbox, log_lines, carried, logVars>>
      BY <1>9 DEF NoEffect
    <2>2. Effect(l, h)
      BY <1>9 DEF NoEffect, Effect
    <2>3. l = <<"other">> \/ (ignore /\ l # <<"</type>">>)
      BY <1>9 DEF NoEffect
    <2> QED BY ZenonT(30), <1>1, <1>3, <2>1, <2>2, <2>3 DEF Types, Reads
  <1>10. ASSUME NEW b \in BOOLEAN, TypeOpen(b)
         PROVE  \E l \in Lines : Good(l)
    <2> DEFINE l == IF b THEN <<"<type mine>">> ELSE <<"<type others>">>
    <2>1. l \in Lines /\ Reads(l) /\ l[1] # "log_lines"
      BY <1>1, <1>10 DEF TypeOpen
    <2>2. Effect(l, h) /\ UNCHANGED <<phase, is_textbox, log_lines, carried, logVars>>
          /\ ignore' = ~b /\ ~ignore
      BY <1>10 DEF TypeOpen, Effect
    <2> QED BY <1>3, <2>1, <2>2 DEF Types, Reads
  <1>11. ASSUME NEW b \in BOOLEAN, Textbox(b)
         PROVE  \E l \in Lines : Good(l)
    <2> DEFINE l == IF b THEN <<"<textbox>">> ELSE <<"</textbox>">>
    <2>1. l \in Lines /\ Reads(l) /\ l[1] # "log_lines"
      BY <1>1, <1>11 DEF Textbox
    <2>2. Effect(l, h) /\ UNCHANGED <<phase, ignore, log_lines, carried, logVars>>
          /\ is_textbox' \in BOOLEAN /\ ~ignore
      BY <1>11 DEF Textbox, Effect
    <2> QED BY <1>3, <2>1, <2>2 DEF Types, Reads
  <1>12. ASSUME NEW n \in LogLines, SetLogLines(n) PROVE \E l \in Lines : Good(l)
    <2> DEFINE l == <<"log_lines", n>>
    <2>1. l \in Lines /\ Reads(l)
      BY <1>1, <1>12 DEF SetLogLines
    <2>2. Effect(l, h) /\ UNCHANGED <<phase, ignore, is_textbox, carried, logVars>>
          /\ log_lines' = n /\ ~ignore
      BY <1>2, <1>12 DEF SetLogLines, Effect
    <2> QED BY <1>1, <1>2, <1>3, <2>1, <2>2 DEF Types, Reads
  <1>13. ASSUME Comment \/ Object \/ InterBox \/ Box \/ TypeClose PROVE \E l \in Lines : Good(l)
    BY <1>4, <1>5, <1>6, <1>7, <1>8, <1>13
  <1>14. \E l \in Lines : Good(l)
    <2> HIDE DEF Good
    <2> QED BY <1>9, <1>10, <1>11, <1>12, <1>13 DEF Line
  <1> QED BY <1>14

-----------------------------------------------------------------------------
(* The number of lines asked for, and the log                              *)

LogLine(n) == n \in 1..Len(file) /\ file[n][1] = "log_lines" /\ ~Ignored(n)

\* log_lines is that of the last line that sets it, or the default.
AskedInv ==
  \/ log_lines = 5 /\ \A n \in 1..Len(file) : ~LogLine(n)
  \/ \E m \in 1..Len(file) : /\ LogLine(m) /\ file[m][2] = log_lines
                             /\ \A n \in m+1..Len(file) : ~LogLine(n)

Window(a, b) == [i \in 1..(b - a + 1) |-> a + i - 1]

First == IF log_cnt > log_lines THEN log_cnt - log_lines + 1 ELSE 1

LogInv ==
  log_lines >= 2 => /\ phase # "crashed" /\ msglog.tail = log_cnt
                    /\ msglog.chain = Window(First, log_cnt)

IInv == Types /\ LostInv /\ AskedInv /\ LogInv

\* A window is a sequence of the numbers in it.
LEMMA WindowType ==
  ASSUME NEW a \in Nat \ {0}, NEW b \in Nat, a <= b + 1
  PROVE  /\ Window(a, b) \in Seq(Nat) /\ Len(Window(a, b)) = b - a + 1
         /\ \A i \in 1..(b - a + 1) : Window(a, b)[i] = a + i - 1
  <1>1. \A i \in 1..(b - a + 1) : a + i - 1 \in Nat
    OBVIOUS
  <1>2. Window(a, b) \in [1..(b - a + 1) -> Nat] /\ b - a + 1 \in Nat
    BY <1>1 DEF Window
  <1> QED BY <1>2 DEF Window

\* What is left of a window without its first number.
LEMMA WindowTail ==
  ASSUME NEW a \in Nat \ {0}, NEW b \in Nat, a <= b
  PROVE  Window(a, b) # <<>> /\ Tail(Window(a, b)) = Window(a + 1, b)
  <1> DEFINE w == Window(a, b)
             t == Window(a + 1, b)
  <1>1. /\ w \in Seq(Nat) /\ Len(w) = b - a + 1
        /\ \A i \in 1..(b - a + 1) : w[i] = a + i - 1
    BY WindowType
  <1>2. /\ t \in Seq(Nat) /\ Len(t) = b - a
        /\ \A i \in 1..(b - a) : t[i] = a + i
    <2>1. a + 1 \in Nat \ {0} /\ a + 1 <= b + 1 /\ b - (a + 1) + 1 = b - a
      OBVIOUS
    <2>2. \A i \in 1..(b - a) : (a + 1) + i - 1 = a + i
      OBVIOUS
    <2> QED BY ZenonT(30), <2>1, <2>2, WindowType
  <1> HIDE DEF w, t
  <1>3. w # <<>>
    BY <1>1
  <1>4. /\ Tail(w) \in Seq(Nat) /\ Len(Tail(w)) = Len(w) - 1
        /\ \A i \in 1..Len(Tail(w)) : Tail(w)[i] = w[i+1]
    BY <1>1, <1>3, HeadTailProperties
  <1>5. \A i \in 1..Len(Tail(w)) : Tail(w)[i] = t[i]
    BY <1>1, <1>2, <1>4
  <1>6. Tail(w) = t
    <2>1. Len(Tail(w)) = Len(t)
      BY <1>1, <1>2, <1>4
    <2> QED BY <1>2, <1>4, <1>5, <2>1, SeqEqual
  <1> QED BY <1>3, <1>6 DEF w, t

\* A window that the next number is put behind.
LEMMA WindowAppend ==
  ASSUME NEW a \in Nat \ {0}, NEW b \in Nat, a <= b + 1
  PROVE  Append(Window(a, b), b + 1) = Window(a, b + 1)
  <1> DEFINE w == Window(a, b)
             v == Window(a, b + 1)
  <1>1. /\ w \in Seq(Nat) /\ Len(w) = b - a + 1
        /\ \A i \in 1..(b - a + 1) : w[i] = a + i - 1
    BY WindowType
  <1>2. /\ v \in Seq(Nat) /\ Len(v) = b - a + 2
        /\ \A i \in 1..(b - a + 2) : v[i] = a + i - 1
    <2>1. b + 1 \in Nat /\ a <= (b + 1) + 1 /\ (b + 1) - a + 1 = b - a + 2
      OBVIOUS
    <2> QED BY <2>1, WindowType
  <1> HIDE DEF w, v
  <1>3. /\ Append(w, b + 1) \in Seq(Nat) /\ Len(Append(w, b + 1)) = Len(w) + 1
        /\ \A i \in 1..Len(w) : Append(w, b + 1)[i] = w[i]
        /\ Append(w, b + 1)[Len(w) + 1] = b + 1
    BY <1>1
  <1>4. \A i \in 1..Len(Append(w, b + 1)) : Append(w, b + 1)[i] = v[i]
    BY <1>1, <1>2, <1>3
  <1>5. Append(w, b + 1) = v
    BY SMTT(30), <1>1, <1>2, <1>3, <1>4, SeqEqual
  <1> QED BY <1>5 DEF w, v

-----------------------------------------------------------------------------
(* The steps                                                               *)

\* Lines that are read keep the types.
LEMMA LineTypes ==
  ASSUME Types, LostInv, NEW l \in Lines, NEW h, h = Here, Grows(l), Effect(l, h),
         UNCHANGED <<phase, logVars>>, ignore' \in BOOLEAN, is_textbox' \in BOOLEAN,
         log_lines' \in Nat
  PROVE  Types'
  <1>1. /\ h \in Nat \ {0} /\ file' \in Seq(Lines) /\ Len(file) = h - 1 /\ Len(file') = h
    BY LineEffect DEF Here
  <1>2. /\ bprev \in 0..h-1 /\ reported \subseteq 1..h-1 /\ 0..Len(file) \subseteq 0..Len(file')
        /\ bprev \in 0..h /\ reported \subseteq 1..h /\ h \in 0..h /\ 0 \in 0..h
        /\ bprev # 0 => bprev \in 1..h
    BY <1>1 DEF Types
  <1>3. bprev' \in 0..h /\ reported' \subseteq 1..h
    BY <1>2 DEF Effect, Dropped
  <1>4. objs' \in Seq([lines : SUBSET (0..Len(file')), textbox : BOOLEAN])
    <2>1. CASE objs' = objs
      <3> DEFINE S == [lines : SUBSET (0..Len(file)), textbox : BOOLEAN]
                 T == [lines : SUBSET (0..Len(file')), textbox : BOOLEAN]
      <3>1. S \subseteq T /\ objs \in Seq(S)
        BY <1>2 DEF Types
      <3> HIDE DEF S, T
      <3>2. objs \in Seq(T)
        BY <3>1
      <3> QED BY <2>1, <3>2 DEF T
    <2>2. CASE ObjAdd({h})
      BY <1>1, <1>2, <2>2, ObjAddEffect
    <2>3. CASE ObjAdd({h} \union (IF bprev # 0 THEN {bprev} ELSE {}))
      <3> DEFINE L == {h} \union (IF bprev # 0 THEN {bprev} ELSE {})
      <3>1. ObjAdd(L) /\ L \subseteq 0..Len(file')
        BY <1>1, <1>2, <2>3
      <3> HIDE DEF L
      <3> QED BY <1>2, <3>1, ObjAddEffect
    <2> QED BY <2>1, <2>2, <2>3 DEF Effect
  <1> QED BY <1>1, <1>3, <1>4 DEF Types, logVars

\* Lines that are read keep account of the boxes that wait.
LEMMA LineLost ==
  ASSUME Types, LostInv, NEW l \in Lines, NEW h, h = Here, Grows(l), Effect(l, h),
         ignore' <=> Ignored(h + 1)'
  PROVE  LostInv'
  <1>1. /\ h \in Nat \ {0} /\ Len(file) = h - 1 /\ Len(file') = h /\ Here' = h + 1
    BY LineEffect DEF Here
  <1>2. /\ bprev \in 0..h-1 /\ reported \subseteq 1..h-1 /\ bprev # h /\ h \notin reported
        /\ \A n : Inter(n)' => n \in 1..h /\ (n = h \/ n \in 1..h-1)
        /\ \A n \in 1..h : n = h \/ n \in 1..h-1
        /\ bprev # 0 => bprev \in 1..h-1
    BY <1>1 DEF Types, Inter
  <1>3. ~In(h)
    <2> DEFINE S == [lines : SUBSET (0..Len(file)), textbox : BOOLEAN]
    <2>1. objs \in Seq(S) /\ \A o \in S : h \notin o.lines
      BY <1>1 DEF Types
    <2> HIDE DEF S
    <2>2. \A o \in 1..Len(objs) : objs[o] \in S
      BY <2>1
    <2> QED BY <2>1, <2>2 DEF In
  <1>4. /\ \A n \in 1..h-1 : Inter(n)' <=> Inter(n)
        /\ Inter(h)' <=> l = <<"inter">> /\ ~Ignored(h)
        /\ \A n \in 1..h-1 : Superseded(n) => Superseded(n)'
        /\ \A n \in 1..h-1 : OnlyComments(n) /\ l = <<"comment">> => OnlyComments(n)'
        /\ \A n \in 1..h-1 : OnlyComments(n) /\ l = <<"inter">> /\ ~Ignored(h) => Superseded(n)'
        /\ OnlyComments(h)'
    BY FollowsEffect
  <1>5. /\ ignore <=> Ignored(h)
        /\ \A n \in 1..h-1 : n = bprev => Inter(n) /\ n \notin reported /\ ~In(n) /\ OnlyComments(n)
        /\ \A n \in reported : ~In(n)
        /\ \A n \in 1..h-1 : Inter(n) => n = bprev \/ n \in reported \/ In(n) \/ Superseded(n)
    BY <1>1 DEF LostInv
  <1>6. objs' = objs => \A n : In(n)' <=> In(n)
    BY DEF In
  <1>7. ObjAdd({h}) => \A n : In(n)' <=> In(n) \/ n = h
    <2>1. {h} \subseteq 0..Len(file')
      BY <1>1
    <2> QED BY <2>1, ObjAddEffect
  <1> DEFINE L == {h} \union (IF bprev # 0 THEN {bprev} ELSE {})
  <1>8. ObjAdd(L) => \A n : In(n)' <=> In(n) \/ n \in L
    <2>1. L \subseteq 0..Len(file')
      BY <1>1, <1>2
    <2> HIDE DEF L
    <2> QED BY <2>1, ObjAddEffect
  <1> DEFINE Kept == /\ \A n \in 1..h : n = bprev' => /\ Inter(n)' /\ n \notin reported'
                                                      /\ ~In(n)' /\ OnlyComments(n)'
                     /\ \A n \in reported' : ~In(n)'
                     /\ \A n \in 1..h : Inter(n)' => n = bprev' \/ n \in reported' \/ In(n)' \/ Superseded(n)'
  <1>9. ASSUME l = <<"comment">> /\ UNCHANGED <<bprev, objs, reported>>
        PROVE  Kept
    BY <1>2, <1>4, <1>5, <1>6, <1>9
  <1>10. ASSUME l # <<"comment">> /\ (l = <<"inter">> => ignore) /\ Dropped /\ (objs' = objs \/ ObjAdd({h}))
        PROVE  Kept
    <2>1. ~Inter(h)' /\ bprev' = 0 /\ reported' = IF bprev # 0 THEN reported \union {bprev} ELSE reported
      BY <1>4, <1>5, <1>10 DEF Dropped
    <2>2. \A n \in 1..h-1 : In(n)' <=> In(n)
      BY <1>1, <1>6, <1>7, <1>10
    <2> QED BY <1>2, <1>4, <1>5, <2>1, <2>2
  <1>11. ASSUME l = <<"inter">> /\ ~ignore /\ bprev' = h /\ UNCHANGED <<objs, reported>>
        PROVE  Kept
    <2>1. Inter(h)' /\ OnlyComments(h)'
      BY <1>4, <1>5, <1>11
    <2>2. \A n \in 1..h-1 : n = bprev => Superseded(n)'
      BY <1>4, <1>5, <1>11
    <2> QED BY <1>2, <1>3, <1>4, <1>5, <1>6, <1>11, <2>1, <2>2
  <1>12. ASSUME l = <<"box">> /\ ObjAdd(L) /\ bprev' = 0 /\ reported' = reported
        PROVE  Kept
    <2>1. ~Inter(h)'
      BY <1>4, <1>12
    <2>2. \A n : In(n)' <=> In(n) \/ n = h \/ (bprev # 0 /\ n = bprev)
      BY <1>8, <1>12
    <2> QED BY <1>2, <1>4, <1>5, <1>12, <2>1, <2>2
  <1>13. Kept
    BY <1>9, <1>10, <1>11, <1>12 DEF Effect
  <1> QED BY <1>1, <1>13 DEF LostInv

\* Lines that are read keep account of what was asked for.
LEMMA LineAsked ==
  ASSUME Types, AskedInv, NEW l \in Lines, NEW h, h = Here, Grows(l), ignore <=> Ignored(h),
         \/ log_lines' = log_lines /\ (ignore \/ l[1] # "log_lines")
         \/ ~ignore /\ l[1] = "log_lines" /\ log_lines' = l[2]
  PROVE  AskedInv'
  <1>1. /\ h \in Nat \ {0} /\ Len(file) = h - 1 /\ Len(file') = h /\ file'[h] = l
        /\ \A n \in 1..h-1 : file'[n] = file[n]
    BY LineEffect DEF Here
  <1>2. \A n \in 1..h : Ignored(n)' <=> Ignored(n)
    BY IgnoredEffect
  <1>3. /\ \A n \in 1..h-1 : LogLine(n)' <=> LogLine(n)
        /\ LogLine(h)' <=> ~ignore /\ l[1] = "log_lines"
    BY <1>1, <1>2 DEF LogLine
  <1>4. \A n \in 1..h : n = h \/ n \in 1..h-1
    BY <1>1
  <1>5. CASE log_lines' = log_lines /\ (ignore \/ l[1] # "log_lines")
    <2>1. CASE log_lines = 5 /\ \A n \in 1..h-1 : ~LogLine(n)
      <3>1. log_lines' = 5 /\ \A n \in 1..h : ~LogLine(n)'
        BY <1>3, <1>4, <1>5, <2>1
      <3> QED BY <1>1, <3>1 DEF AskedInv
    <2>2. ASSUME NEW m \in 1..h-1, LogLine(m), file[m][2] = log_lines,
                 \A n \in m+1..h-1 : ~LogLine(n)
          PROVE  AskedInv'
      <3>1. m \in 1..h /\ LogLine(m)' /\ file'[m][2] = log_lines'
        BY <1>1, <1>3, <1>5, <2>2
      <3>2. \A n \in m+1..h : n = h \/ (n \in m+1..h-1 /\ n \in 1..h-1)
        BY <1>1
      <3>3. \A n \in m+1..h : ~LogLine(n)'
        BY <1>3, <1>5, <2>2, <3>2
      <3> QED BY <1>1, <3>1, <3>3 DEF AskedInv
    <2> QED BY <1>1, <2>1, <2>2 DEF AskedInv
  <1>6. CASE ~ignore /\ l[1] = "log_lines" /\ log_lines' = l[2]
    <2>1. h \in 1..h /\ LogLine(h)' /\ file'[h][2] = log_lines' /\ h+1..h = {}
      BY <1>1, <1>3, <1>6
    <2> QED BY <1>1, <2>1 DEF AskedInv
  <1> QED BY <1>5, <1>6

\* Reading a line keeps the invariant.
LEMMA LineStep ==
  ASSUME IInv, Line
  PROVE  IInv'
  <1>0. PICK h : h = Here
    OBVIOUS
  <1>1. PICK l \in Lines :
           /\ Grows(l) /\ Effect(l, h) /\ phase = "reading"
           /\ UNCHANGED <<phase, logVars, carried>>
           /\ ignore' \in BOOLEAN /\ (ignore' <=> Ignored(h + 1)')
           /\ is_textbox' \in BOOLEAN
           /\ \/ log_lines' = log_lines /\ (ignore \/ l[1] # "log_lines")
              \/ ~ignore /\ l[1] = "log_lines" /\ log_lines' = l[2] /\ l[2] \in Nat
    BY <1>0, LineEffects DEF IInv, LostInv
  <1>2. log_lines' \in Nat
    BY <1>1 DEF IInv, Types
  <1>3. Types'
    BY <1>0, <1>1, <1>2, LineTypes DEF IInv, LostInv
  <1>4. LostInv'
    BY <1>0, <1>1, LineLost DEF IInv
  <1>5. AskedInv'
    BY <1>0, <1>1, LineAsked DEF IInv, LostInv
  <1>6. phase' # "crashed" /\ log_cnt' = 0 /\ msglog' = Empty
    BY <1>1 DEF IInv, Types, logVars
  <1>7. LogInv'
    <2>1. First' = 1
      <3>1. ~(log_cnt' > log_lines')
        BY <1>2, <1>6
      <3> QED BY <3>1 DEF First
    <2>2. Window(1, 0) = <<>>
      BY WindowType
    <2>3. msglog'.tail = 0 /\ msglog'.chain = <<>>
      BY <1>6 DEF Empty
    <2>4. (Window(First, log_cnt))' = Window(1, 0)
      BY <1>6, <2>1 DEF Window
    <2> QED BY <1>6, <2>2, <2>3, <2>4 DEF LogInv
  <1> QED BY <1>3, <1>4, <1>5, <1>7 DEF IInv

\* What was read, and the accounts of it, stay as they are.
LEMMA KeepsFile ==
  ASSUME LostInv, AskedInv, UNCHANGED parserVars
  PROVE  LostInv' /\ AskedInv'
  <1> USE DEF parserVars
  <1>1. \A n : Ignored(n)' <=> Ignored(n)
    BY DEF Ignored
  <1>2. Here' = Here
    BY DEF Here
  <1>3. /\ \A n : Inter(n)' <=> Inter(n)
        /\ \A n : LogLine(n)' <=> LogLine(n)
    BY <1>1 DEF Inter, LogLine
  <1>4. \A n : In(n)' <=> In(n)
    BY DEF In
  <1>5. \A m, n : Comments(m, n)' <=> Comments(m, n)
    BY DEF Comments
  <1>6. \A n : OnlyComments(n)' <=> OnlyComments(n)
    BY DEF OnlyComments, Comments
  <1>7. \A n : Superseded(n)' <=> Superseded(n)
    BY <1>3, <1>5 DEF Superseded, Follows
  <1>8. LostInv'
    BY <1>1, <1>2, <1>3, <1>4, <1>6, <1>7 DEF LostInv
  <1> QED BY <1>3, <1>8 DEF AskedInv

\* So does a 'log' command: below the limit the window grows, at the limit it moves on.
LEMMA LogStep ==
  ASSUME IInv, Log
  PROVE  IInv'
  <1> DEFINE c == log_cnt
             a == First
  <1>1. /\ phase \in {"loaded", "missing"} /\ log_cnt' = c + 1 /\ UNCHANGED parserVars
        /\ msglog' = IF c + 1 <= log_lines THEN ListAdd(msglog, c + 1)
                     ELSE IF msglog.chain = <<>> THEN msglog ELSE RingAdd(msglog, c + 1)
        /\ phase' = IF c + 1 > log_lines /\ msglog.chain = <<>> THEN "crashed" ELSE phase
    BY DEF Log
  <1>2. log_lines \in Nat /\ c \in Nat /\ msglog \in [chain : Seq(Nat), tail : Nat]
        /\ log_lines' = log_lines
    BY <1>1 DEF IInv, Types, parserVars
  <1>3. LostInv' /\ AskedInv'
    BY <1>1, KeepsFile DEF IInv
  <1>4. msglog' \in [chain : Seq(Nat), tail : Nat]
    <2>1. ASSUME NEW k \in [chain : Seq(Nat), tail : Nat], NEW x \in Nat
          PROVE  ListAdd(k, x) \in [chain : Seq(Nat), tail : Nat]
      BY <2>1 DEF ListAdd
    <2>2. ASSUME msglog.chain # <<>>
          PROVE  [msglog EXCEPT !.chain = Tail(@)] \in [chain : Seq(Nat), tail : Nat]
      <3>1. Tail(msglog.chain) \in Seq(Nat)
        BY <1>2, <2>2
      <3> QED BY <1>2, <3>1
    <2>3. c + 1 \in Nat
      BY <1>2
    <2> QED BY <1>1, <1>2, <2>1, <2>2, <2>3 DEF RingAdd
  <1>5. Types'
    BY <1>1, <1>2, <1>4 DEF IInv, Types, parserVars
  <1>6. ASSUME log_lines >= 2 PROVE LogInv'
    <2>1. msglog.tail = c /\ msglog.chain = Window(a, c)
      BY <1>6 DEF IInv, LogInv
    <2>2. a \in Nat \ {0} /\ a <= c + 1 /\ (c >= 1 => a <= c)
      BY <1>2, <1>6 DEF First
    <2>3. c = 0 => c + 1 <= log_lines
      BY <1>2, <1>6
    <2>4. c # 0 => msglog.chain # <<>>
      BY <1>2, <2>1, <2>2, WindowTail
    <2>5. phase' # "crashed"
      BY <1>1, <1>2, <2>3, <2>4
    <2>6. CASE c + 1 <= log_lines
      <3>1. msglog'.tail = c + 1 /\ msglog'.chain = Append(Window(a, c), c + 1)
        BY <1>1, <2>1, <2>4, <2>6 DEF ListAdd
      <3>2. a = 1 /\ First' = 1
        BY <1>1, <1>2, <2>6 DEF First
      <3>3. msglog'.chain = Window(1, c + 1)
        BY <1>2, <2>2, <3>1, <3>2, WindowAppend
      <3> QED BY <1>1, <2>5, <3>1, <3>2, <3>3 DEF LogInv
    <2>7. CASE ~(c + 1 <= log_lines)
      <3>1. c # 0 /\ c >= 1
        BY <1>2, <2>3, <2>7
      <3>2. a + 1 \in Nat \ {0} /\ a < c /\ First' = a + 1 /\ a + 1 <= c /\ a + 1 <= c + 1
        BY <1>1, <1>2, <1>6, <2>7 DEF First
      <3>3. Tail(msglog.chain) = Window(a + 1, c) /\ Window(a + 1, c) # <<>>
        BY <1>2, <2>1, <2>2, <3>1, <3>2, WindowTail
      <3>4. msglog'.tail = c + 1 /\ msglog'.chain = Append(Window(a + 1, c), c + 1)
        BY <1>1, <1>2, <2>4, <2>7, <3>1, <3>3 DEF RingAdd, ListAdd
      <3>5. msglog'.chain = Window(a + 1, c + 1)
        BY <1>2, <3>2, <3>4, WindowAppend
      <3> QED BY <1>1, <2>5, <3>2, <3>4, <3>5 DEF LogInv
    <2> QED BY <2>6, <2>7
  <1>7. LogInv'
    BY <1>2, <1>6 DEF LogInv
  <1> QED BY <1>3, <1>5, <1>7 DEF IInv

\* The log of a theme that was just asked for.
LEMMA EmptyTypes ==
  /\ Empty \in [chain : Seq(Nat), tail : Nat] /\ Empty.tail = 0 /\ Empty.chain = Window(1, 0)
  /\ \A S : <<>> \in Seq(S)
  <1>1. Window(1, 0) = <<>>
    BY WindowType
  <1> QED BY <1>1 DEF Empty

\* It holds when fbsplashd starts,
LEMMA FirstState == Init => IInv
  <1> SUFFICES ASSUME Init PROVE IInv
    OBVIOUS
  <1>1. file \in Seq(Lines) /\ Len(file) = 0 /\ 1..Len(file) = {} /\ Here = 1 /\ 1..Here-1 = {}
    BY DEF Init, Here
  <1>2. Types
    <2> DEFINE S == [lines : SUBSET (0..Len(file)), textbox : BOOLEAN]
    <2>1. objs \in Seq(S)
      BY EmptyTypes DEF Init
    <2>2. 5 \in Nat /\ bprev \in 0..Len(file) /\ reported \subseteq 1..Len(file)
      BY <1>1 DEF Init
    <2> QED BY <1>1, <2>1, <2>2, EmptyTypes DEF Init, Types
  <1>3. LostInv
    BY <1>1 DEF Init, LostInv, Ignored
  <1>4. First = 1
    BY DEF Init, First
  <1> QED BY <1>1, <1>2, <1>3, <1>4, EmptyTypes DEF Init, IInv, AskedInv, LogInv

\* when another theme is asked for,
LEMMA SetThemeStep ==
  ASSUME IInv, SetTheme
  PROVE  IInv'
  <1> USE DEF SetTheme, Fresh
  <1>1. /\ file' \in Seq(Lines) /\ Len(file') = 0 /\ 1..Len(file') = {} /\ Here' = 1 /\ 1..Here'-1 = {}
    BY DEF Here
  <1>2. Types'
    <2> DEFINE S == [lines : SUBSET (0..Len(file')), textbox : BOOLEAN]
    <2>1. objs' \in Seq(S)
      BY EmptyTypes
    <2>2. 5 \in Nat /\ bprev' \in 0..Len(file') /\ reported' \subseteq 1..Len(file')
      BY <1>1
    <2> QED BY <1>1, <2>1, <2>2, EmptyTypes DEF IInv, Types
  <1>3. ~Ignored(Here)'
    BY <1>1 DEF Ignored
  <1>4. LostInv'
    BY <1>1, <1>3 DEF LostInv
  <1>5. First' = 1
    BY DEF First
  <1>6. LogInv'
    BY <1>5, EmptyTypes DEF LogInv
  <1> QED BY <1>1, <1>2, <1>4, <1>6 DEF IInv, AskedInv

\* and when the main message is added.
LEMMA EndOfFileStep ==
  ASSUME IInv, EndOfFile
  PROVE  IInv'
  <1>1. /\ phase' = "loaded" /\ ObjAdd({Message}) /\ Message = 0
        /\ UNCHANGED <<file, ignore, bprev, is_textbox, log_lines, carried, reported, logVars>>
    BY DEF EndOfFile, Message
  <1>2. Len(file) \in Nat /\ {Message} \subseteq 0..Len(file') /\ 0..Len(file) \subseteq 0..Len(file')
    BY <1>1 DEF IInv, Types
  <1>3. /\ \A n : In(n)' <=> In(n) \/ n = 0
        /\ objs' \in Seq([lines : SUBSET (0..Len(file')), textbox : BOOLEAN])
    <2> DEFINE L == {Message}
    <2>1. ObjAdd(L) /\ L \subseteq 0..Len(file') /\ \A n : n \in L <=> n = 0
      BY <1>1, <1>2
    <2> HIDE DEF L
    <2> QED BY <1>2, <2>1, ObjAddEffect DEF IInv
  <1>4. Types'
    BY <1>1, <1>3 DEF IInv, Types, logVars
  <1>5. /\ \A n : Ignored(n)' <=> Ignored(n)
        /\ Here' = Here
        /\ \A m, n : Comments(m, n)' <=> Comments(m, n)
        /\ \A n : OnlyComments(n)' <=> OnlyComments(n)
    BY <1>1 DEF Ignored, Here, Comments, OnlyComments
  <1>6. /\ \A n : Inter(n)' <=> Inter(n)
        /\ \A n : LogLine(n)' <=> LogLine(n)
    BY <1>1, <1>5 DEF Inter, LogLine
  <1>7. \A n : Superseded(n)' <=> Superseded(n)
    BY <1>1, <1>5, <1>6 DEF Superseded, Follows
  <1>8. \A n \in 1..Len(file) : In(n)' <=> In(n)
    BY <1>2, <1>3
  <1>9. reported \subseteq 1..Len(file)
    BY DEF IInv, Types
  <1>10. LostInv'
    BY <1>1, <1>5, <1>6, <1>7, <1>8, <1>9 DEF IInv, LostInv
  <1>11. AskedInv'
    BY <1>1, <1>6 DEF IInv, AskedInv
  <1>12. LogInv'
    BY <1>1 DEF IInv, LogInv, First, Window, logVars
  <1> QED BY <1>4, <1>10, <1>11, <1>12 DEF IInv

\* The invariant holds in every state, for files and logs of any length.
THEOREM ThemeInvariance == Spec => []IInv
  <1>1. IInv /\ [Next]_vars => IInv'
    <2> SUFFICES ASSUME IInv, [Next]_vars PROVE IInv'
      OBVIOUS
    <2>1. CASE UNCHANGED vars
      <3>1. LostInv' /\ AskedInv'
        BY <2>1, KeepsFile DEF IInv, vars
      <3> QED BY <2>1, <3>1 DEF IInv, Types, LogInv, First, Window, vars, parserVars, logVars
    <2> QED BY <2>1, SetThemeStep, LineStep, EndOfFileStep, LogStep DEF Next, Ended
  <1> QED BY FirstState, <1>1, PTL DEF Spec

-----------------------------------------------------------------------------
(* What follows from it                                                    *)

\* A kind of line that says nothing else.
LEMMA InterLine == \A l \in Lines : l[1] = "inter" => l = <<"inter">>
  <1>1. \A kind : <<kind>>[1] = kind
    OBVIOUS
  <1>2. \A n : <<"log_lines", n>>[1] # "inter"
    OBVIOUS
  <1>3. \A l \in Lines : (\E kind : l = <<kind>>) \/ (\E n : l = <<"log_lines", n>>)
    BY DEF Lines
  <1> QED BY <1>1, <1>2, <1>3

\* A box that is followed by comments only has nothing after it, and one that
\* is superseded has another 'inter' box.
LEMMA AfterInter ==
  ASSUME Types, NEW n \in 1..Len(file)
  PROVE  /\ OnlyComments(n) => After(n) = 0
         /\ Superseded(n) => After(n) \in Effective({"inter"})
  <1> DEFINE later == {m \in n+1..Len(file) : file[m] # <<"comment">>}
  <1>1. Len(file) \in Nat
    BY DEF Types
  <1>2. ASSUME OnlyComments(n) PROVE After(n) = 0
    <2>1. later = {}
      BY <1>2 DEF OnlyComments, Comments
    <2> QED BY <2>1 DEF After
  <1>3. ASSUME Superseded(n) PROVE After(n) \in Effective({"inter"})
    <2>1. PICK m \in n+1..Len(file) : Follows(m, n) /\ Inter(m)
      BY <1>3 DEF Superseded
    <2>2. m \in later
      BY <2>1 DEF Follows
    <2>3. ASSUME NEW y \in later PROVE m <= y
      <3>1. y \notin n+1..m-1
        BY <2>1 DEF Follows, Comments
      <3> QED BY <1>1, <3>1
    <2>4. \A x \in later : x <= m => x = m
      BY <1>1, <2>3
    <2> HIDE DEF later
    <2>5. Min(later) = m
      BY <2>2, <2>3, <2>4 DEF Min
    <2>6. After(n) = m
      BY <2>2, <2>5 DEF After, later
    <2> QED BY <2>1, <2>6 DEF Inter, Effective, Types
  <1> QED BY <1>2, <1>3

\* What the invariant says of the boxes of a loaded theme.
LEMMA LostFollows == IInv => LostAreReported
  <1> SUFFICES ASSUME IInv, NEW n \in Effective({"inter"})
               PROVE  /\ n \in reported => \A o \in Range(objs) : n \notin o.lines
                      /\ \/ n \in reported \/ \E o \in Range(objs) : n \in o.lines
                         \/ After(n) \in Effective({"inter"}) \union {0}
    BY DEF LostAreReported
  <1>1. n \in 1..Len(file) /\ Inter(n)
    <2>1. n \in 1..Len(file) /\ file[n] \in Lines
      BY DEF Effective, IInv, Types
    <2> QED BY <2>1, InterLine DEF Effective, Inter
  <1>2. In(n) <=> \E o \in Range(objs) : n \in o.lines
    <2>1. DOMAIN objs = 1..Len(objs)
      BY DEF IInv, Types
    <2> QED BY <2>1 DEF In, Range
  <1>3. /\ n \in reported => ~In(n)
        /\ n = bprev \/ n \in reported \/ In(n) \/ Superseded(n)
        /\ n = bprev => OnlyComments(n)
    BY <1>1 DEF IInv, LostInv
  <1> QED BY <1>1, <1>2, <1>3, AfterInter DEF IInv

\* For files of any length, no box disappears without an error, except an
\* 'inter' box that another one follows or that ends the file, and none that is
\* there is reported.
THEOREM LostTheorem == Spec => []LostAreReported
  BY ThemeInvariance, LostFollows, PTL

\* The number of lines asked for is found again in the file.
LEMMA AskedLines ==
  ASSUME Types, AskedInv, NEW last, last = LastBefore(Len(file) + 1, {"log_lines"})
  PROVE  (IF last = 0 THEN 5 ELSE file[last][2]) = log_lines
  <1> DEFINE E == {m \in Effective({"log_lines"}) : m < Len(file) + 1}
             S == E \union {0}
  <1>1. Len(file) \in Nat /\ DOMAIN file = 1..Len(file)
    BY DEF Types
  <1>2. \A m : m \in E <=> LogLine(m)
    BY <1>1 DEF Effective, LogLine
  <1>3. \A m : LogLine(m) => m \in 1..Len(file) /\ m \in Nat /\ m # 0
    BY <1>1 DEF LogLine
  <1> HIDE DEF E
  <1>4. last = CHOOSE x \in S : \A y \in S : x >= y
    BY DEF LastBefore, Max, E
  <1>5. CASE log_lines = 5 /\ \A n \in 1..Len(file) : ~LogLine(n)
    <2>1. S = {0}
      BY <1>2, <1>3, <1>5
    <2> QED BY <1>4, <1>5, <2>1
  <1>6. ASSUME NEW m \in 1..Len(file), LogLine(m), file[m][2] = log_lines,
               \A n \in m+1..Len(file) : ~LogLine(n)
        PROVE  last = m /\ m # 0
    <2>1. m \in S /\ m # 0
      BY <1>2, <1>6
    <2>2. ASSUME NEW y \in S PROVE y \in Nat /\ m >= y
      <3>1. y = 0 \/ (LogLine(y) /\ y \in 1..Len(file) /\ y \notin m+1..Len(file))
        BY <1>2, <1>3, <1>6
      <3> QED BY <1>1, <3>1
    <2>3. \A x \in S : x >= m => x = m
      BY <1>1, <2>2
    <2> HIDE DEF S
    <2> QED BY <1>4, <2>1, <2>2, <2>3
  <1> QED BY <1>5, <1>6 DEF AskedInv

\* What the invariant says of the log.
LEMMA LogFollows == IInv => LogShowsLastLines
  <1> SUFFICES ASSUME IInv PROVE LogShowsLastLines
    OBVIOUS
  <1>1. PICK last : last = LastBefore(Len(file) + 1, {"log_lines"})
    OBVIOUS
  <1>2. (IF last = 0 THEN 5 ELSE file[last][2]) = log_lines
    BY <1>1, AskedLines DEF IInv
  <1>3. log_lines >= 2 => phase # "crashed" /\ msglog.chain = Window(First, log_cnt)
    BY DEF IInv, LogInv
  <1> QED BY <1>1, <1>2, <1>3 DEF LogShowsLastLines, First, Window

\* For any theme that asks for two lines or more, and any number of messages, the
\* log holds the last of them and fbsplashd does not end.
THEOREM LogTheorem == Spec => []LogShowsLastLines
  BY ThemeInvariance, LogFollows, PTL

-----------------------------------------------------------------------------
(* The objects of a theme                                                  *)

Tags == {"<textbox>", "</textbox>"}

\* Which lines have an effect, in a file that grows.
LEMMA EffectiveGrows ==
  ASSUME NEW l, Grows(l), NEW h, h = Here, NEW kinds
  PROVE  /\ \A n : n \in Effective(kinds)' <=>
                     n \in Effective(kinds) \/ (n = h /\ l[1] \in kinds /\ ~Ignored(h))
         /\ \A n \in Effective(kinds) : n \in 1..h-1
  <1>1. /\ h \in Nat \ {0} /\ DOMAIN file = 1..h-1 /\ DOMAIN file' = 1..h /\ file'[h] = l
        /\ \A n \in 1..h-1 : file'[n] = file[n]
    BY LineEffect DEF Here
  <1>2. \A n \in 1..h : Ignored(n)' <=> Ignored(n)
    BY IgnoredEffect
  <1>3. \A n : n \in 1..h <=> n = h \/ n \in 1..h-1
    BY <1>1
  <1>4. h \notin 1..h-1
    BY <1>1
  <1> QED BY <1>1, <1>2, <1>3, <1>4 DEF Effective

\* The last line of some kind before another, in a file that grows.
LEMMA LastGrows ==
  ASSUME NEW l, Grows(l), NEW h, h = Here, NEW kinds
  PROVE  /\ \A n \in 1..h : LastBefore(n, kinds)' = LastBefore(n, kinds)
         /\ l[1] \in kinds /\ ~Ignored(h) => LastBefore(h + 1, kinds)' = h
         /\ ~(l[1] \in kinds /\ ~Ignored(h)) => LastBefore(h + 1, kinds)' = LastBefore(h, kinds)
  <1> DEFINE E == Effective(kinds)
             B(S, n) == {m \in S : m < n} \union {0}
  <1>1. PICK e, f : e = E /\ f = E'
    OBVIOUS
  <1>2. /\ h \in Nat \ {0}
        /\ \A n : n \in f <=> n \in e \/ (n = h /\ l[1] \in kinds /\ ~Ignored(h))
        /\ \A n \in e : n \in 1..h-1
    BY <1>1, LineEffect, EffectiveGrows DEF Here
  <1>3. /\ \A n : LastBefore(n, kinds) = Max(B(e, n))
        /\ \A n : LastBefore(n, kinds)' = Max(B(f, n))
    BY <1>1 DEF LastBefore
  <1>4. ASSUME NEW n \in 1..h PROVE B(f, n) = B(e, n)
    <2>1. ~(h < n)
      BY <1>2, <1>4
    <2> QED BY <1>2, <2>1
  <1>5. ASSUME ~(l[1] \in kinds /\ ~Ignored(h)) PROVE B(f, h + 1) = B(e, h)
    <2>1. \A n \in e : n < h + 1 /\ n < h
      BY <1>2
    <2> QED BY <1>2, <1>5, <2>1
  <1>6. ASSUME l[1] \in kinds, ~Ignored(h) PROVE Max(B(f, h + 1)) = h
    <2> DEFINE S == B(f, h + 1)
    <2>1. h < h + 1
      BY <1>2
    <2>2. h \in S
      BY <1>2, <1>6, <2>1
    <2>3. \A y \in S : y \in Nat /\ h >= y
      BY <1>2
    <2>4. \A x \in S : x >= h => x = h
      BY <1>2, <2>3
    <2> HIDE DEF S
    <2>5. Max(S) = h
      BY <2>2, <2>3, <2>4 DEF Max
    <2> QED BY <2>5 DEF S
  <1>7. h \in 1..h
    BY <1>2
  <1> HIDE DEF B
  <1> QED BY <1>3, <1>4, <1>5, <1>6, <1>7

\* The first line after n that is not a comment.
AfterIn(f, n) ==
  LET later == {m \in n+1..Len(f) : f[m] # <<"comment">>} IN IF later = {} THEN 0 ELSE Min(later)

\* It is nothing if comments follow, and else the one they lead to.
LEMMA FirstAfter ==
  ASSUME NEW f, Len(f) \in Nat, NEW n \in Nat
  PROVE  /\ (\A k \in n+1..Len(f) : f[k] = <<"comment">>) => AfterIn(f, n) = 0
         /\ \A m \in n+1..Len(f) :
              f[m] # <<"comment">> /\ (\A k \in n+1..m-1 : f[k] = <<"comment">>) => AfterIn(f, n) = m
  <1> DEFINE later == {m \in n+1..Len(f) : f[m] # <<"comment">>}
  <1>1. ASSUME \A k \in n+1..Len(f) : f[k] = <<"comment">> PROVE AfterIn(f, n) = 0
    <2>1. later = {}
      BY <1>1
    <2> QED BY <2>1 DEF AfterIn
  <1>2. ASSUME NEW m \in n+1..Len(f), f[m] # <<"comment">>, \A k \in n+1..m-1 : f[k] = <<"comment">>
        PROVE  AfterIn(f, n) = m
    <2>1. m \in later
      BY <1>2
    <2>2. ASSUME NEW y \in later PROVE m <= y
      <3>1. y \notin n+1..m-1
        BY <1>2
      <3> QED BY <3>1
    <2>3. \A x \in later : x <= m => x = m
      BY <2>2
    <2> HIDE DEF later
    <2>4. Min(later) = m
      BY <2>1, <2>2, <2>3 DEF Min
    <2> QED BY <2>1, <2>4 DEF AfterIn, later
  <1> QED BY <1>1, <1>2

\* Every line has one behind it that counts, or comments only.
Places ==
  /\ \A n \in 1..Here : LastBefore(n, Tags) \in 0..n-1
  /\ \A n \in 1..Len(file) : OnlyComments(n) \/ \E m \in 1..Len(file) : Follows(m, n)

\* What follows a line, in a file that grows.
LEMMA AfterGrows ==
  ASSUME NEW l, Grows(l), NEW h, h = Here, Places
  PROVE  /\ After(h)' = 0
         /\ \A n \in 1..h-1 :
              /\ OnlyComments(n) => After(n) = 0 /\ After(n)' = IF l = <<"comment">> THEN 0 ELSE h
              /\ ~OnlyComments(n) => After(n) \in 1..h-1 /\ After(n)' = After(n)
              /\ OnlyComments(n)' <=> OnlyComments(n) /\ l = <<"comment">>
              /\ OnlyComments(n)' \/ \E m \in 1..h : Follows(m, n)'
  <1>1. /\ h \in Nat \ {0} /\ file'[h] = l /\ \A n \in 1..h-1 : file'[n] = file[n]
        /\ Len(file) = h - 1 /\ Len(file') = h
    BY LineEffect DEF Here
  <1>2. PICK f, g : f = file /\ g = file'
    OBVIOUS
  <1>3. \A n : After(n) = AfterIn(f, n) /\ After(n)' = AfterIn(g, n)
    BY <1>2 DEF After, AfterIn
  <1>4. AfterIn(g, h) = 0
    <2>1. h+1..h = {} /\ Len(g) = h /\ h \in Nat
      BY <1>1, <1>2
    <2> QED BY <2>1, FirstAfter
  <1>5. ASSUME NEW n \in 1..h-1, OnlyComments(n)
        PROVE  /\ AfterIn(f, n) = 0 /\ AfterIn(g, n) = IF l = <<"comment">> THEN 0 ELSE h
               /\ OnlyComments(n)' <=> l = <<"comment">>
               /\ OnlyComments(n)' \/ \E m \in 1..h : Follows(m, n)'
    <2>1. /\ \A k \in n+1..h-1 : f[k] = <<"comment">> /\ g[k] = <<"comment">>
          /\ Len(f) = h - 1 /\ Len(g) = h /\ g[h] = l /\ h - 1 \in Nat /\ h \in n+1..h /\ n \in Nat
          /\ \A k \in n+1..h : k = h \/ k \in n+1..h-1
      <3>1. \A k \in n+1..h-1 : f[k] = <<"comment">>
        BY <1>1, <1>2, <1>5 DEF OnlyComments, Comments
      <3>2. \A k \in n+1..h-1 : k \in 1..h-1
        BY <1>1
      <3>3. \A k \in n+1..h-1 : g[k] = <<"comment">>
        BY <1>1, <1>2, <3>1, <3>2
      <3>4. h - 1 \in Nat /\ h \in n+1..h /\ n \in Nat /\ \A k \in n+1..h : k = h \/ k \in n+1..h-1
        BY <1>1
      <3> QED BY <1>1, <1>2, <3>1, <3>3, <3>4
    <2>2. AfterIn(f, n) = 0
      BY <2>1, FirstAfter
    <2>3. CASE l = <<"comment">>
      <3>1. \A k \in n+1..Len(g) : g[k] = <<"comment">>
        BY <2>1, <2>3
      <3>2. AfterIn(g, n) = 0
        BY <1>1, <2>1, <3>1, FirstAfter
      <3>3. OnlyComments(n)'
        BY <1>2, <3>1 DEF OnlyComments, Comments
      <3> QED BY <2>2, <2>3, <3>2, <3>3
    <2>4. CASE l # <<"comment">>
      <3>1. AfterIn(g, n) = h
        BY <1>1, <2>1, <2>4, FirstAfter
      <3>2. ~OnlyComments(n)'
        BY <1>2, <2>1, <2>4 DEF OnlyComments, Comments
      <3>3. Follows(h, n)' /\ h \in 1..h
        BY <1>1, <1>2, <2>1, <2>4 DEF Follows, Comments
      <3> QED BY <2>2, <2>4, <3>1, <3>2, <3>3
    <2> QED BY <2>3, <2>4
  <1>6. ASSUME NEW n \in 1..h-1, ~OnlyComments(n)
        PROVE  /\ AfterIn(f, n) \in 1..h-1 /\ AfterIn(g, n) = AfterIn(f, n)
               /\ ~OnlyComments(n)' /\ \E m \in 1..h : Follows(m, n)'
    <2>1. PICK m \in 1..h-1 : Follows(m, n)
      BY <1>1, <1>6 DEF Places
    <2>2. /\ m \in n+1..h-1 /\ f[m] # <<"comment">> /\ g[m] # <<"comment">> /\ m \in n+1..h
          /\ \A k \in n+1..m-1 : f[k] = <<"comment">> /\ g[k] = <<"comment">>
          /\ Len(f) = h - 1 /\ Len(g) = h /\ h - 1 \in Nat /\ n \in Nat
      <3>1. m \in n+1..h-1 /\ f[m] # <<"comment">> /\ \A k \in n+1..m-1 : f[k] = <<"comment">>
        BY <1>1, <1>2, <2>1 DEF Follows, Comments
      <3>2. \A k \in n+1..m-1 : k \in 1..h-1
        BY <1>1
      <3>3. m \in n+1..h /\ h - 1 \in Nat /\ n \in Nat
        BY <1>1, <3>1
      <3> QED BY <1>1, <1>2, <3>1, <3>2, <3>3
    <2>3. AfterIn(f, n) = m
      BY <2>2, FirstAfter
    <2>4. AfterIn(g, n) = m
      BY <1>1, <2>2, FirstAfter
    <2>5. Follows(m, n)' /\ m \in 1..h
      BY <1>1, <1>2, <2>2 DEF Follows, Comments
    <2>6. ~OnlyComments(n)'
      BY <1>1, <1>2, <2>2 DEF OnlyComments, Comments
    <2> QED BY <2>3, <2>4, <2>5, <2>6
  <1>7. \A n \in 1..h-1 :
          /\ OnlyComments(n) => After(n) = 0 /\ After(n)' = IF l = <<"comment">> THEN 0 ELSE h
          /\ ~OnlyComments(n) => After(n) \in 1..h-1 /\ After(n)' = After(n)
          /\ OnlyComments(n)' <=> OnlyComments(n) /\ l = <<"comment">>
          /\ OnlyComments(n)' \/ \E m \in 1..h : Follows(m, n)'
    <2> TAKE n \in 1..h-1
    <2>1. CASE OnlyComments(n)
      BY <1>3, <1>5, <2>1
    <2>2. CASE ~OnlyComments(n)
      BY <1>3, <1>6, <2>2
    <2> QED BY <2>1, <2>2
  <1> QED BY <1>3, <1>4, <1>7

\* In which textbox a line is, in a file that grows.
LEMMA WithinGrows ==
  ASSUME NEW l, Grows(l), NEW h, h = Here, Places, carried' = carried
  PROVE  /\ \A n \in 1..h : Within(n)' = Within(n)
         /\ l[1] \in Tags /\ ~Ignored(h) => Within(h + 1)' = (l = <<"<textbox>">>)
         /\ ~(l[1] \in Tags /\ ~Ignored(h)) => Within(h + 1)' = Within(h)
  <1>1. /\ h \in Nat \ {0} /\ file'[h] = l /\ \A n \in 1..h-1 : file'[n] = file[n]
        /\ Len(file) = h - 1 /\ Len(file') = h /\ h \in 1..h
    BY LineEffect DEF Here
  <1> DEFINE T(n) == LastBefore(n, Tags)
  <1>2. /\ \A n \in 1..h : T(n)' = T(n)
        /\ l[1] \in Tags /\ ~Ignored(h) => T(h + 1)' = h
        /\ ~(l[1] \in Tags /\ ~Ignored(h)) => T(h + 1)' = T(h)
    BY LastGrows
  <1>3. \A n \in 1..h : T(n) = 0 \/ T(n) \in 1..h-1
    <2> TAKE n \in 1..h
    <2>1. T(n) \in 0..n-1
      BY <1>1 DEF Places
    <2> HIDE DEF T
    <2> QED BY <1>1, <2>1
  <1>4. /\ \A n : Within(n) = (IF T(n) = 0 THEN carried ELSE file[T(n)] = <<"<textbox>">>)
        /\ \A n : Within(n)' = (IF T(n)' = 0 THEN carried ELSE file'[T(n)'] = <<"<textbox>">>)
    BY DEF Within, Tags
  <1> HIDE DEF T
  <1> QED BY <1>1, <1>2, <1>3, <1>4

\* And what the places are.
LEMMA PlacesGrow ==
  ASSUME NEW l, Grows(l), NEW h, h = Here, Places
  PROVE  Places'
  <1>1. h \in Nat \ {0} /\ Len(file') = h /\ Here' = h + 1
    BY LineEffect DEF Here
  <1>2. ASSUME NEW n \in 1..h+1 PROVE LastBefore(n, Tags)' \in 0..n-1
    <2>1. PICK a, b : a = LastBefore(n, Tags) /\ b = LastBefore(h, Tags)
      OBVIOUS
    <2>2. CASE n \in 1..h
      BY <2>2, LastGrows DEF Places
    <2>3. CASE n = h + 1
      <3>1. h \in 1..h /\ b \in 0..h-1
        BY <1>1, <2>1 DEF Places
      <3>2. LastBefore(h + 1, Tags)' \in {h, b}
        BY <2>1, LastGrows
      <3>3. h \in 0..n-1 /\ b \in 0..n-1
        BY <1>1, <2>3, <3>1
      <3> QED BY <2>3, <3>2, <3>3
    <2> QED BY <1>1, <2>2, <2>3
  <1>3. ASSUME NEW n \in 1..h PROVE OnlyComments(n)' \/ \E m \in 1..h : Follows(m, n)'
    <2>1. CASE n = h
      <3>1. h+1..h = {}
        BY <1>1
      <3> QED BY <1>1, <2>1, <3>1 DEF OnlyComments, Comments
    <2>2. CASE n \in 1..h-1
      BY <2>2, AfterGrows
    <2> QED BY <1>1, <2>1, <2>2
  <1> QED BY <1>1, <1>2, <1>3 DEF Places

\* The objects of a theme, in the order of the last of their lines: those in W,
\* each once, from the lines up to top.
Lists(os, W, top) ==
  /\ IsFiniteSet(W) /\ Range(os) = W /\ Len(os) = Cardinality(W)
  /\ \A i \in 1..Len(os) : Max(os[i].lines) \in 1..top
  /\ \A i, j \in 1..Len(os) : i < j => Max(os[i].lines) < Max(os[j].lines)

\* An object from the next line goes to the end.
LEMMA ListsAppend ==
  ASSUME NEW R, NEW os \in Seq(R), NEW o \in R, NEW W, NEW top \in Nat, Lists(os, W, top),
         Max(o.lines) = top + 1
  PROVE  Lists(Append(os, o), W \union {o}, top + 1)
  <1> DEFINE new == Append(os, o)
             k == Len(os)
  <1>1. /\ k \in Nat /\ Len(new) = k + 1 /\ new[k + 1] = o
        /\ \A i \in 1..k : new[i] = os[i]
        /\ DOMAIN os = 1..k /\ DOMAIN new = 1..k+1
    OBVIOUS
  <1>2. \A i : i \in 1..k+1 <=> i \in 1..k \/ i = k + 1
    BY <1>1
  <1> HIDE DEF new, k
  <1>3. Range(new) = W \union {o}
    BY <1>1, <1>2 DEF Lists, Range
  <1>4. o \notin W
    <2>1. \A w \in W : Max(w.lines) \in 1..top
      BY <1>1 DEF Lists, Range, k
    <2> QED BY <2>1
  <1>5. IsFiniteSet(W \union {o}) /\ Cardinality(W \union {o}) = k + 1
    BY <1>4, FS_AddElement DEF Lists, k
  <1>6. \A i \in 1..k+1 : Max(new[i].lines) \in 1..top+1
    BY <1>1, <1>2 DEF Lists, k
  <1>7. ASSUME NEW i \in 1..k+1, NEW j \in 1..k+1, i < j
        PROVE  Max(new[i].lines) < Max(new[j].lines)
    <2>1. i \in 1..k
      BY <1>1, <1>7
    <2>2. new[i] = os[i] /\ Max(os[i].lines) \in 1..top
      BY <1>1, <2>1 DEF Lists, k
    <2>3. CASE j = k + 1
      BY <1>1, <2>2, <2>3
    <2>4. CASE j \in 1..k
      BY <1>1, <1>7, <2>1, <2>4 DEF Lists, k
    <2> QED BY <1>2, <2>3, <2>4
  <1>8. Lists(new, W \union {o}, top + 1)
    BY <1>1, <1>3, <1>5, <1>6, <1>7 DEF Lists
  <1> QED BY <1>8 DEF new

\* What is effective of a kind of which there is one line.
LEMMA EffectiveInter ==
  ASSUME file \in Seq(Lines)
  PROVE  \A n : n \in Effective({"inter"}) <=> Inter(n)
  <1>1. \A n \in 1..Len(file) : file[n] \in Lines /\ (file[n][1] = "inter" <=> file[n] = <<"inter">>)
    BY InterLine
  <1> QED BY <1>1 DEF Effective, Inter

\* The box that waits is the 'inter' box that only comments follow.
Waits ==
  /\ \A n \in 1..Len(file) : Inter(n) /\ OnlyComments(n) => n = bprev
  /\ bprev # 0 => bprev \in 1..Len(file) /\ Inter(bprev) /\ OnlyComments(bprev)

\* A box that has effect pairs with the one that waits.
LEMMA PairsGrow ==
  ASSUME NEW l, Grows(l), NEW h, h = Here, Places, Waits, NEW b, b = bprev
  PROVE  /\ \A n : n \in Pairs' <=> n \in Pairs \/ (n = b /\ b # 0 /\ l[1] = "box" /\ ~Ignored(h))
         /\ \A n \in Pairs : n \in 1..h-1 /\ After(n) \in 1..h-1 /\ After(n)' = After(n)
         /\ b # 0 /\ l # <<"comment">> => After(b)' = h
  <1>1. /\ h \in Nat \ {0} /\ file \in Seq(Lines) /\ file' \in Seq(Lines) /\ Len(file) = h - 1
        /\ Len(file') = h
    BY LineEffect DEF Here, Grows
  <1>2. /\ \A n : n \in Effective({"inter"}) <=> Inter(n)
        /\ \A n : n \in Effective({"inter"})' <=> Inter(n)'
    <2>1. DOMAIN file' = 1..Len(file') /\ \A n \in 1..Len(file') : file'[n] \in Lines
      BY <1>1
    <2>2. \A n \in 1..Len(file') : file'[n][1] = "inter" <=> file'[n] = <<"inter">>
      BY <2>1, InterLine
    <2> QED BY <1>1, <2>1, <2>2, EffectiveInter DEF Effective, Inter
  <1>3. /\ \A n \in 1..h-1 : Inter(n)' <=> Inter(n)
        /\ \A n : Inter(n) => n \in 1..h-1
        /\ \A n : Inter(n)' => n \in 1..h
    <2>1. \A n : Inter(n)' => n \in 1..h
      BY <1>1 DEF Inter
    <2> QED BY <1>1, <2>1, FollowsEffect DEF Inter
  <1>4. /\ \A n : n \in Effective({"box"})' <=>
                     n \in Effective({"box"}) \/ (n = h /\ l[1] = "box" /\ ~Ignored(h))
        /\ \A n \in Effective({"box"}) : n \in 1..h-1
    <2>1. \A x : x \in {"box"} <=> x = "box"
      OBVIOUS
    <2> QED BY <2>1, EffectiveGrows
  <1>5. /\ After(h)' = 0
        /\ \A n \in 1..h-1 :
             /\ OnlyComments(n) => After(n) = 0 /\ After(n)' = IF l = <<"comment">> THEN 0 ELSE h
             /\ ~OnlyComments(n) => After(n) \in 1..h-1 /\ After(n)' = After(n)
    BY AfterGrows
  <1>6. 0 \notin 1..h-1 /\ h # 0 /\ h \notin 1..h-1 /\ \A n : n \in 1..h <=> n \in 1..h-1 \/ n = h
    BY <1>1
  <1>7. /\ \A n : n \in Pairs <=> Inter(n) /\ After(n) \in Effective({"box"})
        /\ \A n : n \in Pairs' <=> Inter(n)' /\ After(n)' \in Effective({"box"})'
    BY <1>2 DEF Pairs
  <1>8. /\ \A n \in 1..h-1 : Inter(n) /\ OnlyComments(n) => n = b
        /\ b # 0 => b \in 1..h-1 /\ Inter(b) /\ OnlyComments(b)
    BY <1>1 DEF Waits
  <1>9. ASSUME NEW n
        PROVE  n \in Pairs' <=> n \in Pairs \/ (n = b /\ b # 0 /\ l[1] = "box" /\ ~Ignored(h))
    <2>1. CASE n \notin 1..h
      BY <1>3, <1>6, <1>7, <1>8, <2>1
    <2>2. CASE n = h
      BY <1>3, <1>4, <1>5, <1>6, <1>7, <1>8, <2>2
    <2>3. CASE n \in 1..h-1 /\ ~OnlyComments(n)
      <3>1. After(n)' = After(n) /\ After(n) # h
        BY <1>5, <1>6, <2>3
      <3> QED BY <1>3, <1>4, <1>7, <1>8, <2>3, <3>1
    <2>4. CASE n \in 1..h-1 /\ OnlyComments(n)
      <3>1. After(n) = 0 /\ 0 \notin Effective({"box"}) /\ n \notin Pairs
        BY <1>4, <1>5, <1>6, <1>7, <2>4
      <3>2. CASE l = <<"comment">>
        <4>1. l[1] # "box" /\ After(n)' = 0
          BY <1>5, <2>4, <3>2
        <4>2. 0 \notin Effective({"box"})'
          BY <1>4, <1>6
        <4> QED BY <1>7, <3>1, <4>1, <4>2
      <3>3. CASE l # <<"comment">>
        <4>1. After(n)' = h
          BY <1>5, <2>4, <3>3
        <4>2. h \in Effective({"box"})' <=> l[1] = "box" /\ ~Ignored(h)
          BY <1>4, <1>6
        <4>3. n \in Pairs' <=> Inter(n) /\ l[1] = "box" /\ ~Ignored(h)
          BY <1>3, <1>7, <2>4, <4>1, <4>2
        <4>4. Inter(n) <=> n = b /\ b # 0
          BY <1>6, <1>8, <2>4
        <4> QED BY <3>1, <4>3, <4>4
      <3> QED BY <3>2, <3>3
    <2> QED BY <1>6, <2>1, <2>2, <2>3, <2>4
  <1>10. ASSUME NEW n \in Pairs
         PROVE  n \in 1..h-1 /\ After(n) \in 1..h-1 /\ After(n)' = After(n)
    <2>1. n \in 1..h-1 /\ After(n) \in 1..h-1
      BY <1>3, <1>4, <1>7
    <2> QED BY <1>5, <1>6, <2>1
  <1>11. ASSUME b # 0, l # <<"comment">> PROVE After(b)' = h
    BY <1>5, <1>8, <1>11
  <1> QED BY <1>9, <1>10, <1>11

\* Between a box that waits and the next line the textbox stays as it is.
LEMMA WaitsWithin ==
  ASSUME file \in Seq(Lines), NEW h, h = Here, NEW b \in 1..h-1, Inter(b), OnlyComments(b)
  PROVE  Within(h) = Within(b)
  <1>1. h \in Nat \ {0} /\ Len(file) = h - 1 /\ DOMAIN file = 1..h-1
    BY DEF Here
  <1>2. \A m \in 1..h-1 : m >= b => file[m][1] \notin Tags
    <2> TAKE m \in 1..h-1
    <2>1. CASE m = b
      BY <2>1 DEF Inter, Tags
    <2>2. CASE m > b
      <3>1. m \in b+1..h-1
        BY <1>1, <2>2
      <3>2. file[m] = <<"comment">>
        BY <1>1, <3>1 DEF OnlyComments, Comments
      <3> QED BY <3>2 DEF Tags
    <2> QED BY <1>1, <2>1, <2>2
  <1>3. \A m \in Effective(Tags) : m \in 1..h-1 /\ m < b
    BY <1>1, <1>2 DEF Effective
  <1>4. \A m \in Effective(Tags) : m < h
    BY <1>1, <1>3
  <1>5. {m \in Effective(Tags) : m < b} = {m \in Effective(Tags) : m < h}
    BY <1>3, <1>4
  <1>6. LastBefore(h, Tags) = LastBefore(b, Tags)
    BY <1>5 DEF LastBefore
  <1> QED BY <1>6 DEF Within, Tags

\* The lines of objects that are not second halves.
Singles == Effective({"object", "box"}) \ {After(p) : p \in Pairs}

\* A line with effect is one of them unless the box that waits takes it.
LEMMA SinglesGrow ==
  ASSUME NEW l, Grows(l), NEW h, h = Here, Places, Waits, NEW b, b = bprev
  PROVE  /\ \A n : n \in Singles' <=>
                     n \in Singles \/ /\ n = h /\ l[1] \in {"object", "box"} /\ ~Ignored(h)
                                      /\ ~(b # 0 /\ l[1] = "box")
         /\ \A n \in Singles : n \in 1..h-1
  <1> DEFINE E == Effective({"object", "box"})
             A == {After(p) : p \in Pairs}
             takes == b # 0 /\ l[1] = "box" /\ ~Ignored(h)
  <1>1. h \notin 1..h-1
    BY LineEffect DEF Here
  <1>2. /\ \A n : n \in E' <=> n \in E \/ (n = h /\ l[1] \in {"object", "box"} /\ ~Ignored(h))
        /\ \A n \in E : n \in 1..h-1
    BY EffectiveGrows
  <1>3. /\ \A n : n \in Pairs' <=> n \in Pairs \/ (n = b /\ takes)
        /\ \A n \in Pairs : n \in 1..h-1 /\ After(n) \in 1..h-1 /\ After(n)' = After(n)
        /\ takes => After(b)' = h
    <2>1. l[1] = "box" => l # <<"comment">>
      OBVIOUS
    <2> QED BY <2>1, PairsGrow
  <1>4. \A n : n \in A' <=> n \in A \/ (n = h /\ takes)
    <2>1. \A n : n \in A' <=> \E p \in Pairs' : n = After(p)'
      OBVIOUS
    <2>2. \A n : n \in A <=> \E p \in Pairs : n = After(p)
      OBVIOUS
    <2> QED BY <1>3, <2>1, <2>2
  <1>5. h \notin A
    BY <1>1, <1>3
  <1>6. /\ \A n : n \in Singles <=> n \in E /\ n \notin A
        /\ \A n : n \in Singles' <=> n \in E' /\ n \notin A'
    BY DEF Singles
  <1> HIDE DEF E, A
  <1> QED BY <1>1, <1>2, <1>4, <1>5, <1>6

Record(lines, textbox) == [lines |-> lines, textbox |-> textbox]

\* The object that a line adds, or the line of it with the one that waited.
Added(l, h, b) ==
  IF l[1] \in {"object", "box"} /\ ~Ignored(h)
  THEN {Record({h} \union (IF l[1] = "box" /\ b # 0 THEN {b} ELSE {}), Within(h))}
  ELSE {}

\* What is written in a file with one more line.
LEMMA WrittenGrows ==
  ASSUME NEW l, Grows(l), NEW h, h = Here, Places, Waits, NEW b, b = bprev, carried' = carried
  PROVE  Written' = Written \union Added(l, h, b)
  <1> DEFINE takes == b # 0 /\ l[1] = "box" /\ ~Ignored(h)
             alone == /\ l[1] \in {"object", "box"} /\ ~Ignored(h)
                      /\ ~(b # 0 /\ l[1] = "box")
             P(n) == Record({n, After(n)}, Within(n))
             Q(n) == Record({n}, Within(n))
  <1>1. /\ \A n : n \in Pairs' <=> n \in Pairs \/ (n = b /\ takes)
        /\ \A n \in Pairs : n \in 1..h-1 /\ After(n)' = After(n)
        /\ takes => After(b)' = h
    <2>1. l[1] = "box" => l # <<"comment">>
      OBVIOUS
    <2> QED BY <2>1, PairsGrow
  <1>2. /\ \A n : n \in Singles' <=> n \in Singles \/ (n = h /\ alone)
        /\ \A n \in Singles : n \in 1..h-1
    BY SinglesGrow
  <1>3. /\ h \in Nat \ {0} /\ h \in 1..h /\ \A n \in 1..h-1 : n \in 1..h
    BY LineEffect DEF Here
  <1>4. \A n \in 1..h : Within(n)' = Within(n)
    BY WithinGrows
  <1>5. /\ \A w : w \in Written <=> (\E n \in Singles : w = Q(n)) \/ (\E n \in Pairs : w = P(n))
        /\ \A w : w \in Written' <=> (\E n \in Singles' : w = Q(n)') \/ (\E n \in Pairs' : w = P(n)')
    BY DEF Written, Singles, Record
  <1>6. /\ \A n \in Singles : Q(n)' = Q(n)
        /\ \A n \in Pairs : P(n)' = P(n)
        /\ Q(h)' = Q(h)
    BY <1>1, <1>2, <1>3, <1>4
  <1>7. ASSUME takes PROVE P(b)' = Record({h, b}, Within(h))
    <2>1. b \in 1..h-1 /\ Inter(b) /\ OnlyComments(b) /\ file \in Seq(Lines)
      BY <1>3, <1>7, LineEffect DEF Waits, Here, Grows
    <2>2. Within(b)' = Within(h)
      BY <1>3, <1>4, <2>1, WaitsWithin
    <2> QED BY <1>1, <1>7, <2>2
  <1>8. /\ takes => Added(l, h, b) = {Record({h, b}, Within(h))}
        /\ alone => Added(l, h, b) = {Q(h)}
        /\ ~takes /\ ~alone => Added(l, h, b) = {}
        /\ ~(takes /\ alone)
    <2>1. {h} \union {b} = {h, b} /\ {h} \union {} = {h}
      OBVIOUS
    <2> QED BY <2>1 DEF Added
  <1> HIDE DEF P, Q, takes, alone
  <1>9. ASSUME NEW w
        PROVE  w \in Written' <=> w \in Written \/ w \in Added(l, h, b)
    <2>1. (\E n \in Singles' : w = Q(n)') <=> (\E n \in Singles : w = Q(n)) \/ (alone /\ w = Q(h))
      BY <1>2, <1>6
    <2>2. (\E n \in Pairs' : w = P(n)')
            <=> (\E n \in Pairs : w = P(n)) \/ (takes /\ w = Record({h, b}, Within(h)))
      BY <1>1, <1>6, <1>7
    <2>3. w \in Added(l, h, b)
            <=> (alone /\ w = Q(h)) \/ (takes /\ w = Record({h, b}, Within(h)))
      BY <1>8
    <2> QED BY <1>5, <2>1, <2>2, <2>3
  <1> QED BY <1>9

\* What a line does to the objects, to the box that waits and to the textbox.
Objects(l, h) ==
  /\ bprev' = IF l = <<"comment">> THEN bprev ELSE IF l = <<"inter">> /\ ~ignore THEN h ELSE 0
  /\ l[1] \in {"object", "box"} /\ ~ignore =>
       ObjAdd({h} \union (IF l[1] = "box" /\ bprev # 0 THEN {bprev} ELSE {}))
  /\ ~(l[1] \in {"object", "box"} /\ ~ignore) => objs' = objs
  /\ l[1] \in Tags /\ ~ignore => is_textbox' = (l = <<"<textbox>">>)
  /\ ~(l[1] \in Tags /\ ~ignore) => is_textbox' = is_textbox

\* Every action that reads a line is one of these.
LEMMA LineObjects ==
  ASSUME Types, Line, NEW h, h = Here
  PROVE  \E l \in Lines : Grows(l) /\ Objects(l, h) /\ phase = "reading" /\ UNCHANGED <<phase, carried>>
  <1> DEFINE Good(l) == Grows(l) /\ Objects(l, h) /\ phase = "reading" /\ UNCHANGED <<phase, carried>>
             Kind(l) == /\ l[1] = "box" <=> l = <<"box">>
                        /\ l[1] = "object" <=> l = <<"object">>
                        /\ l[1] \in Tags <=> l \in {<<"<textbox>">>, <<"</textbox>">>}
  <1>1. \A kind \in {"object", "box", "inter", "comment", "other", "<type mine>", "<type others>",
                     "</type>", "<textbox>", "</textbox>"} :
          <<kind>> \in Lines /\ <<kind>>[1] = kind
    BY DEF Lines
  <1>2. \A n \in LogLines :
          /\ <<"log_lines", n>> \in Lines /\ <<"log_lines", n>>[1] = "log_lines"
          /\ \A kind : <<"log_lines", n>> # <<kind>>
    BY DEF Lines
  <1>3. \A l \in Lines : Kind(l)
    <2>1. \A l \in Lines : (\E kind : l = <<kind>>) \/ (\E n : l = <<"log_lines", n>>)
      BY DEF Lines
    <2>2. \A kind : Kind(<<kind>>)
      BY DEF Tags
    <2>3. \A n : Kind(<<"log_lines", n>>)
      BY DEF Tags
    <2> QED BY <2>1, <2>2, <2>3
  <1>4. ASSUME NEW l \in Lines, Reads(l) PROVE Grows(l) /\ phase = "reading"
    BY <1>4 DEF Grows, Reads, Types
  <1>5. ASSUME Comment PROVE \E l \in Lines : Good(l)
    <2> DEFINE l == <<"comment">>
    <2>1. l \in Lines /\ Reads(l) /\ l[1] = "comment"
      BY <1>1, <1>5 DEF Comment
    <2>2. Objects(l, h) /\ UNCHANGED <<phase, carried>>
      BY <1>5, <2>1 DEF Comment, Objects, Tags
    <2> QED BY <1>4, <2>1, <2>2
  <1>6. ASSUME Object PROVE \E l \in Lines : Good(l)
    <2> DEFINE l == <<"object">>
    <2>1. l \in Lines /\ Reads(l) /\ l[1] = "object"
      BY <1>1, <1>6 DEF Object
    <2>2. Objects(l, h) /\ UNCHANGED <<phase, carried>>
      <3>1. {h} \union {} = {h}
        OBVIOUS
      <3> QED BY <1>6, <2>1, <3>1 DEF Object, Objects, Tags, Dropped
    <2> QED BY <1>4, <2>1, <2>2
  <1>7. ASSUME InterBox PROVE \E l \in Lines : Good(l)
    <2> DEFINE l == <<"inter">>
    <2>1. l \in Lines /\ Reads(l) /\ l[1] = "inter"
      BY <1>1, <1>7 DEF InterBox
    <2>2. Objects(l, h) /\ UNCHANGED <<phase, carried>>
      BY <1>7, <2>1 DEF InterBox, Objects, Tags
    <2> QED BY <1>4, <2>1, <2>2
  <1>8. ASSUME Box PROVE \E l \in Lines : Good(l)
    <2> DEFINE l == <<"box">>
    <2>1. l \in Lines /\ Reads(l) /\ l[1] = "box"
      BY <1>1, <1>8 DEF Box
    <2>2. Objects(l, h) /\ UNCHANGED <<phase, carried>>
      BY <1>8, <2>1 DEF Box, Objects, Tags
    <2> QED BY <1>4, <2>1, <2>2
  <1>9. ASSUME TypeClose PROVE \E l \in Lines : Good(l)
    <2> DEFINE l == <<"</type>">>
    <2>1. l \in Lines /\ Reads(l) /\ l[1] = "</type>"
      BY <1>1, <1>9 DEF TypeClose
    <2>2. Objects(l, h) /\ UNCHANGED <<phase, carried>>
      BY <1>9, <2>1 DEF TypeClose, Objects, Tags, Dropped
    <2> QED BY <1>4, <2>1, <2>2
  <1>10. ASSUME NEW l \in Lines, NoEffect(l) PROVE Good(l)
    <2>1. Reads(l) /\ UNCHANGED <<phase, carried, is_textbox, objs>> /\ bprev' = 0 /\ l # <<"comment">>
      BY <1>10 DEF NoEffect, Dropped
    <2>2. l = <<"other">> \/ ignore
      BY <1>10 DEF NoEffect
    <2>3. Objects(l, h)
      BY <2>1, <2>2 DEF Objects, Tags
    <2> QED BY <1>4, <2>1, <2>3
  <1>11. ASSUME NEW b \in BOOLEAN, TypeOpen(b) PROVE \E l \in Lines : Good(l)
    <2> DEFINE l == IF b THEN <<"<type mine>">> ELSE <<"<type others>">>
    <2>1. l \in Lines /\ Reads(l) /\ l[1] \in {"<type mine>", "<type others>"}
      BY <1>1, <1>11 DEF TypeOpen
    <2>2. Objects(l, h) /\ UNCHANGED <<phase, carried>>
      BY <1>11, <2>1 DEF TypeOpen, Objects, Tags, Dropped
    <2> QED BY <1>4, <2>1, <2>2
  <1>12. ASSUME NEW b \in BOOLEAN, Textbox(b) PROVE \E l \in Lines : Good(l)
    <2> DEFINE l == IF b THEN <<"<textbox>">> ELSE <<"</textbox>">>
    <2>1. l \in Lines /\ Reads(l) /\ l[1] \in {"<textbox>", "</textbox>"}
      BY <1>1, <1>12 DEF Textbox
    <2>2. b = (l = <<"<textbox>">>)
      OBVIOUS
    <2>3. /\ is_textbox' = b /\ bprev' = 0 /\ UNCHANGED <<objs, phase, carried>>
          /\ l # <<"comment">> /\ l # <<"inter">>
      BY <1>12 DEF Textbox, Dropped
    <2>4. Objects(l, h)
      <3> HIDE DEF l
      <3> QED BY <1>12, <2>1, <2>2, <2>3 DEF Objects, Tags, Textbox
    <2> QED BY <1>4, <2>1, <2>3, <2>4
  <1>13. ASSUME NEW n \in LogLines, SetLogLines(n) PROVE \E l \in Lines : Good(l)
    <2> DEFINE l == <<"log_lines", n>>
    <2>1. l \in Lines /\ Reads(l) /\ l[1] = "log_lines" /\ l # <<"comment">> /\ l # <<"inter">>
      BY <1>2, <1>13 DEF SetLogLines
    <2>2. Objects(l, h) /\ UNCHANGED <<phase, carried>>
      BY <1>13, <2>1 DEF SetLogLines, Objects, Tags, Dropped
    <2> QED BY <1>4, <2>1, <2>2
  <1> HIDE DEF Good
  <1>14. \E l \in Lines : Good(l)
    BY <1>5, <1>6, <1>7, <1>8, <1>9, <1>10, <1>11, <1>12, <1>13 DEF Line
  <1> QED BY <1>14 DEF Good

\* While a file is read the objects are those that were written so far.
Reading ==
  /\ is_textbox = Within(Here) /\ carried \in BOOLEAN
  /\ Waits
  /\ Lists(objs, Written, Len(file))

ObjInv == Places /\ (phase = "reading" => Reading) /\ ObjectsAsWritten

\* What waits, after one more line.
LEMMA LineWaits ==
  ASSUME NEW l, Grows(l), NEW h, h = Here, Places, Waits, Objects(l, h), ignore <=> Ignored(h)
  PROVE  Waits'
  <1>1. h \in Nat \ {0} /\ Len(file) = h - 1 /\ Len(file') = h /\ \A n : n \in 1..h <=> n \in 1..h-1 \/ n = h
    BY LineEffect DEF Here
  <1>2. /\ \A n \in 1..h-1 : Inter(n)' <=> Inter(n)
        /\ Inter(h)' <=> l = <<"inter">> /\ ~Ignored(h)
        /\ OnlyComments(h)'
    BY FollowsEffect
  <1>3. \A n \in 1..h-1 : OnlyComments(n)' <=> OnlyComments(n) /\ l = <<"comment">>
    BY AfterGrows
  <1>4. /\ \A n \in 1..h-1 : Inter(n) /\ OnlyComments(n) => n = bprev
        /\ bprev # 0 => bprev \in 1..h-1 /\ Inter(bprev) /\ OnlyComments(bprev)
    BY <1>1 DEF Waits
  <1>5. PICK b, c : b = bprev /\ c = bprev'
    OBVIOUS
  <1>6. c = IF l = <<"comment">> THEN b ELSE IF l = <<"inter">> /\ ~Ignored(h) THEN h ELSE 0
    BY <1>5 DEF Objects
  <1>7. \A n \in 1..h : Inter(n)' /\ OnlyComments(n)' => n = c
    BY <1>1, <1>2, <1>3, <1>4, <1>5, <1>6
  <1>8. c # 0 => c \in 1..h /\ Inter(c)' /\ OnlyComments(c)'
    BY <1>1, <1>2, <1>3, <1>4, <1>5, <1>6
  <1> QED BY <1>1, <1>5, <1>7, <1>8 DEF Waits

\* The objects, after one more line.
LEMMA LineLists ==
  ASSUME Types, NEW l, Grows(l), NEW h, h = Here, Places, Reading, Objects(l, h),
         ignore <=> Ignored(h), carried' = carried
  PROVE  Lists(objs, Written, Len(file))'
  <1> DEFINE R == [lines : SUBSET Nat, textbox : BOOLEAN]
  <1>1. h \in Nat \ {0} /\ h - 1 \in Nat /\ Len(file) = h - 1 /\ Len(file') = h
    BY LineEffect DEF Here
  <1>2. PICK b : b = bprev
    OBVIOUS
  <1>3. Written' = Written \union Added(l, h, b)
    BY <1>2, WrittenGrows DEF Reading
  <1>4. PICK os, W, new, V : os = objs /\ W = Written /\ new = objs' /\ V = Written'
    OBVIOUS
  <1>5. Lists(os, W, h - 1)
    BY <1>1, <1>4 DEF Reading
  <1>6. CASE ~(l[1] \in {"object", "box"} /\ ~Ignored(h))
    <2>1. V = W /\ new = os
      BY <1>3, <1>4, <1>6 DEF Added, Objects
    <2>2. \A x \in 1..h-1 : x \in 1..h
      BY <1>1
    <2>3. Lists(os, W, h)
      BY <1>5, <2>2 DEF Lists
    <2> QED BY <1>1, <1>4, <2>1, <2>3
  <1>7. CASE l[1] \in {"object", "box"} /\ ~Ignored(h)
    <2> DEFINE L == {h} \union (IF l[1] = "box" /\ b # 0 THEN {b} ELSE {})
               o == [lines |-> L, textbox |-> is_textbox]
    <2>1. new = Append(os, o)
      BY <1>2, <1>4, <1>7 DEF Objects, ObjAdd
    <2>2. V = W \union {o}
      <3>1. is_textbox = Within(h)
        BY DEF Reading
      <3> QED BY <1>3, <1>4, <1>7, <3>1 DEF Added, Record
    <2>3. \A x \in L : x \in Nat /\ h >= x
      <3>1. b # 0 => b \in 1..h-1
        BY <1>1, <1>2 DEF Reading, Waits
      <3> QED BY <1>1, <3>1
    <2>4. Max(L) = h
      <3>1. h \in L
        OBVIOUS
      <3> HIDE DEF L
      <3>2. \A x \in L : x >= h => x = h
        BY <1>1, <2>3
      <3> QED BY <2>3, <3>1, <3>2 DEF Max
    <2>5. os \in Seq(R)
      <3> DEFINE S == [lines : SUBSET (0..Len(file)), textbox : BOOLEAN]
      <3>1. os \in Seq(S)
        BY <1>4 DEF Types
      <3>2. S \subseteq R
        OBVIOUS
      <3> HIDE DEF S, R
      <3> QED BY <3>1, <3>2
    <2> HIDE DEF L
    <2>6. o \in R /\ o.lines = L
      BY <2>3 DEF Types
    <2> HIDE DEF o, R
    <2>7. Lists(Append(os, o), W \union {o}, (h - 1) + 1)
      <3>1. Max(o.lines) = (h - 1) + 1
        BY <1>1, <2>4, <2>6
      <3> QED BY <1>1, <1>5, <2>5, <2>6, <3>1, ListsAppend
    <2> QED BY <1>1, <1>4, <2>1, <2>2, <2>7
  <1> QED BY <1>6, <1>7

\* Reading a line keeps what is known of the objects.
LEMMA LineObjInv ==
  ASSUME Types, ignore <=> Ignored(Here), ObjInv, Line
  PROVE  ObjInv'
  <1>1. PICK h : h = Here
    OBVIOUS
  <1>2. PICK l \in Lines : /\ Grows(l) /\ Objects(l, h) /\ phase = "reading"
                           /\ UNCHANGED <<phase, carried>>
    BY <1>1, LineObjects
  <1>3. Places /\ Reading
    BY <1>2 DEF ObjInv
  <1>4. Places'
    BY <1>1, <1>2, <1>3, PlacesGrow
  <1>5. Waits'
    BY <1>1, <1>2, <1>3, LineWaits DEF Reading
  <1>6. Lists(objs, Written, Len(file))'
    BY <1>1, <1>2, <1>3, LineLists
  <1>7. is_textbox' = Within(Here)'
    <2>1. Here' = h + 1
      BY <1>1, <1>2, LineEffect DEF Here
    <2>2. is_textbox = Within(h)
      BY <1>1, <1>3 DEF Reading
    <2>3. /\ l[1] \in Tags /\ ~Ignored(h) => Within(h + 1)' = (l = <<"<textbox>">>)
          /\ ~(l[1] \in Tags /\ ~Ignored(h)) => Within(h + 1)' = Within(h)
      BY <1>1, <1>2, <1>3, WithinGrows
    <2>4. Within(Here)' = Within(h + 1)'
      BY <2>1 DEF Within
    <2> QED BY <1>1, <1>2, <2>2, <2>3, <2>4 DEF Objects
  <1> QED BY <1>2, <1>3, <1>4, <1>5, <1>6, <1>7 DEF ObjInv, Reading, ObjectsAsWritten

\* Before the first line there is nothing.
Begun == file = <<>> /\ objs = <<>> /\ bprev = 0 /\ carried = is_textbox /\ is_textbox \in BOOLEAN

\* In a file of no lines no object is written.
LEMMA BegunObjInv == Begun => Places /\ Reading
  <1> SUFFICES ASSUME Begun PROVE Places /\ Reading
    OBVIOUS
  <1>1. file = <<>> /\ objs = <<>> /\ bprev = 0 /\ carried = is_textbox /\ is_textbox \in BOOLEAN
    BY DEF Begun
  <1>2. Len(file) = 0 /\ Here = 1 /\ 1..0 = {} /\ DOMAIN file = {} /\ Len(objs) = 0 /\ Range(objs) = {}
    BY <1>1 DEF Here, Range
  <1>3. \A kinds : Effective(kinds) = {}
    BY <1>2 DEF Effective
  <1>4. \A n, kinds : LastBefore(n, kinds) = 0
    <2> TAKE n, kinds
    <2>1. {m \in Effective(kinds) : m < n} \union {0} = {0}
      BY <1>3
    <2>2. Max({0}) = 0
      BY DEF Max
    <2> QED BY <2>1, <2>2 DEF LastBefore
  <1>5. Written = {}
    <2>1. Pairs = {}
      BY <1>3 DEF Pairs
    <2> QED BY <1>3, <2>1 DEF Written
  <1>6. IsFiniteSet({}) /\ Cardinality({}) = 0
    BY FS_EmptySet
  <1>7. Lists(objs, Written, Len(file))
    BY <1>2, <1>5, <1>6 DEF Lists
  <1>8. is_textbox = Within(Here)
    BY <1>1, <1>4 DEF Within
  <1>9. Waits
    BY <1>1, <1>2 DEF Waits
  <1>10. Places
    <2>1. \A n \in 1..1 : 0 \in 0..n-1
      OBVIOUS
    <2> QED BY <1>2, <1>4, <2>1 DEF Places
  <1> QED BY <1>1, <1>7, <1>8, <1>9, <1>10 DEF Reading

\* So it is when fbsplashd starts,
LEMMA FirstObjInv == Init => ObjInv
  <1> SUFFICES ASSUME Init PROVE ObjInv
    OBVIOUS
  <1>1. Begun
    BY DEF Init, Begun
  <1> QED BY <1>1, BegunObjInv DEF Init, ObjInv, ObjectsAsWritten

\* and when another theme is asked for; <textbox> stays as it was.
LEMMA SetThemeObjInv ==
  ASSUME Types, SetTheme
  PROVE  ObjInv'
  <1>1. Begun'
    BY DEF SetTheme, Fresh, Begun, Types
  <1>2. (Places /\ Reading)'
    BY <1>1, BegunObjInv, PTL
  <1>3. phase' # "loaded"
    BY DEF SetTheme
  <1> QED BY <1>2, <1>3 DEF ObjInv, ObjectsAsWritten

\* What the file says stays when it does.
LEMMA KeepsWritten ==
  ASSUME UNCHANGED <<file, carried>>
  PROVE  /\ Written' = Written /\ Here' = Here
         /\ \A n : Within(n)' = Within(n)
         /\ Places' <=> Places
  <1>1. \A n : Ignored(n)' <=> Ignored(n)
    BY DEF Ignored
  <1>2. \A kinds : Effective(kinds)' = Effective(kinds)
    BY <1>1 DEF Effective
  <1>3. \A n : After(n)' = After(n)
    BY DEF After
  <1>4. Pairs' = Pairs
    BY <1>2, <1>3 DEF Pairs
  <1>5. \A n, kinds : LastBefore(n, kinds)' = LastBefore(n, kinds)
    BY <1>2 DEF LastBefore
  <1>6. \A n : Within(n)' = Within(n)
    BY <1>5 DEF Within
  <1>7. Written' = Written
    <2>1. {After(p) : p \in Pairs}' = {After(p) : p \in Pairs}
      BY <1>3, <1>4
    <2>2. \A w : w \in Written' <=> w \in Written
      BY <1>2, <1>3, <1>4, <1>6, <2>1 DEF Written
    <2> QED BY <2>2
  <1>8. Places' <=> Places
    BY <1>5 DEF Places, Here, OnlyComments, Comments, Follows
  <1> QED BY <1>6, <1>7, <1>8 DEF Here

\* The main message goes behind the objects.
LEMMA EndOfFileObjInv ==
  ASSUME Types, ObjInv, EndOfFile
  PROVE  ObjInv'
  <1> DEFINE o == [lines |-> {Message}, textbox |-> is_textbox]
  <1>1. /\ phase = "reading" /\ phase' = "loaded" /\ objs' = Append(objs, o)
        /\ UNCHANGED <<file, carried>>
    BY DEF EndOfFile, ObjAdd
  <1>2. /\ Written' = Written /\ (Places' <=> Places) /\ Here' = Here
        /\ \A n : Within(n)' = Within(n)
    BY <1>1, KeepsWritten
  <1>3. Reading /\ Places
    BY <1>1 DEF ObjInv
  <1>4. PICK R : objs \in Seq(R)
    BY DEF Types
  <1> HIDE DEF o
  <1>5. /\ Len(objs) \in Nat /\ Len(objs') = Len(objs) + 1 /\ objs'[Len(objs) + 1] = o
        /\ DOMAIN objs = 1..Len(objs)
        /\ \A i \in 1..Len(objs) : objs'[i] = objs[i]
    BY <1>1, <1>4
  <1>6. Front(objs') = objs
    <2>1. objs' \in Seq(R \union {o})
      BY <1>1, <1>4
    <2>2. SubSeq(objs', 1, Len(objs)) = objs
      BY <1>4, <1>5, <2>1
    <2>3. Len(objs') - 1 = Len(objs)
      BY <1>5
    <2> QED BY <2>2, <2>3 DEF Front
  <1>7. Last(objs') = [lines |-> {Message}, textbox |-> Within(Len(file) + 1)]
    <2>1. Last(objs') = o
      BY <1>5 DEF Last
    <2>2. is_textbox = Within(Len(file) + 1)
      BY <1>3 DEF Reading, Here
    <2> QED BY <2>1, <2>2 DEF o
  <1>8. Lists(objs, Written, Len(file))
    BY <1>3 DEF Reading
  <1>9. Range(Front(objs)') = Written' /\ Len(objs') = Cardinality(Written') + 1
    BY <1>2, <1>5, <1>6, <1>8 DEF Lists
  <1>10. \A i, j \in DOMAIN Front(objs') : i < j => Max(objs'[i].lines) < Max(objs'[j].lines)
    BY <1>5, <1>6, <1>8 DEF Lists
  <1>11. Within(Len(file) + 1)' = Within(Len(file) + 1)
    <2>1. PICK n : n = Len(file) + 1
      OBVIOUS
    <2>2. Within(n)' = Within(n)
      BY <1>2
    <2> QED BY <1>1, <2>1, <2>2 DEF Within
  <1>12. ObjectsAsWritten'
    BY <1>7, <1>9, <1>10, <1>11 DEF ObjectsAsWritten
  <1> QED BY <1>1, <1>2, <1>3, <1>12 DEF ObjInv

\* Without a new file nothing of it changes.
LEMMA KeepsObjInv ==
  ASSUME ObjInv, UNCHANGED parserVars, phase' = phase \/ phase' = "crashed"
  PROVE  ObjInv'
  <1>1. UNCHANGED <<file, bprev, is_textbox, objs, carried>>
    BY DEF parserVars
  <1>2. /\ Written' = Written /\ Here' = Here /\ (Places' <=> Places)
        /\ \A n : Within(n)' = Within(n)
    BY <1>1, KeepsWritten
  <1>3. ASSUME phase' = "reading" PROVE Reading'
    <2>1. Reading
      BY <1>3 DEF ObjInv
    <2>2. Within(Here)' = Within(Here)
      <3>1. PICK n : n = Here
        OBVIOUS
      <3>2. Within(n)' = Within(n)
        BY <1>2
      <3> QED BY <1>2, <3>1, <3>2 DEF Within
    <2>3. \A n : Ignored(n)' <=> Ignored(n)
      BY <1>1 DEF Ignored
    <2>4. Waits' <=> Waits
      BY <1>1, <2>3 DEF Waits, Inter, OnlyComments, Comments
    <2> QED BY <1>1, <1>2, <2>1, <2>2, <2>4 DEF Reading
  <1>4. ASSUME phase' = "loaded" PROVE ObjectsAsWritten'
    <2>1. ObjectsAsWritten /\ phase = "loaded"
      BY <1>4 DEF ObjInv
    <2>2. Within(Len(file) + 1)' = Within(Len(file) + 1)
      <3>1. PICK n : n = Len(file) + 1
        OBVIOUS
      <3>2. Within(n)' = Within(n)
        BY <1>2
      <3> QED BY <1>1, <3>1, <3>2 DEF Within
    <2> QED BY <1>1, <1>2, <2>1, <2>2 DEF ObjectsAsWritten
  <1> QED BY <1>2, <1>3, <1>4 DEF ObjInv, ObjectsAsWritten

\* For files of any length, a theme that was loaded has the objects its file
\* asks for, each once and in its order, an 'inter' box and its other half as
\* one, the main message last, and those after <textbox> in the textbox.
THEOREM ObjectsTheorem == Spec => []ObjectsAsWritten
  <1>1. IInv /\ ObjInv /\ [Next]_vars => ObjInv'
    <2> SUFFICES ASSUME IInv, ObjInv, [Next]_vars PROVE ObjInv'
      OBVIOUS
    <2>1. Types /\ (ignore <=> Ignored(Here))
      BY DEF IInv, LostInv
    <2>2. CASE UNCHANGED vars
      <3>1. UNCHANGED parserVars /\ phase' = phase
        BY <2>2 DEF vars
      <3> QED BY <3>1, KeepsObjInv
    <2>3. CASE Log
      <3>1. UNCHANGED parserVars /\ (phase' = phase \/ phase' = "crashed")
        BY <2>3 DEF Log
      <3> QED BY <3>1, KeepsObjInv
    <2>4. CASE SetTheme
      BY <2>1, <2>4, SetThemeObjInv
    <2>5. CASE Line
      BY <2>1, <2>5, LineObjInv
    <2>6. CASE EndOfFile
      BY <2>1, <2>6, EndOfFileObjInv
    <2> QED BY <2>2, <2>3, <2>4, <2>5, <2>6 DEF Next, Ended
  <1>2. ObjInv => ObjectsAsWritten
    BY DEF ObjInv
  <1> QED BY ThemeInvariance, FirstObjInv, <1>1, <1>2, PTL DEF Spec
================================================================================
