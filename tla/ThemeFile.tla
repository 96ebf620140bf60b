------------------------------- MODULE ThemeFile -------------------------------
(***************************************************************************)
(* A theme's configuration file as parse_cfg reads it, one line after      *)
(* another, and the message log that fbsplashd keeps for the theme that    *)
(* was loaded: the state that outlives a line, and the state that outlives *)
(* a theme.  What a line looks like, and what it says of an object, is     *)
(* left out.                                                               *)
(***************************************************************************)
EXTENDS Naturals, SequencesExt

CONSTANTS LogLines,   \* the values of log_lines in the files
          MaxLines,   \* bound: lines of a file
          MaxLog      \* bound: 'log' commands for a theme

ASSUME ThemeAssumption ==
  /\ LogLines \subseteq {n \in Nat : n < 2^16}   \* parse_int stores 16 bits
  /\ MaxLines \in Nat \ {0} /\ MaxLog \in Nat \ {0}

VARIABLES
  phase,      \* "reading" the file, "loaded", "missing", or fbsplashd "crashed"
  file,       \* the lines read so far
  ignore,     \* in a <type> section for something else
  bprev,      \* the line of an 'inter' box that waits for its other half, or 0
  is_textbox, \* static: after <textbox>
  objs,       \* theme.objs: the lines of each object, and whether it is in theme.textbox
  log_lines,
  msglog,     \* the list: what its head leads to, and its tail (0 is NULL)
  log_cnt,
  \* What the properties compare with:
  carried,    \* is_textbox before the first line
  reported    \* lines of 'inter' boxes an error was reported for

parserVars == <<file, ignore, bprev, is_textbox, objs, log_lines, carried, reported>>
logVars    == <<msglog, log_cnt>>
vars == <<phase, parserVars, logVars>>

\* The kinds of lines.  "object" is an icon, anim or text; "other" is a blank
\* line, one with an error, a setting that changes nothing here, or a rect: it
\* is put into tmptheme.rects, which nothing reads, and makes no object.
Lines == {<<kind>> : kind \in {"object", "box", "inter", "comment", "other",
                               "<type mine>", "<type others>", "</type>",
                               "<textbox>", "</textbox>"}}
           \union {<<"log_lines", n>> : n \in LogLines}

Message == 0      \* stands for the line of the main message
Empty == [chain |-> <<>>, tail |-> 0]

-----------------------------------------------------------------------------
(* parse_cfg                                                               *)

\* fbsplashr_theme_load and the beginning of parse_cfg.
Fresh ==
  /\ file' = <<>> /\ ignore' = FALSE /\ bprev' = 0 /\ objs' = <<>>
  /\ log_lines' = 5 /\ log_cnt' = 0 /\ msglog' = Empty
  /\ carried' = is_textbox /\ reported' = {}
  /\ UNCHANGED is_textbox

Init ==
  /\ phase \in {"reading", "missing"}
  /\ file = <<>> /\ ignore = FALSE /\ bprev = 0 /\ objs = <<>>
  /\ log_lines = 5 /\ log_cnt = 0 /\ msglog = Empty
  /\ is_textbox = FALSE /\ carried = FALSE /\ reported = {}

\* 'set theme', of one whose file can be opened or not.
SetTheme ==
  /\ phase \in {"loaded", "missing"}
  /\ phase' \in {"reading", "missing"}
  /\ Fresh

ObjAddFault(lines) ==  \* Fault: nothing is put into the textbox.
  objs' = Append(objs, [lines |-> lines, textbox |-> FALSE])

\* obj_add
ObjAdd(lines) == objs' = Append(objs, [lines |-> lines, textbox |-> is_textbox])

Reads(l) == phase = "reading" /\ Len(file) < MaxLines /\ file' = Append(file, l)
Here == Len(file) + 1

\* After any line but a comment and an 'inter' box, one that still waits is
\* dropped with an error.
Dropped ==
  /\ bprev' = 0
  /\ reported' = IF bprev # 0 THEN reported \union {bprev} ELSE reported

Comment ==
  /\ Reads(<<"comment">>)
  /\ UNCHANGED <<phase, ignore, bprev, is_textbox, objs, log_lines, carried, reported,
                 logVars>>

\* A line without effect, of its kind or in an ignored section.
NoEffect(l) ==
  /\ Reads(l)
  /\ l = <<"other">> \/ (ignore /\ l \notin {<<"comment">>, <<"</type>">>})
  /\ Dropped
  /\ UNCHANGED <<phase, ignore, is_textbox, objs, log_lines, carried, logVars>>

Object ==
  /\ Reads(<<"object">>) /\ ~ignore
  /\ ObjAdd({Here}) /\ Dropped
  /\ UNCHANGED <<phase, ignore, is_textbox, log_lines, carried, logVars>>

\* The first half of an interpolated box; one that waits is forgotten.
InterBox ==
  /\ Reads(<<"inter">>) /\ ~ignore
  /\ bprev' = Here
  /\ UNCHANGED <<phase, ignore, is_textbox, objs, log_lines, carried, reported, logVars>>

BoxFault ==  \* Fault: the first half is not forgotten when its other half came.
  /\ Reads(<<"box">>) /\ ~ignore
  /\ ObjAdd({Here} \union (IF bprev # 0 THEN {bprev} ELSE {}))
  /\ UNCHANGED <<phase, ignore, bprev, is_textbox, log_lines, carried, reported, logVars>>

\* A box of its own, or the second half of the one that waits.
Box ==
  /\ Reads(<<"box">>) /\ ~ignore
  /\ ObjAdd({Here} \union (IF bprev # 0 THEN {bprev} ELSE {}))
  /\ bprev' = 0
  /\ UNCHANGED <<phase, ignore, is_textbox, log_lines, carried, reported, logVars>>

\* In a section for something else another <type> is passed over as well.
TypeOpen(mine) ==
  /\ Reads(IF mine THEN <<"<type mine>">> ELSE <<"<type others>">>) /\ ~ignore
  /\ ignore' = ~mine /\ Dropped
  /\ UNCHANGED <<phase, is_textbox, objs, log_lines, carried, logVars>>

TypeClose ==
  /\ Reads(<<"</type>">>)
  /\ ignore' = FALSE /\ Dropped
  /\ UNCHANGED <<phase, is_textbox, objs, log_lines, carried, logVars>>

Textbox(open) ==
  /\ Reads(IF open THEN <<"<textbox>">> ELSE <<"</textbox>">>) /\ ~ignore
  /\ is_textbox' = open /\ Dropped
  /\ UNCHANGED <<phase, ignore, objs, log_lines, carried, logVars>>

SetLogLines(n) ==
  /\ Reads(<<"log_lines", n>>) /\ ~ignore
  /\ log_lines' = n /\ Dropped
  /\ UNCHANGED <<phase, ignore, is_textbox, objs, carried, logVars>>

\* The end of the file: add_main_msg.
EndOfFile ==
  /\ phase = "reading" /\ phase' = "loaded"
  /\ ObjAdd({Message})
  /\ UNCHANGED <<file, ignore, bprev, is_textbox, log_lines, carried, reported, logVars>>

-----------------------------------------------------------------------------
(* cmd_log                                                                 *)

\* list_add looks at the tail alone.
ListAdd(l, x) == [chain |-> IF l.chain # <<>> \/ l.tail = 0 THEN Append(l.chain, x) ELSE <<>>,
                  tail  |-> x]

RingAddFault(l, x) ==  \* Fault: the newest line makes room.
  ListAdd([l EXCEPT !.chain = Front(@)], x)

\* list_ringadd.  When the only item goes, tail still leads to it.
RingAdd(l, x) == ListAdd([l EXCEPT !.chain = Tail(@)], x)

Log ==
  /\ phase \in {"loaded", "missing"} /\ log_cnt < MaxLog
  /\ log_cnt' = log_cnt + 1
  /\ msglog' = IF log_cnt' <= log_lines THEN ListAdd(msglog, log_cnt')
               ELSE IF msglog.chain = <<>> THEN msglog ELSE RingAdd(msglog, log_cnt')
  /\ phase' = IF log_cnt' > log_lines /\ msglog.chain = <<>> THEN "crashed" ELSE phase
  /\ UNCHANGED parserVars

Ended == phase = "crashed" /\ UNCHANGED vars

-----------------------------------------------------------------------------
Line ==
  \/ Comment \/ Object \/ InterBox \/ Box \/ TypeClose
  \/ \E l \in Lines : NoEffect(l)
  \/ \E b \in BOOLEAN : TypeOpen(b) \/ Textbox(b)
  \/ \E n \in LogLines : SetLogLines(n)

Next == SetTheme \/ Line \/ EndOfFile \/ Log \/ Ended

Spec == Init /\ [][Next]_vars

-----------------------------------------------------------------------------
(* Properties                                                              *)

Ignored(n) == \E m \in 1..n-1 : /\ file[m] = <<"<type others>">>
                                /\ \A k \in m+1..n-1 : file[k] # <<"</type>">>

Effective(kinds) == {n \in DOMAIN file : file[n][1] \in kinds /\ ~Ignored(n)}

\* The line that follows line n, comments apart, or 0.
After(n) == LET later == {m \in n+1..Len(file) : file[m] # <<"comment">>}
            IN  IF later = {} THEN 0 ELSE Min(later)

Pairs == {n \in Effective({"inter"}) : After(n) \in Effective({"box"})}

\* The last of the effective lines of these kinds before line n, or 0.
LastBefore(n, kinds) == Max({m \in Effective(kinds) : m < n} \union {0})

Within(n) == LET tag == LastBefore(n, {"<textbox>", "</textbox>"})
             IN  IF tag = 0 THEN carried ELSE file[tag] = <<"<textbox>">>

Written ==
  {[lines |-> {n}, textbox |-> Within(n)] :
      n \in Effective({"object", "box"}) \ {After(p) : p \in Pairs}}
    \union {[lines |-> {n, After(n)}, textbox |-> Within(n)] : n \in Pairs}

\* The theme that was loaded has one object for every icon, anim, text
\* and box of the sections that apply, in the order of the file, one for an
\* 'inter' box and the box that follows it, and the main message behind them;
\* those after <textbox> are in the textbox.  A file read after one that
\* ends in an open <textbox> begins inside it.
ObjectsAsWritten ==
  phase = "loaded" =>
    /\ Range(Front(objs)) = Written /\ Len(objs) = Cardinality(Written) + 1
    /\ \A i, j \in DOMAIN Front(objs) : i < j => Max(objs[i].lines) < Max(objs[j].lines)
    /\ Last(objs) = [lines |-> {Message}, textbox |-> Within(Len(file) + 1)]

\* No box disappears without an error, except an 'inter' box that another
\* one follows or that ends the file; and no error is reported for a box
\* that is there.
LostAreReported ==
  phase = "loaded" =>
    \A n \in Effective({"inter"}) :
      /\ n \in reported => \A o \in Range(objs) : n \notin o.lines
      /\ \/ n \in reported \/ \E o \in Range(objs) : n \in o.lines
         \/ After(n) \in Effective({"inter"}) \union {0}

\* The log holds the last lines that were sent, as many as the theme asks
\* for, and no log command ends fbsplashd; except for a theme that asks for
\* less than two lines.
LogShowsLastLines ==
  LET last  == LastBefore(Len(file) + 1, {"log_lines"})
      asked == IF last = 0 THEN 5 ELSE file[last][2]
      first == IF log_cnt > asked THEN log_cnt - asked + 1 ELSE 1
  IN  asked >= 2 =>
        /\ phase # "crashed"
        /\ msglog.chain = [i \in 1..(log_cnt - first + 1) |-> first + i - 1]
=============================================================================
