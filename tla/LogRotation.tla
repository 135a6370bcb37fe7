---------------------------- MODULE LogRotation -----------------------------
(***************************************************************************)
(* The rotating log file of package log/rotation, on a file system whose   *)
(* operations may fail.  The program logs the lines 1, 2, 3...; in the     *)
(* byte stream, k stands for the text of line k and NL for the newline     *)
(* after it, and a call of Write passes on the next few bytes.  disk maps  *)
(* the files there are to their contents: 0 is the base file, i is base.i. *)
(***************************************************************************)
EXTENDS Integers, SequencesExt, Calls

CONSTANTS LogSizes,   \* the maximum size of a file, in bytes
          LogFiles,   \* n, the number of rotated files
          MaxWrite,   \* bound: bytes per Write
          MaxStream   \* bound: bytes written in all

NL == 0
DROP == -1
dropmsg == <<NL, DROP, NL>>

byteAt(i) == IF i % 2 = 1 THEN (i + 1) \div 2 ELSE NL

\* os.Rename in disk d; when it fails nothing happens.
renamed(d, from, to) ==
  IF from \notin DOMAIN d THEN {d}
  ELSE {d, [i \in (DOMAIN d \ {from}) \cup {to} |-> IF i = to THEN d[from] ELSE d[i]]}

\* The disks rotate may leave, renaming base.i and everything before it.
RECURSIVE rotateFrom(_, _)
rotateFrom(d, i) == IF i = 0 THEN renamed(d, 0, 1)
                    ELSE UNION {rotateFrom(e, i - 1) : e \in renamed(d, i, i + 1)}
rotate(d) == rotateFrom(d, LogFiles - 1)

opened(f) == [f EXCEPT !.disk = IF 0 \in DOMAIN @ THEN @ ELSE [i \in DOMAIN @ \cup {0} |->
                                                               IF i = 0 THEN <<>> ELSE @[i]],
                       !.open = TRUE]

\* Every outcome of write(p) on f: the File and whether there was an error.
rotations(f, p) ==
  IF f.w + Len(p) > f.size
  THEN {[f EXCEPT !.disk = d, !.open = FALSE, !.w = 0] : d \in rotate(f.disk)}
  ELSE {f}

openings(f) ==
  IF f.open THEN {[f |-> f, err |-> FALSE]}
  ELSE {[f |-> f, err |-> TRUE],                              \* OpenFile fails
        [f |-> [opened(f) EXCEPT !.w = 0], err |-> TRUE],     \* Seek fails
        [f |-> [opened(f) EXCEPT !.w = Len(opened(f).disk[0])], err |-> FALSE]}

\* Only the first n bytes of p are written when there is an error.
outputs(f, p) ==
  {[f |-> [f EXCEPT !.disk[0] = @ \o SubSeq(p, 1, n), !.w = @ + n], err |-> n < Len(p)] :
     n \in 0..Len(p)}

write(f, p) ==
  UNION {UNION {IF o.err THEN {o} ELSE outputs(o.f, p) : o \in openings(g)} : g \in rotations(f, p)}

lastNewline(b) == LET at == {i \in DOMAIN b : b[i] = NL}
                  IN  IF at = {} THEN 0 ELSE CHOOSE i \in at : \A j \in at : j <= i

FileWrite(f, p) ==
  LET all == f.buf \o p
      i == lastNewline(all)
      rest == SubSeq(all, i + 1, Len(all))
  IN  IF i = 0 THEN {[f EXCEPT !.buf = all]}
      ELSE {[o.f EXCEPT !.buf = IF o.err THEN dropmsg \o rest ELSE rest] :
              o \in write(f, SubSeq(all, 1, i))}

-----------------------------------------------------------------------------
\* Create, on a disk that may hold the log of an earlier run, which wrote
\* the first line.
Create(size, earlier) ==
  Eval("log", <<>>,
       [f |-> [size |-> size, buf |-> <<>>, open |-> FALSE, w |-> 0,
               disk |-> IF earlier THEN [i \in {0} |-> <<1, NL>>] ELSE <<>>],
        sent |-> IF earlier THEN 2 ELSE 0])

LogWrite ==
  /\ call.fn = "log"
  /\ \E m \in 1..MaxWrite :
       /\ call.st.sent + m <= MaxStream
       /\ \E g \in FileWrite(call.st.f, [i \in 1..m |-> byteAt(call.st.sent + i)]) :
            call' = [call EXCEPT !.st = [f |-> g, sent |-> @.sent + m]]

LogNext ==
  \/ Idle /\ \E size \in LogSizes, earlier \in BOOLEAN : Create(size, earlier)
  \/ LogWrite

-----------------------------------------------------------------------------
isText(b) == b > 0
texts(s) == SelectSeq(s, isText)
Increasing(s) == \A i, j \in DOMAIN s : i < j => s[i] < s[j]

\* Two texts of one file with none in between.
Neighbours(s, i, j) == /\ i < j /\ isText(s[i]) /\ isText(s[j])
                       /\ \A k \in (i + 1)..(j - 1) : ~isText(s[k])

oldestFirst(d) == FlattenSeq([i \in 1..(LogFiles + 1) |->
                    IF LogFiles + 1 - i \in DOMAIN d THEN d[LogFiles + 1 - i] ELSE <<>>])

(***************************************************************************)
(* Read from the oldest file to the newest, the lines are in order and     *)
(* none is there twice; within a file two lines are never joined into one, *)
(* and where lines are missing a drop message says so.  It holds whichever *)
(* opens, seeks, renames and writes fail, and wherever a write stops.      *)
(***************************************************************************)
LogOrdered ==
  During("log", LAMBDA x, s :
    /\ Increasing(texts(oldestFirst(s.f.disk)))
    /\ \A n \in DOMAIN s.f.disk :
         LET c == s.f.disk[n]
         IN  \A i, j \in DOMAIN c :
               Neighbours(c, i, j) => /\ \E k \in i..j : c[k] = NL
                                      /\ c[j] > c[i] + 1 => \E k \in i..j : c[k] = DROP)

(***************************************************************************)
(* What is kept in memory is at most one drop message and the incomplete   *)
(* last line, however often writing fails.                                 *)
(***************************************************************************)
BufferBounded ==
  During("log", LAMBDA x, s :
    LET rest == IF IsPrefix(dropmsg, s.f.buf) THEN SubSeq(s.f.buf, Len(dropmsg) + 1, Len(s.f.buf))
                ELSE s.f.buf
    IN  \A i \in DOMAIN rest : rest[i] = byteAt(s.sent) /\ rest[i] # NL)
=============================================================================
