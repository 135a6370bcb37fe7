------------------------------- MODULE Scanner ------------------------------
(***************************************************************************)
(* The scanner of package asm: source text to tokens.  The scanner's       *)
(* current character is the one at its offset, which counts from 1; past   *)
(* the end it is eof.  Characters that the scanner does not tell apart are *)
(* one: "l" is a letter other than x, "7" a digit other than 0, "!" a      *)
(* character that starts no token.  The word jump counts as one letter,    *)
(* and jumpif, which is handled alike, is left out.                        *)
(***************************************************************************)
EXTENDS Integers, SequencesExt, Calls

CONSTANTS SourceTexts

eof == "eof"
Blank == {" ", "\n"}
Letter == {"x", "l", "jump"}
Digit == {"0", "7"}
Quote == {"'", "\""}
Single == {"{", "}", ",", "[", "]", ":"}

ch(src, o) == IF o > Len(src) THEN eof ELSE src[o]

\* The loops: the first offset from o on whose character is not in cs.
skip(src, o, cs) == Min({i \in o..(Len(src) + 1) : ch(src, i) \notin cs})
skipWhitespace(src, o) == skip(src, o, Blank)

\* What a scanning function returns: the offset it stops at, and whether it
\* reported an error.
Stop(o, err) == [at |-> o, err |-> err]

scanNumber(src, o) ==
  IF ch(src, o) = "0" THEN Stop(o + 1, ch(src, o + 1) \in Digit)
  ELSE Stop(skip(src, o + 1, Digit), FALSE)

scanIdentifier(src, o) == Stop(skip(src, o, Letter \cup Digit), FALSE)

\* The literal has the $, so it is never empty.
scanLabel(src, o) == scanIdentifier(src, o)

\* The loop of scanComment stops at a new line only, not at the end.
newlines(src, o) == {i \in o..Len(src) : src[i] = "\n"}
scanComment(src, o) == Stop(Min(newlines(src, o)), FALSE)

scanEscape(src, o, quote) ==
  IF ch(src, o) \in {"\\", quote} THEN Stop(o + 1, FALSE) ELSE Stop(o, TRUE)

RECURSIVE scanString(_, _, _)
scanString(src, o, delim) ==
  LET c == ch(src, o)
      esc == scanEscape(src, o + 1, delim)
      rest == scanString(src, esc.at, delim)
  IN  IF c \in {"\n", eof} THEN Stop(o, TRUE)
      ELSE IF c = delim THEN Stop(o + 1, FALSE)
      ELSE IF c = "\\" THEN Stop(rest.at, rest.err \/ esc.err)
      ELSE scanString(src, o + 1, delim)

\* The opening quote is the current character.
scanHex(src, o) ==
  LET ends == {i \in (o + 1)..Len(src) : src[i] = src[o]}
  IN  IF ends = {} THEN Stop(Len(src) + 1, TRUE) ELSE Stop(Min(ends) + 1, FALSE)

\* A token's kind, where it starts, the offset after its text, the offset
\* where the scanner goes on, and whether there was an error.
Token(kind, pos, stop) == [kind |-> kind, pos |-> pos, end |-> stop.at, next |-> stop.at, err |-> stop.err]

scanWord(src, pos) ==
  LET word == scanIdentifier(src, pos + 1)
  IN  IF SubSeq(src, pos, word.at - 1) = <<"jump">> /\ ch(src, word.at) = ":"
      THEN Token("jump", pos, Stop(word.at + 1, FALSE))
      ELSE Token("ident", pos, word)

scan(src, o) ==
  LET pos == skipWhitespace(src, o)
      c == ch(src, pos)
      n == pos + 1
  IN  IF c \in Digit \cup {"-"} THEN Token("number", pos, scanNumber(src, pos))
      ELSE IF c = eof THEN Token("eof", pos, Stop(pos, FALSE))
      ELSE IF c \in Single THEN Token(c, pos, Stop(n, FALSE))
      ELSE IF c \in Quote THEN Token("string", pos, scanString(src, n, c))
      ELSE IF c = "$" THEN Token("label", pos, scanLabel(src, n))
      ELSE IF c = "#" THEN Token("comment", pos, scanComment(src, n))
      ELSE IF c = "x" /\ ch(src, n) \in Quote THEN Token("hex", pos, scanHex(src, n))
      ELSE IF c \in Letter THEN scanWord(src, pos)
      ELSE Token("illegal", pos, Stop(n, FALSE))

-----------------------------------------------------------------------------
text(src, tok) == SubSeq(src, tok.pos, tok.end - 1)

RECURSIVE scanFrom(_, _)
scanFrom(src, o) ==
  LET tok == scan(src, o) IN IF tok.kind = "eof" THEN <<>> ELSE <<tok>> \o scanFrom(src, tok.next)

ScanBegin == Idle /\ \E s \in SourceTexts : Begin("scan", s, <<>>, <<"scan">>)

rdOffset == IF call.st = <<>> THEN 1 ELSE Last(call.st).next
endlessComment(src, o) == LET pos == skipWhitespace(src, o) IN ch(src, pos) = "#" /\ newlines(src, pos) = {}

ScanToken ==
  /\ call.fn = "scan" /\ call.todo # <<>> /\ ~endlessComment(call.args, rdOffset)
  /\ LET tok == scan(call.args, rdOffset)
     IN  call' = IF tok.kind = "eof" THEN [call EXCEPT !.todo = <<>>] ELSE [call EXCEPT !.st = Append(@, tok)]

\* The scanner reads eof again and again.
ScanForever ==
  /\ call.fn = "scan" /\ call.todo # <<>> /\ endlessComment(call.args, rdOffset)
  /\ UNCHANGED call

ScannerNext == ScanBegin \/ ScanToken \/ ScanForever

-----------------------------------------------------------------------------
(***************************************************************************)
(* The tokens are the text: they follow one another without overlap, with  *)
(* nothing but blanks between them, and none is empty, so that the scanner *)
(* always gets on, except in a comment that no new line ends: a text that  *)
(* is scanned to its end has none.  When there was no error, the same      *)
(* tokens written one per line are scanned as the same tokens, so no token *)
(* depends on what it was next to.                                         *)
(***************************************************************************)
blankBetween(src, i, j) == i <= j /\ \A k \in i..(j - 1) : src[k] \in Blank

TokensCover ==
  /\ During("scan", LAMBDA src, toks :
       \A k \in DOMAIN toks :
         /\ toks[k].end > toks[k].pos
         /\ blankBetween(src, IF k = 1 THEN 1 ELSE toks[k - 1].end, toks[k].pos))
  /\ After("scan", LAMBDA src, toks :
       /\ blankBetween(src, IF toks = <<>> THEN 1 ELSE Last(toks).end, Len(src) + 1)
       /\ \A k \in DOMAIN toks : toks[k].kind = "comment" => ch(src, toks[k].end) = "\n"
       /\ (\A k \in DOMAIN toks : ~toks[k].err) =>
            LET lines == FlattenSeq([k \in DOMAIN toks |-> Append(text(src, toks[k]), "\n")])
                again == scanFrom(lines, 1)
            IN  /\ Len(again) = Len(toks)
                /\ \A k \in DOMAIN toks :
                     again[k].kind = toks[k].kind /\ text(lines, again[k]) = text(src, toks[k]))

(***************************************************************************)
(* A string that was scanned without error ends at the first of its quotes *)
(* that is not escaped: one before which there is an even number of        *)
(* backslashes.                                                            *)
(***************************************************************************)
bare(s, i) ==
  LET slashes == {k \in 2..(i - 1) : \A j \in k..(i - 1) : s[j] = "\\"} IN Cardinality(slashes) % 2 = 0

StringsEnd ==
  During("scan", LAMBDA src, toks :
    \A k \in DOMAIN toks :
      LET s == text(src, toks[k])
      IN  toks[k].kind = "string" /\ ~toks[k].err =>
            \A i \in 2..Len(s) : (s[i] = s[1] /\ bare(s, i)) <=> i = Len(s))
=============================================================================
