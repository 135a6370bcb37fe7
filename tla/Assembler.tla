------------------------------ MODULE Assembler -----------------------------
(***************************************************************************)
(* Package asm.  The text is a sequence of tokens, as the scanner returns  *)
(* them: <<"ident", name>>, <<"num", n>>, <<"str", bytes>>, <<"hex",       *)
(* bytes>>, <<"label", l>>, <<"jump", l>>, <<"jumpif", l>> and the         *)
(* brackets <<"[">>, <<"]">>, <<"{">>, <<"}">>, <<",">>.  The bytes of a   *)
(* string are the characters between its quotes: the assembler does not    *)
(* undo escapes.  It makes of the tokens items (blocks of bytes, jumps and *)
(* labels) and resolves the jumps until no one changes.                    *)
(***************************************************************************)
EXTENDS Bytecode, Scanner

CONSTANTS ItemLists,    \* lists of items to resolve
          Sources       \* texts, as sequences of tokens, to assemble and disassemble

\* splitzero, which is of split, is left out.
Macros ==
  <<<<"bool", <<<<"ident", "not">>, <<"ident", "not">>>>>>,
    <<"swap", <<<<"num", 1>>, <<"ident", "roll">>>>>>,
    <<"jump", <<<<"num", 1>>, <<"ident", "swap">>, <<"ident", "jumpif">>>>>>,
    <<"le", <<<<"ident", "gt">>, <<"ident", "not">>>>>>,
    <<"ge", <<<<"ident", "swap">>, <<"ident", "le">>>>>>,
    <<"lt", <<<<"ident", "swap">>, <<"ident", "gt">>>>>>,
    <<"sub", <<<<"ident", "neg">>, <<"ident", "add">>>>>>>>

ident(name) == <<"ident", name>>

\* init assembles each macro from those before it.
RECURSIVE expandMacro(_, _)
expandMacro(name, k) ==
  LET is == {i \in 1..k : Macros[i][1] = name}
      part(t, i) == IF t[1] = "num" THEN writePushint64(t[2]) ELSE expandMacro(t[2], i - 1)
  IN  IF is = {} THEN <<code[name]>>
      ELSE LET i == Max(is) IN FlattenSeq([j \in DOMAIN Macros[i][2] |-> part(Macros[i][2][j], i)])

isComposite(name) == \E i \in DOMAIN Macros : Macros[i][1] = name
composite(name) == expandMacro(name, Len(Macros))

-----------------------------------------------------------------------------
block(bytes) == [is |-> "bytes", bytes |-> bytes]
labelItem(l) == [is |-> "label", label |-> l]

jumpItem(l, isJumpIf) == [is |-> "jump", label |-> l, isJumpIf |-> isJumpIf, opcodes |-> <<>>]

itemBytes(it) == CASE it.is = "bytes" -> it.bytes [] it.is = "jump" -> it.opcodes [] it.is = "label" -> <<>>
size(items, a, b) == FoldLeft(LAMBDA n, it : n + Len(itemBytes(it)), 0, SubSeq(items, a, b))

labelIdx(items, l) == Max({i \in DOMAIN items : items[i].is = "label" /\ items[i].label = l} \cup {0})

\* The length of the pushdata that a backward jump of rel also jumps over.
RECURSIVE reladj(_, _)
reladj(rel, adj) == LET n == Len(writePushint64(rel - adj)) IN IF n = adj THEN adj ELSE reladj(rel, n)

\* Fault: a backward jump does not count the instructions that make it.
jumpOpcodesUncounted(items, i) ==
  LET l == labelIdx(items, items[i].label)
      always == IF items[i].isJumpIf THEN <<>> ELSE writePushint64(1)
      rel == IF l < i THEN -size(items, l + 1, i - 1) - 1 - Len(always) ELSE size(items, i + 1, l - 1)
  IN  always \o writePushint64(rel) \o <<code["jumpif"]>>

jumpOpcodes(items, i) ==
  LET l == labelIdx(items, items[i].label)
      always == IF items[i].isJumpIf THEN <<>> ELSE writePushint64(1)
      back == -size(items, l + 1, i - 1) - 1 - Len(always)
      rel == IF l < i THEN back - reladj(back, 0) ELSE size(items, i + 1, l - 1)
  IN  always \o writePushint64(rel) \o <<code["jumpif"]>>

refine(items, i) ==
  IF items[i].is = "jump" THEN [items EXCEPT ![i].opcodes = jumpOpcodes(items, i)] ELSE items

pass(items) == FoldLeft(refine, items, [i \in DOMAIN items |-> i])

unknownLabel(items) == \E i \in DOMAIN items : items[i].is = "jump" /\ labelIdx(items, items[i].label) = 0

RECURSIVE resolved(_)
resolved(items) == LET next == pass(items) IN IF next = items THEN items ELSE resolved(next)

assembled(items) == FlattenSeq([i \in DOMAIN items |-> itemBytes(items[i])])

NoProgram == [ok |-> FALSE, prog |-> <<>>]
resolve(items) ==
  IF unknownLabel(items) THEN NoProgram ELSE [ok |-> TRUE, prog |-> assembled(resolved(items))]

-----------------------------------------------------------------------------
\* The parser.  p is what has been read: the items, the current block, the
\* tokens that are left and whether there was no error.
Parser(toks) == [items |-> <<>>, buf |-> <<>>, toks |-> toks, ok |-> TRUE]

flush(p) == IF p.buf = <<>> THEN p ELSE [p EXCEPT !.items = Append(@, block(p.buf)), !.buf = <<>>]
emit(p, bytes) == [p EXCEPT !.buf = @ \o bytes]
tokOf(p) == IF p.toks = <<>> THEN <<"EOF">> ELSE Head(p.toks)
next(p) == [p EXCEPT !.toks = IF @ = <<>> THEN <<>> ELSE Tail(@)]
err(p) == [p EXCEPT !.ok = FALSE]

RECURSIVE assembleItems(_, _), assembleValue(_), tupleRest(_, _)
assembleItems(p, stop) ==
  LET t == tokOf(p)
      q == next(p)
      item(it) == [flush(q) EXCEPT !.items = Append(@, it)]
  IN  IF ~p.ok THEN p
      ELSE IF t[1] = stop THEN flush(q)
      ELSE CASE t[1] = "label" -> assembleItems(item(labelItem(t[2])), stop)
             [] t[1] \in {"jump", "jumpif"} -> assembleItems(item(jumpItem(t[2], t[1] = "jumpif")), stop)
             [] t[1] = "ident" -> IF isComposite(t[2]) THEN assembleItems(emit(q, composite(t[2])), stop)
                                  ELSE IF t[2] \in DOMAIN code THEN assembleItems(emit(q, <<code[t[2]]>>), stop)
                                  ELSE err(q)
             [] OTHER -> assembleItems(assembleValue(p), stop)

assembleValue(p) ==
  LET t == tokOf(p)
      q == next(p)
  IN  CASE t[1] \in {"str", "hex"} -> emit(q, writePushdata(t[2]))
        [] t[1] = "num" -> emit(q, writePushint64(t[2]))
        [] t[1] = "{" -> tupleRest(q, 0)
        [] t[1] = "[" -> LET inner == assembleItems(Parser(q.toks), "]")
                             r == resolve(inner.items)
                         IN  IF inner.ok /\ r.ok THEN emit([q EXCEPT !.toks = inner.toks], writePushdata(r.prog))
                             ELSE err(q)
        [] OTHER -> err(q)

tupleRest(p, count) ==
  IF ~p.ok THEN p
  ELSE IF tokOf(p)[1] = "}" THEN emit(next(p), writePushint64(count) \o <<code["tuple"]>>)
  ELSE IF count = 0 THEN tupleRest(assembleValue(p), 1)
  ELSE IF tokOf(p)[1] # "," THEN err(p)
  ELSE tupleRest(assembleValue(next(p)), count + 1)

Assemble(toks) ==
  LET p == assembleItems(Parser(toks), "EOF") IN IF p.ok THEN resolve(p.items) ELSE NoProgram

-----------------------------------------------------------------------------
\* Disassemble.  A piece of text is a sequence of tokens.

\* Between single quotes the bytes are printed as they are.  A literal that
\* the scanner does not read back as the one string is <<"torn", bytes>>.
char(x) == CASE x = 39 -> "'" [] x = 34 -> "\"" [] x = 92 -> "\\" [] OTHER -> "l"
inQuotes(b) == <<"'">> \o [i \in DOMAIN b |-> char(b[i])] \o <<"'">>
BytesString(b) ==
  <<IF \E x \in ToSet(b) : x < 32 \/ x >= 127 THEN <<"hex", b>>
    ELSE IF scanString(inQuotes(b), 2, "'") = Stop(Len(b) + 3, FALSE) THEN <<"str", b>>
    ELSE <<"torn", b>>>>

isMacroAt(pieces, k, expansion) ==
  /\ k + Len(expansion) - 1 <= Len(pieces)
  /\ \A j \in DOMAIN expansion : pieces[k + j - 1] = <<expansion[j]>>

\* The code tries the macros in the order of a Go map.  It does so after
\* each piece, and one macro at most ends with the last two or three.
RECURSIVE abbreviate(_)
abbreviate(pieces) ==
  LET found == {<<i, k>> \in (DOMAIN Macros) \X (DOMAIN pieces) : isMacroAt(pieces, k, Macros[i][2])}
      f == CHOOSE x \in found : TRUE
      n == Len(Macros[f[1]][2])
  IN  IF found = {} THEN pieces
      ELSE abbreviate(SubSeq(pieces, 1, f[2] - 1) \o <<<<ident(Macros[f[1]][1])>>>>
                        \o SubSeq(pieces, f[2] + n, Len(pieces)))

\* The text of a tuple of pieces.
RECURSIVE listed(_)
listed(ps) == IF Len(ps) <= 1 THEN FlattenSeq(ps) ELSE Head(ps) \o <<<<",">>>> \o listed(Tail(ps))
braces(ps) == <<<<"{">>>> \o listed(ps) \o <<<<"}">>>>

\* pushdatas counts the pieces that are literals; latest has the last one if
\* it is a number.
literal(d, piece, latest) ==
  [d EXCEPT !.pieces = Append(@, piece), !.pushdatas = @ + 1, !.latest = latest]

disTuple(d) ==
  LET n == d.latest[1]
      len == Len(d.pieces)
  IN  IF d.latest # <<>> /\ n < d.pushdatas
      THEN [d EXCEPT !.pieces = Append(SubSeq(@, 1, len - (n + 1)), braces(SubSeq(@, len - n, len - 1))),
                     !.pushdatas = @ - n, !.latest = <<>>]
      ELSE [d EXCEPT !.pieces = Append(@, <<ident("tuple")>>), !.pushdatas = 1, !.latest = <<>>]

opAt(prog, k, name) == k < Len(prog) /\ prog[k + 1] = code[name]
isQuoted(prog, k) == \E name \in {"contract", "exec", "wrap", "yield", "output"} : opAt(prog, k, name)

\* The number n, with the neg that may follow at k.
withNeg(prog, k, n) == IF opAt(prog, k, "neg") THEN wrap(Half64, -n) ELSE n
disNumber(prog, d, k, v) ==
  [literal(d, <<<<"num", v>>>>, <<v>>) EXCEPT !.pc = IF opAt(prog, k, "neg") THEN k + 1 ELSE k]

\* Pushed data before pc: an integer, a program (inner is its text) or bytes.
disPushdata(prog, d, pc, data, u, inner) ==
  IF data # <<>> /\ opAt(prog, pc, "int") /\ u.n = Len(data)
  THEN disNumber(prog, d, pc + 1, withNeg(prog, pc + 1, wrap(Half64, u.v)))
  ELSE IF isQuoted(prog, pc) /\ inner.ok
  THEN [literal(d, <<<<"[">>>> \o FlattenSeq(inner.pieces) \o <<<<"]">>>>, d.latest) EXCEPT !.pc = pc]
  ELSE [literal(d, BytesString(data), IF isQuoted(prog, pc) THEN d.latest ELSE <<>>) EXCEPT !.pc = pc]

disInst(prog, d, pc, inst, inner) ==
  CASE IsSmallIntOp(inst.opcode) -> disNumber(prog, d, pc, withNeg(prog, pc, inst.opcode))
    [] IsPushdataOp(inst.opcode) -> disPushdata(prog, d, pc, inst.data, Uvarint(inst.data), inner)
    [] nameOf(inst.opcode) = "tuple" -> [disTuple(d) EXCEPT !.pc = pc]
    [] OTHER -> [d EXCEPT !.pieces = Append(@, <<ident(nameOf(inst.opcode))>>), !.pushdatas = 0,
                          !.latest = <<>>, !.pc = pc]

abbreviated(d) == [d EXCEPT !.pieces = abbreviate(@)]

NoText == [pc |-> 0, pieces |-> <<>>, pushdatas |-> 0, latest |-> <<>>, ok |-> TRUE]

RECURSIVE disassemble(_, _)
disassemble(prog, d) ==
  LET inst == DecodeInst(SubSeq(prog, d.pc + 1, Len(prog)))
  IN  IF d.pc >= Len(prog) THEN d
      ELSE IF ~inst.ok THEN [d EXCEPT !.ok = FALSE]
      ELSE disassemble(prog, abbreviated(disInst(prog, d, d.pc + inst.n, inst, disassemble(inst.data, NoText))))

disText(d) == [ok |-> d.ok, text |-> FlattenSeq(d.pieces)]
Disassemble(prog) == disText(disassemble(prog, NoText))

-----------------------------------------------------------------------------
\* resolve, one pass over the jumps at a time.
ResolveBegin == Idle /\ \E items \in ItemLists :
  /\ ~unknownLabel(items)
  /\ Begin("resolve", items, [items |-> items, before |-> items], <<"pass">>)

ResolvePass ==
  /\ call.fn = "resolve"
  /\ call.todo # <<>>
  /\ LET after == pass(call.st.items)
     IN  call' = [call EXCEPT !.st = [items |-> after, before |-> call.st.items],
                              !.todo = IF after = call.st.items THEN <<>> ELSE @]

\* A text is assembled, disassembled and, if no literal of it is torn,
\* assembled again.
torn(toks) == {t \in ToSet(toks) : t[1] = "torn"}

RoundTrip ==
  \/ Idle /\ \E toks \in Sources : Eval("assemble", toks, Assemble(toks))
  \/ call.fn = "assemble" /\ call.st.ok /\ Then("disassemble", call.st, Disassemble(call.st.prog), <<>>)
  \/ call.fn = "disassemble" /\ torn(call.st.text) = {} /\ Then("reassemble", call.args, Assemble(call.st.text), <<>>)

AssemblerNext == ResolveBegin \/ ResolvePass \/ RoundTrip

(***************************************************************************)
(* When no jump needs refinement, each one pushes the exact distance from  *)
(* the byte after it to its label, however many other jumps lie between    *)
(* and however long the distance makes their encodings and its own.        *)
(***************************************************************************)
JumpsLand ==
  After("resolve", LAMBDA list, s :
    \A i \in DOMAIN list : list[i].is = "jump" =>
      LET distance == size(s.items, 1, labelIdx(list, list[i].label)) - size(s.items, 1, i)
      IN  itemBytes(s.items[i]) = (IF list[i].isJumpIf THEN <<>> ELSE <<1>>)
                                  \o writePushint64(distance) \o <<code["jumpif"]>>)

(***************************************************************************)
(* A pass never shortens a jump, which is why the loop of resolve ends.    *)
(***************************************************************************)
JumpsOnlyGrow ==
  During("resolve", LAMBDA list, s :
    \A i \in DOMAIN list : Len(itemBytes(s.before[i])) <= Len(itemBytes(s.items[i])))

(***************************************************************************)
(* Assembling the text that Disassemble gives for an assembled program     *)
(* gives the same program, if its tuples and integers were literals and no *)
(* byte string of it is torn by the quotes it is printed in.  The package  *)
(* comment says that strings have \ escaping, but Bytes.String escapes     *)
(* nothing and the assembler keeps the backslashes: a string is torn only  *)
(* if it has a quote or a backslash, and always if a quote in it has no    *)
(* backslash of its own.                                                   *)
(***************************************************************************)
DisassemblyAssembles ==
  /\ After("disassemble", LAMBDA first, d :
       /\ d.ok
       /\ \A t \in torn(d.text) : {39, 92} \cap ToSet(t[2]) # {}
       /\ \A t \in ToSet(d.text) : t[1] = "str" =>
            ~\E i \in DOMAIN t[2] : t[2][i] = 39 /\ bare(inQuotes(t[2]), i + 1))
  /\ After("reassemble", LAMBDA first, again : again = first)
=============================================================================
