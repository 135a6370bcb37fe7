------------------------------ MODULE Programs ------------------------------
(***************************************************************************)
(* Assembled programs on the machine that runs them: what the encoders,    *)
(* the assembler's macros and the signature check of the standard          *)
(* contracts compute.                                                      *)
(***************************************************************************)
EXTENDS DataMachine, Assembler

CONSTANTS DataItems,     \* items to encode and decode again
          Operands,      \* integers the macros are run on
          Stacks,        \* stacks of items that the laws are run on
          Strings2,      \* strings likewise
          Checks         \* instances of the multisig check

words(names) == [i \in DOMAIN names |-> ident(names[i])]
num(n) == <<<<"num", n>>>>

\* The source in package standard, with the comparison of the count t of
\* valid signatures to the quorum.
multisigSrc(compare) ==
  words(<<"swap", "untuple", "get", "dup">>) \o num(2) \o words(<<"peek">>) \o num(3)
  \o words(<<"add", "roll", "cat">>) \o num(0) \o num(3) \o words(<<"roll">>)
  \o <<<<"label", "sigstart">>>>
  \o words(<<"dup">>) \o num(0) \o words(<<"eq">>) \o <<<<"jumpif", "sigend">>>>
  \o num(2) \o words(<<"peek">>) \o num(5) \o words(<<"roll", "get">>) \o num(0) \o words(<<"checksig">>)
  \o num(2) \o words(<<"roll", "add", "swap">>) \o num(1) \o words(<<"sub">>) \o <<<<"jump", "sigstart">>>>
  \o <<<<"label", "sigend">>>>
  \o words(<<"drop">>) \o num(3) \o words(<<"roll", compare, "verify", "drop", "exec">>)

\* Fault: more signatures than the quorum will do.
multisigAtLeast == multisigSrc("ge")
multisigProgCheckSrc == multisigSrc("eq")

multisigProg == Assemble(multisigProgCheckSrc).prog

-----------------------------------------------------------------------------
RunEncoded == Idle /\ \E v \in DataItems, f \in {"encode", "build"} :
  Run("encoded", v, Machine(IF f = "encode" THEN Encode(v) ELSE build(v), <<>>, <<>>))

\* A macro on two integers, with one below them that it must not touch.
MacroNames == {"swap", "le", "ge", "lt", "sub", "bool"}
RunMacro == Idle /\ \E name \in MacroNames, a, b \in Operands :
  Run("macro", <<name, a, b>>,
      Machine(composite(name), <<BytesItem(<<>>), IntItem(a), IntItem(b)>>, <<>>))

(***************************************************************************)
(* Laws the instructions obey: a source, the stack it is run on, whether   *)
(* it succeeds and the stack it leaves.                                    *)
(***************************************************************************)
Law(src, stack, ok, result) ==
  [src |-> src, stack |-> stack, ok |-> ok, result |-> IF ok THEN result ELSE <<>>]

StackLaws(st, n, k) ==
  LET len == Len(st)
      both(a, b) == num(n) \o words(<<a>>) \o num(n) \o words(<<b>>)
  IN  {Law(both("roll", "bury"), st, 0 <= n /\ n < len, st),
       Law(both("bury", "roll"), st, 0 <= n /\ n < len, st),
       Law(both("reverse", "reverse"), st, 0 <= n /\ n <= len, st),
       Law(num(n) \o words(<<"tuple", "untuple", "drop">>), st, 0 <= n /\ n <= len, st),
       Law(num(n) \o words(<<"tuple">>) \o num(k) \o words(<<"field">>), st,
           0 <= k /\ k < n /\ n <= len, Append(SubSeq(st, 1, len - n), st[len - n + k + 1])),
       Law(words(<<"encode", "exec">>), st, len > 0, st),
       Law(words(<<"put", "depth", "get">>), st, len > 0, Front(st) \o <<IntItem(1), Last(st)>>)}

IntLaws(a, b) ==
  LET st == <<IntItem(a), IntItem(b)>>
      p(n) == num(n) \o words(<<"peek">>)
      r(n) == num(n) \o words(<<"roll">>)
  IN  {Law(p(1) \o p(1) \o words(<<"div">>) \o p(1) \o words(<<"mul">>) \o r(2) \o r(2)
           \o words(<<"mod", "add">>), st, b # 0 /\ ~(a = MinInt(Half64) /\ b = -1), <<IntItem(a)>>),
       Law(words(<<"not", "swap", "not", "or", "not">>), st, TRUE, <<Bool(a # 0 /\ b # 0)>>),
       Law(words(<<"not", "swap", "not", "and", "not">>), st, TRUE, <<Bool(a # 0 \/ b # 0)>>)}

StringLaws(x, y, n) ==
  LET bytes == <<BytesItem(x), BytesItem(y)>>
      p(k) == num(k) \o words(<<"peek">>)
      r(k) == num(k) \o words(<<"roll">>)
      negated == words(<<"bitnot", "swap", "bitnot">>)
  IN  {Law(p(1) \o num(0) \o p(2) \o words(<<"slice">>) \o r(2) \o r(2) \o p(1) \o words(<<"len", "slice", "cat">>),
           <<BytesItem(x), IntItem(n)>>, 0 <= n /\ n <= Len(x), <<BytesItem(x)>>),
       Law(words(<<"dup">>) \o r(2) \o words(<<"bitxor", "bitxor">>), bytes, Len(x) = Len(y), <<BytesItem(x)>>),
       Law(p(1) \o p(1) \o words(<<"bitand", "bitnot">>) \o r(2) \o r(2) \o negated \o words(<<"bitor", "eq">>),
           bytes, Len(x) = Len(y), <<Bool(TRUE)>>),
       Law(words(<<"eq">>), bytes, TRUE, <<Bool(x = y)>>)}

RunLaw == Idle /\ \E l \in UNION {StackLaws(st, n, k) : st \in Stacks, n \in -1..4, k \in {-1, 0, 2, 3}}
                     \cup UNION {IntLaws(a, b) : a, b \in Operands}
                     \cup UNION {StringLaws(x, y, n) : x, y \in Strings2, n \in -1..3} :
  Run("law", l, Machine(Assemble(l.src).prog, l.stack, <<>>))

\* A check is a record: the quorum, the keys, the anchor, the signed program,
\* which pushes small integers, and the signatures.
RunMultisig == Idle /\ \E c \in Checks :
  Run("multisig", c,
      Machine(multisigProg,
              <<IntItem(c.quorum), TupleItem([i \in DOMAIN c.keys |-> BytesItem(c.keys[i])]), BytesItem(c.anchor)>>,
              [i \in DOMAIN c.sigs |-> BytesItem(c.sigs[i])] \o <<BytesItem(c.prog)>>))

ProgramsNext ==
  \/ RunEncoded \/ RunMacro \/ RunLaw \/ RunMultisig
  \/ \E fn \in {"encoded", "macro", "law", "multisig"} : RunStep(fn)

-----------------------------------------------------------------------------
(***************************************************************************)
(* Encode serializes an item as a program that produces it when executed,  *)
(* and so do the builders, for integers at both ends of their range,       *)
(* strings around the lengths where the pushdata varint grows, and nested  *)
(* tuples.                                                                 *)
(***************************************************************************)
EncodeProduces ==
  After("encoded", LAMBDA v, m : m.status = "done" /\ m.stack = <<v>>)

(***************************************************************************)
(* A macro computes what its name says and touches nothing below its       *)
(* operands.  sub negates first and so fails on the least integer.         *)
(***************************************************************************)
Meaning(name, a, b) ==
  CASE name = "swap" -> <<IntItem(b), IntItem(a)>>
    [] name = "le" -> <<Bool(a <= b)>>
    [] name = "ge" -> <<Bool(a >= b)>>
    [] name = "lt" -> <<Bool(a < b)>>
    [] name = "sub" -> <<IntItem(a - b)>>
    [] name = "bool" -> <<IntItem(a), Bool(b # 0)>>

MacrosMean ==
  After("macro", LAMBDA x, m :
    LET fits == x[1] = "sub" => x[3] # MinInt(Half64) /\ x[2] - x[3] \in int(Half64)
    IN  IF fits THEN m.status = "done" /\ m.stack = <<BytesItem(<<>>)>> \o Meaning(x[1], x[2], x[3])
        ELSE m.status = "failed")

(***************************************************************************)
(* roll and bury, reverse, tuple and untuple, encode and exec, div and     *)
(* mod, slice and cat, and the logical and bitwise instructions undo or    *)
(* complement each other on any stack, and fail exactly where a count, an  *)
(* index or a quotient is out of range.                                    *)
(***************************************************************************)
InstructionLaws ==
  After("law", LAMBDA l, m : IF l.ok THEN m.status = "done" /\ m.stack = l.result ELSE m.status = "failed")

(***************************************************************************)
(* The check of the standard contracts passes exactly when every signature *)
(* is empty or is that of the key at its own place on the program followed *)
(* by the anchor, and exactly quorum are not empty.  It has then taken one *)
(* signature per key, has run the signed program and leaves nothing else   *)
(* on the stack.                                                           *)
(***************************************************************************)
MultisigExact ==
  After("multisig", LAMBDA c, m :
    LET extra == Len(c.sigs) - Len(c.keys)
        sig(i) == c.sigs[extra + i]
        signed == {i \in DOMAIN c.keys : sig(i) # <<>>}
    IN  IF /\ extra >= 0
           /\ \A i \in signed : sig(i) = Signature(c.keys[i], c.prog \o c.anchor)
           /\ Cardinality(signed) = c.quorum
        THEN /\ m.status = "done"
             /\ m.stack = [i \in DOMAIN c.prog |-> IntItem(c.prog[i])]
             /\ m.args = [i \in 1..extra |-> BytesItem(c.sigs[i])]
        ELSE m.status = "failed")

(***************************************************************************)
(* Assembled programs do on the machine what they were written for:        *)
(* encoded items come back, macros mean what they are named, the           *)
(* instructions obey their laws, and the multisignature check of the       *)
(* standard contracts is exact.                                            *)
(***************************************************************************)
ProgramsRun == EncodeProduces /\ MacrosMean /\ InstructionLaws /\ MultisigExact
=============================================================================
