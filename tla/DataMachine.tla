---------------------------- MODULE DataMachine -----------------------------
(***************************************************************************)
(* The TXVM instructions on plain data, run byte by byte: decoding, stack, *)
(* arithmetic, tuples, strings, jumps and exec.  TxVM models the           *)
(* instructions on values, contracts and the log, where the ones here are  *)
(* one DataInstruction.  A machine is a record: frames (the programs being *)
(* executed and where they are, the innermost last), the contract stack,   *)
(* args (the argument stack), the contract's own program, what is left of  *)
(* the runlimit, the extension flag, and whether it is running, done, has  *)
(* failed or has met an instruction of TxVM.                               *)
(***************************************************************************)
EXTENDS Bitwise, Bytecode

CONSTANTS HashOf(_, _),        \* the hash functions: name and bytes to bytes
          Signature(_, _),     \* the Ed25519 signature by a public key's owner of a message
          SignatureSize, PublicKeySize,
          Runlimit

Machine(prog, stack, args) ==
  [frames |-> <<[prog |-> prog, pc |-> 0]>>, stack |-> stack, args |-> args, program |-> prog,
   runlimit |-> Runlimit, extension |-> FALSE, status |-> "running"]

failed(m) == [m EXCEPT !.status = "failed"]

charge(m, n) == IF m.runlimit < n THEN failed(m) ELSE [m EXCEPT !.runlimit = @ - n]

\* chargeCreate and chargeCopy of plain data.
costOf(item) == IF kindOf(item) = "int" THEN 0 ELSE 1 + Len(valueOf(item))

\* The n-th item from the top, and whether the top ones are of these kinds.
item(m, n) == m.stack[Len(m.stack) - n]
arg(m, n) == valueOf(item(m, n))
Pops(m, kinds) ==
  /\ Len(m.stack) >= Len(kinds)
  /\ \A i \in DOMAIN kinds : kinds[i] \in {"data", kindOf(item(m, Len(kinds) - i))}

\* The machine with its n top items replaced, at some cost.
replaced(m, n, items, cost) ==
  charge([m EXCEPT !.stack = SubSeq(@, 1, Len(@) - n) \o items], cost)

\* An instruction that pops items of these kinds and pushes one.
pushes(m, kinds, guard, result) ==
  IF Pops(m, kinds) /\ guard THEN replaced(m, Len(kinds), <<result>>, 0) ELSE failed(m)
creates(m, kinds, guard, result) ==
  IF Pops(m, kinds) /\ guard THEN replaced(m, Len(kinds), <<result>>, costOf(result)) ELSE failed(m)

popBool(x) == kindOf(x) # "int" \/ valueOf(x) # 0
Bool(b) == IntItem(IF b THEN 1 ELSE 0)

-----------------------------------------------------------------------------
\* r is what package checked makes of the two topmost items.
binOp(m, r) == pushes(m, <<"int", "int">>, r.ok, IntItem(r.v))

opNeg(m) == pushes(m, <<"int">>, NegateInt64(arg(m, 0)).ok, IntItem(NegateInt64(arg(m, 0)).v))

opGT(m) == pushes(m, <<"int", "int">>, TRUE, Bool(arg(m, 1) > arg(m, 0)))
opNot(m) == pushes(m, <<"data">>, TRUE, Bool(~popBool(item(m, 0))))
opAnd(m) == pushes(m, <<"data", "data">>, TRUE, Bool(popBool(item(m, 1)) /\ popBool(item(m, 0))))
opOr(m) == pushes(m, <<"data", "data">>, TRUE, Bool(popBool(item(m, 1)) \/ popBool(item(m, 0))))

opInt(m) ==
  LET u == Uvarint(arg(m, 0))
  IN  pushes(m, <<"bytes">>, u.n > 0, IntItem(wrap(Half64, u.v)))

-----------------------------------------------------------------------------
\* roll takes out the n-th item below the count, bury puts the top one there.
rolled(s, n) == LET i == Len(s) - n IN Append(RemoveAt(s, i), s[i])

buried(s, n) == InsertAt(Front(s), Len(s) - n, Last(s))

moveItem(m, moved) ==
  LET n == arg(m, 0)
  IN  IF Pops(m, <<"int">>) /\ 0 <= n /\ n < Len(m.stack) - 1
      THEN charge([m EXCEPT !.stack = moved], n)
      ELSE failed(m)

opReverse(m) ==
  LET n == arg(m, 0)
      s == Front(m.stack)
  IN  IF Pops(m, <<"int">>) /\ 0 <= n /\ n <= Len(s)
      THEN replaced(m, n + 1, Reverse(SubSeq(s, Len(s) - n + 1, Len(s))), n)
      ELSE failed(m)

opGet(m) ==
  IF m.args = <<>> THEN failed(m) ELSE [m EXCEPT !.stack = Append(@, Last(m.args)), !.args = Front(@)]
opPut(m) ==
  IF m.stack = <<>> THEN failed(m) ELSE [m EXCEPT !.args = Append(@, Last(m.stack)), !.stack = Front(@)]
opDepth(m) == replaced(m, 0, <<IntItem(Len(m.args))>>, 0)

opPeek(m) ==
  LET n == arg(m, 0)
  IN  creates(m, <<"int">>, 0 <= n /\ n < Len(m.stack) - 1, item(m, n + 1))
opDup(m) ==
  IF Pops(m, <<"data">>) THEN replaced(m, 0, <<item(m, 0)>>, costOf(item(m, 0))) ELSE failed(m)
opDrop(m) == IF Pops(m, <<"data">>) THEN replaced(m, 1, <<>>, 0) ELSE failed(m)

-----------------------------------------------------------------------------
\* Tuples are never equal.
opEq(m) ==
  pushes(m, <<"data", "data">>, TRUE,
         Bool(kindOf(item(m, 0)) # "tuple" /\ item(m, 0) = item(m, 1)))
opLen(m) == pushes(m, <<"data">>, ~Pops(m, <<"int">>), IntItem(Len(arg(m, 0))))

opTuple(m) ==
  LET n == arg(m, 0)
      s == Front(m.stack)
      t == TupleItem(SubSeq(s, Len(s) - n + 1, Len(s)))
  IN  IF Pops(m, <<"int">>) /\ 0 <= n /\ n <= Len(s) THEN replaced(m, n + 1, <<t>>, costOf(t)) ELSE failed(m)

opUntuple(m) ==
  LET t == arg(m, 0)
  IN  IF Pops(m, <<"tuple">>) THEN replaced(m, 1, Append(t, IntItem(Len(t))), Len(t)) ELSE failed(m)

opField(m) ==
  creates(m, <<"tuple", "int">>, 0 <= arg(m, 0) /\ arg(m, 0) < Len(arg(m, 1)),
          arg(m, 1)[arg(m, 0) + 1])

opEncode(m) == creates(m, <<"data">>, TRUE, BytesItem(Encode(item(m, 0))))
opCat(m) == creates(m, <<"bytes", "bytes">>, TRUE, BytesItem(arg(m, 1) \o arg(m, 0)))

opSlice(m) ==
  LET start == arg(m, 1)
      end == arg(m, 0)
  IN  creates(m, <<"bytes", "int", "int">>, 0 <= start /\ start <= end /\ end <= Len(arg(m, 2)),
              BytesItem(SubSeq(arg(m, 2), start + 1, end)))

opBitNot(m) ==
  creates(m, <<"bytes">>, TRUE,
          BytesItem([i \in DOMAIN arg(m, 0) |-> 2 * VarBase - 1 - arg(m, 0)[i]]))
bitOp(m, bytes) ==
  creates(m, <<"bytes", "bytes">>, Len(arg(m, 0)) = Len(arg(m, 1)), BytesItem(bytes))

-----------------------------------------------------------------------------
opVMHash(m) ==
  creates(m, <<"bytes", "bytes">>, TRUE, BytesItem(HashOf(<<"vmhash", arg(m, 0)>>, arg(m, 1))))
opHash(m, name) == creates(m, <<"bytes">>, TRUE, BytesItem(HashOf(<<name>>, arg(m, 0))))

checkEd25519(msg, pubkey, sig) ==
  Len(sig) = SignatureSize /\ Len(pubkey) = PublicKeySize /\ sig = Signature(pubkey, msg)

\* Only an empty signature is false; a wrong one fails.
opCheckSig(m) ==
  LET sig == arg(m, 1)
      types == <<"bytes", "bytes", "bytes", "data">>
  IN  IF ~Pops(m, types) THEN failed(m)
      ELSE IF sig = <<>> THEN replaced(m, 4, <<Bool(FALSE)>>, 0)
      ELSE IF item(m, 0) = IntItem(0) /\ ~checkEd25519(arg(m, 3), arg(m, 2), sig) THEN failed(m)
      ELSE IF item(m, 0) # IntItem(0) /\ ~m.extension THEN failed(m)
      ELSE replaced(m, 4, <<Bool(TRUE)>>, 2048)

-----------------------------------------------------------------------------
opVerify(m) == IF Pops(m, <<"data">>) /\ popBool(item(m, 0)) THEN replaced(m, 1, <<>>, 0) ELSE failed(m)

opJumpIf(m) ==
  LET r == Last(m.frames)
      dest == AddInt64(r.pc, arg(m, 0))
      after == replaced(m, 2, <<>>, 0)
  IN  IF ~Pops(m, <<"data", "int">>) THEN failed(m)
      ELSE IF ~popBool(item(m, 1)) THEN after
      ELSE IF dest.ok /\ 0 <= dest.v /\ dest.v <= Len(r.prog)
      THEN [after EXCEPT !.frames[Len(m.frames)].pc = dest.v]
      ELSE failed(m)

opExec(m) ==
  IF Pops(m, <<"bytes">>)
  THEN [replaced(m, 1, <<>>, 0) EXCEPT !.frames = Append(@, [prog |-> arg(m, 0), pc |-> 0])]
  ELSE failed(m)

opContractProgram(m) == replaced(m, 0, <<BytesItem(m.program)>>, costOf(BytesItem(m.program)))
opExt(m) == IF m.extension /\ Pops(m, <<"data">>) THEN replaced(m, 1, <<>>, 0) ELSE failed(m)
opPrv(m) == failed(m)

do(name, m) ==
  CASE name = "int" -> opInt(m)         [] name = "neg" -> opNeg(m)
    [] name = "add" -> binOp(m, AddInt64(arg(m, 1), arg(m, 0)))
    [] name = "mul" -> binOp(m, MulInt64(arg(m, 1), arg(m, 0)))
    [] name = "div" -> binOp(m, DivInt64(arg(m, 1), arg(m, 0)))
    [] name = "mod" -> binOp(m, ModInt64(arg(m, 1), arg(m, 0)))
    [] name = "gt" -> opGT(m)           [] name = "not" -> opNot(m)
    [] name = "and" -> opAnd(m)         [] name = "or" -> opOr(m)
    [] name = "roll" -> moveItem(m, rolled(Front(m.stack), arg(m, 0)))
    [] name = "bury" -> moveItem(m, buried(Front(m.stack), arg(m, 0)))
    [] name = "reverse" -> opReverse(m) [] name = "get" -> opGet(m)
    [] name = "put" -> opPut(m)         [] name = "depth" -> opDepth(m)
    [] name = "vmhash" -> opVMHash(m)   [] name \in {"sha256", "sha3"} -> opHash(m, name)
    [] name = "checksig" -> opCheckSig(m) [] name = "verify" -> opVerify(m)
    [] name = "jumpif" -> opJumpIf(m)   [] name = "exec" -> opExec(m)
    [] name = "contractprogram" -> opContractProgram(m)
    [] name = "prv" -> opPrv(m)         [] name = "ext" -> opExt(m)
    [] name = "eq" -> opEq(m)           [] name = "dup" -> opDup(m)
    [] name = "drop" -> opDrop(m)       [] name = "peek" -> opPeek(m)
    [] name = "tuple" -> opTuple(m)     [] name = "untuple" -> opUntuple(m)
    [] name = "len" -> opLen(m)         [] name = "field" -> opField(m)
    [] name = "encode" -> opEncode(m)   [] name = "cat" -> opCat(m)
    [] name = "slice" -> opSlice(m)     [] name = "bitnot" -> opBitNot(m)
    [] name = "bitand" -> bitOp(m, [i \in DOMAIN arg(m, 0) |-> arg(m, 1)[i] & arg(m, 0)[i]])
    [] name = "bitor" -> bitOp(m, [i \in DOMAIN arg(m, 0) |-> arg(m, 1)[i] | arg(m, 0)[i]])
    [] name = "bitxor" -> bitOp(m, [i \in DOMAIN arg(m, 0) |-> arg(m, 1)[i] ^^ arg(m, 0)[i]])
    [] OTHER -> [m EXCEPT !.status = "elsewhere"]

\* Frames that have reached their end return.
RECURSIVE returned(_)
returned(m) ==
  IF m.status # "running" THEN m
  ELSE IF m.frames = <<>> THEN [m EXCEPT !.status = "done"]
  ELSE IF Last(m.frames).pc < Len(Last(m.frames).prog) THEN m
  ELSE returned([m EXCEPT !.frames = Front(@)])

step(m) ==
  LET r == Last(m.frames)
      d == DecodeInst(SubSeq(r.prog, r.pc + 1, Len(r.prog)))
      n == charge([m EXCEPT !.frames[Len(m.frames)].pc = r.pc + d.n], 1)
      pushed == BytesItem(d.data)
  IN  IF ~d.ok THEN failed(m)
      ELSE IF n.status = "failed" THEN n
      ELSE returned(IF IsSmallIntOp(d.opcode) THEN replaced(n, 0, <<IntItem(d.opcode)>>, 0)
                    ELSE IF IsPushdataOp(d.opcode) THEN replaced(n, 0, <<pushed>>, costOf(pushed))
                    ELSE do(nameOf(d.opcode), n))

(***************************************************************************)
(* Running a program is a call whose steps are its instructions.  why says *)
(* what the program is, for the properties.                                *)
(***************************************************************************)
Running == <<"step">>
Run(fn, why, m) == Begin(fn, why, returned(m), IF returned(m).status = "running" THEN Running ELSE <<>>)

RunStep(fn) ==
  /\ call.fn = fn
  /\ call.todo = Running
  /\ LET m == step(call.st)
     IN  call' = [call EXCEPT !.st = m, !.todo = IF m.status = "running" THEN Running ELSE <<>>]
=============================================================================
