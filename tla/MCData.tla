------------------------------- MODULE MCData -------------------------------
(***************************************************************************)
(* The instance of the trees, serializations, arithmetic, logging and      *)
(* programs that MCPackages checks.                                        *)
(***************************************************************************)
EXTENDS Patricia, Merkle, LogRotation, Programs

\* Keys of one, two and three bytes of two bits that share every length of
\* prefix, whole bytes or not, and two pairs with one a prefix of the other.
MCItems == {<<0, 0>>, <<0, 1>>, <<0, 2>>, <<1, 3>>, <<2, 0>>, <<2, 3>>, <<2>>, <<0>>, <<0, 1, 1>>}
MCSnapshots ==
  [contracts : {<<>>, <<<<0, 1>>>>, <<<<2, 3>>, <<0, 1>>, <<0, 2>>>>},
   nonces : {<<>>, <<<<0, 1>>, <<1, 3>>>>},
   header : {<<>>, <<1>>}, initial : {<<>>, <<1>>}, refs : {<<>>, <<1, 2>>}]

\* Blocks of bytes between two jumps around the lengths where the distance
\* to their labels takes a longer encoding.
MCItemLists ==
  LET zeros(n) == block([i \in 1..n |-> 0])
      elems == {zeros(1), zeros(11), zeros(12), labelItem("a"), labelItem("b")}
                 \cup {jumpItem(l, b) : l \in {"a", "b"}, b \in BOOLEAN}
  IN  UNION {[1..n -> elems] : n \in 1..4}
      \cup [1..5 -> elems \ {zeros(1), jumpItem("a", TRUE), jumpItem("b", FALSE)}]

\* Texts with macros, nested tuples, quoted programs and jumps.  Tuples and
\* integers are written as literals, the least one not followed by neg.
MCSources ==
  LET values == {<<<<"num", -1>>>>, <<<<"num", 17>>>>, <<<<"str", <<65>>>>>>, <<<<"hex", <<1, 1, 1>>>>>>,
                 <<<<"[">>, ident("dup"), <<"]">>>>}
      small == {<<ident(n)>> : n \in {"dup", "exec", "add"}}
      tuple(vs) == braces(vs)
      tuples == {tuple(<<>>), tuple(<<<<<<"num", -64>>>>>>)} \cup {tuple(<<v>>) : v \in values} \cup {tuple(<<v, w>>) : v, w \in values}
      nested == {tuple(<<t, v>>) : t \in tuples, v \in values} \cup {tuple(<<v, t>>) : t \in tuples, v \in values}
      idents == {<<ident(n)>> : n \in {"dup", "roll", "gt", "not", "neg", "exec", "contract", "swap", "sub", "nosuch"}}
      parts == values \cup idents \cup {tuple(<<>>), <<<<"num", 1>>>>}
      \* A quote is 39, a double one 34, a backslash 92.
      quotables == {<<<<"str", b>>>> : b \in {<<>>, <<34>>, <<39>>, <<92, 39>>, <<92, 34>>, <<92, 92>>, <<39, 65, 39>>}}
                   \cup {<<<<"hex", b>>>> : b \in {<<92>>, <<65, 92>>, <<39, 39>>, <<65, 126>>, <<65, 127>>, <<31>>}}
      jumps == {<<<<"label", "a">>>>, <<<<"jump", "a">>>>, <<<<"jumpif", "a">>>>}
  IN  {x \o y \o z : x, y, z \in parts} \cup {x \o t \o y : x, y \in small, t \in nested}
      \cup {x \o y \o z : x, y, z \in jumps \cup small} \cup {<<<<"{">>>> \o x \o y : x, y \in parts}
      \cup {x \o y \o z : x, y \in quotables, z \in small} \cup {tuple(<<x, y>>) : x, y \in quotables}

MCDataItems ==
  LET few == {IntItem(-64), IntItem(-1), IntItem(16), BytesItem(<<>>), BytesItem(<<1, 2, 3>>)}
      flat == UNION {[1..n -> few] : n \in 0..2}
      deep == [1..2 -> {TupleItem(<<>>), TupleItem(<<IntItem(5)>>), IntItem(-17)}]
  IN  {IntItem(n) : n \in int(Half64)}
      \cup {BytesItem([i \in 1..n |-> i]) : n \in {0, 1, 2, 3, 4, 20, 66}}
      \cup {TupleItem(t) : t \in flat \cup deep \cup {[i \in 1..17 |-> IntItem(i)]}}
MCSigned64 == (-9)..9 \cup (-64)..(-60) \cup 60..63 \cup {-33, -32, -31, -16, 15, 16, 31, 32, 33}
MCUnsigned64 == 0..9 \cup 60..67 \cup 124..127 \cup {15, 16, 31, 32, 33}
MCOperands == {-64, -63, -17, -1, 0, 1, 2, 15, 16, 62, 63}
MCStacks == UNION {[1..n -> {IntItem(7), BytesItem(<<1>>), TupleItem(<<IntItem(-64), BytesItem(<<>>)>>)}] : n \in 0..3}
MCStrings2 == {<<>>, <<0>>, <<93>>, <<127, 1>>, <<64, 127>>}

\* Signatures and hashes that depend on all of their arguments.
MCSignature(pub, msg) == <<pub[1], FoldLeft(LAMBDA h, b : (h * 5 + b + 1) % 64, 3, msg)>>
MCHashOf(f, s) == <<Len(f), Len(s)>>
MCChecks ==
  LET good == {MCSignature(<<k>>, <<3, 9>>) : k \in 1..2}
  IN  [quorum : -1..3, keys : UNION {[1..n -> {<<1>>, <<2>>}] : n \in 0..2}, anchor : {<<9>>}, prog : {<<3>>},
       sigs : SeqOf(good \cup {<<>>, <<1>>, MCSignature(<<1>>, <<9>>)}, 2) \cup [1..3 -> good]]

DataNext == PatriciaNext \/ MerkleNext \/ CheckedNext \/ LogNext \/ AssemblerNext \/ ProgramsNext

(***************************************************************************)
(* Packages patricia and merkle: a tree is the set of its items whatever   *)
(* was inserted and deleted, its root depends on that set alone and is     *)
(* restored with a snapshot; a merkle root binds its list and is that of   *)
(* the balanced tree.                                                      *)
(***************************************************************************)
TreesRight == TreeIsSet /\ RootIsCanonical /\ RestoreKeepsState /\ RootBinds /\ RootBalanced
=============================================================================
