------------------------------- MODULE Merkle -------------------------------
(***************************************************************************)
(* Package merkle: the root of a list of items.  Hashes are free: a hash   *)
(* is the tuple of the bytes hashed, so two are equal only if those are.   *)
(* A byte string is a sequence whose elements are bytes and whole hashes,  *)
(* since an item may itself hold hashes.  math.Log2 is exact where it is   *)
(* rounded down here, as it is for any length below 2^47.                  *)
(***************************************************************************)
EXTENDS Integers, SequencesExt, Calls

CONSTANTS Texts,       \* items that are plain text
          MaxItems,    \* bound: items in the lists compared
          MaxList      \* bound: items in the longest list

byteOf(n) == <<"byte", n>>
hashOf(s) == <<"hash", s>>

leafPrefix == <<byteOf(0)>>

interiorPrefix == <<byteOf(1)>>

log2(n) == CHOOSE e \in 0..n : 2^e <= n /\ n < 2^(e + 1)
isPowerOfTwo(n) == \E e \in 0..n : n = 2^e     \* n&(n-1) == 0

prevPowerOfTwo(n) == IF isPowerOfTwo(n) THEN n \div 2 ELSE 2^log2(n)

RECURSIVE Root(_)
Root(items) ==
  CASE Len(items) = 0 -> hashOf(<<>>)
    [] Len(items) = 1 -> hashOf(leafPrefix \o items[1])
    [] OTHER -> LET k == prevPowerOfTwo(Len(items))
                    left == Root(SubSeq(items, 1, k))
                    right == Root(SubSeq(items, k + 1, Len(items)))
                IN  hashOf(interiorPrefix \o <<left, right>>)

-----------------------------------------------------------------------------
\* Texts, and an item that reads like an interior node: two hashes.
MerkleItems == {<<byteOf(x)>> : x \in Texts}
  \cup {<<Root(<<<<byteOf(1)>>>>), Root(<<<<byteOf(x)>>>>)>> : x \in Texts}

MerkleNext ==
  \/ Idle /\ \E a, b \in SeqOf(MerkleItems, MaxItems) : Eval("roots", <<a, b>>, <<Root(a), Root(b)>>)
  \/ Idle /\ \E n \in 1..MaxList : LET a == [i \in 1..n |-> <<byteOf(i)>>] IN Eval("root", a, Root(a))

-----------------------------------------------------------------------------
\* The tree built from the leaves up: neighbours are joined, a last one
\* without a neighbour moves up as it is.
RECURSIVE joined(_)
joined(level) ==
  IF Len(level) = 1 THEN level[1]
  ELSE joined([i \in 1..((Len(level) + 1) \div 2) |->
                 IF 2 * i > Len(level) THEN level[2 * i - 1]
                 ELSE hashOf(interiorPrefix \o <<level[2 * i - 1], level[2 * i]>>)])

(***************************************************************************)
(* Two lists have the same root only if they are the same list: a root in  *)
(* a block header fixes the transactions, their order and their number,    *)
(* even when an item looks like the inside of a tree.                      *)
(***************************************************************************)
RootBinds == After("roots", LAMBDA x, r : (r[1] = r[2]) = (x[1] = x[2]))

(***************************************************************************)
(* Cutting a list at prevPowerOfTwo builds the same tree as joining        *)
(* neighbours from the leaves up, for every length up to the bound: powers *)
(* of two, the numbers next to them, and the odd ones in between.          *)
(***************************************************************************)
RootBalanced == After("root", LAMBDA a, r :
  r = joined([i \in DOMAIN a |-> hashOf(leafPrefix \o a[i])]))
=============================================================================
