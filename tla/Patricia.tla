------------------------------ MODULE Patricia ------------------------------
(***************************************************************************)
(* The Merkle Patricia tree of package patricia, the form in which a       *)
(* snapshot keeps its contracts and nonces, and the serialization of a     *)
(* snapshot, which stores a tree as the list of its items.  A byte has     *)
(* ByteBits bits (8 in the code), the highest first.  Hashes are free: the *)
(* hash of a leaf or a branch is the tuple of what is hashed; <<>> is a    *)
(* hash not yet computed.                                                  *)
(***************************************************************************)
EXTENDS Integers, SequencesExt, Calls

CONSTANTS ByteBits,
          Items,       \* the byte strings inserted, deleted and looked up
          Snapshots    \* snapshots to save and restore, their trees as lists of items

Last7 == ByteBits - 1  \* the keybit of a key that is whole bytes

mask(b, bits) == (b \div 2^(Last7 - bits)) * 2^(Last7 - bits)
bitAt(b, bit) == (b \div 2^(Last7 - bit)) % 2

Nil == [isNil |-> TRUE]
Panic == [isNil |-> FALSE]

leafHash(item) == <<"leaf", item>>
leaf(item) == [key |-> item, keybit |-> Last7, hash |-> leafHash(item), isLeaf |-> TRUE, kids |-> <<>>]

commonPrefix(a, b) ==
  LET short == IF Len(a) < Len(b) THEN Len(a) ELSE Len(b)
      same == {i \in 0..short : \A j \in 1..i : a[j] = b[j]}
      n == CHOOSE i \in same : \A j \in same : j <= i
      bits == {j \in 0..Last7 : mask(a[n + 1], j) = mask(b[n + 1], j)}
  IN  IF n = short \/ bits = {} THEN [common |-> n, bit |-> Last7]
      ELSE [common |-> n + 1, bit |-> CHOOSE j \in bits : \A k \in bits : k <= j]

hasPrefix(s, prefix, bit) ==
  LET n == Len(prefix)
  IN  \/ n = 0
      \/ /\ n <= Len(s)
         /\ SubSeq(s, 1, n - 1) = SubSeq(prefix, 1, n - 1)
         /\ mask(s[n], bit) = mask(prefix[n], bit)

childIdx(key, len, bit) ==
  IF bit = Last7 THEN bitAt(key[len + 1], 0) ELSE bitAt(key[len], bit + 1)

isKey(n, key) == n.key = key /\ n.keybit = Last7

RECURSIVE lookup(_, _)
lookup(n, key) ==
  IF isKey(n, key) THEN IF n.isLeaf THEN n ELSE Nil
  ELSE IF ~hasPrefix(key, n.key, n.keybit) THEN Nil
  ELSE IF n.isLeaf THEN Panic       \* n.children[bit] is nil
  ELSE lookup(n.kids[childIdx(key, Len(n.key), n.keybit) + 1], key)

contains(t, item) == IF t = Nil THEN Nil ELSE lookup(t, item)

\* The node that replaces n and whether there was no error.
RECURSIVE insert(_, _)
insert(n, key) ==
  IF isKey(n, key) THEN [n |-> n, ok |-> n.isLeaf]
  ELSE IF hasPrefix(key, n.key, n.keybit)
  THEN IF n.isLeaf THEN [n |-> n, ok |-> FALSE]
       ELSE LET bit == childIdx(key, Len(n.key), n.keybit)
                child == insert(n.kids[bit + 1], key)
            IN  IF ~child.ok THEN [n |-> n, ok |-> FALSE]
                ELSE [n |-> [n EXCEPT !.kids[bit + 1] = child.n, !.hash = <<>>], ok |-> TRUE]
  ELSE IF hasPrefix(n.key, key, Last7) THEN [n |-> n, ok |-> FALSE]
  ELSE LET c == commonPrefix(n.key, key)
           bit == childIdx(key, c.common, c.bit)
       IN  [n |-> [key |-> SubSeq(key, 1, c.common), keybit |-> c.bit, hash |-> <<>>, isLeaf |-> FALSE,
                   kids |-> IF bit = 0 THEN <<leaf(key), n>> ELSE <<n, leaf(key)>>],
            ok |-> TRUE]

Insert(t, item) == IF t = Nil THEN [n |-> leaf(item), ok |-> TRUE] ELSE insert(t, item)

\* Fault: delete keeps the hash of a branch whose child changed.
RECURSIVE deleteKeepingHash(_, _)
deleteKeepingHash(n, key) ==
  IF isKey(n, key) THEN IF n.isLeaf THEN Nil ELSE n
  ELSE IF ~hasPrefix(key, n.key, n.keybit) THEN n
  ELSE IF n.isLeaf THEN Panic
  ELSE LET bit == childIdx(key, Len(n.key), n.keybit)
           child == deleteKeepingHash(n.kids[bit + 1], key)
       IN  IF child = Panic THEN Panic
           ELSE IF child = Nil THEN n.kids[2 - bit]
           ELSE IF child = n.kids[bit + 1] THEN n
           ELSE [n EXCEPT !.key = SubSeq(child.key, 1, Len(n.key)), !.kids[bit + 1] = child]

RECURSIVE delete(_, _)
delete(n, key) ==
  IF isKey(n, key) THEN IF n.isLeaf THEN Nil ELSE n
  ELSE IF ~hasPrefix(key, n.key, n.keybit) THEN n
  ELSE IF n.isLeaf THEN Panic
  ELSE LET bit == childIdx(key, Len(n.key), n.keybit)
           child == delete(n.kids[bit + 1], key)
       IN  IF child = Panic THEN Panic
           ELSE IF child = Nil THEN n.kids[2 - bit]
           ELSE IF child = n.kids[bit + 1] THEN n
           ELSE [n EXCEPT !.key = SubSeq(child.key, 1, Len(n.key)), !.kids[bit + 1] = child,
                          !.hash = <<>>]

Delete(t, item) == IF t = Nil THEN Nil ELSE delete(t, item)

\* The node with the hashes it lacks, below it too.
RECURSIVE calcHash(_)
calcHash(n) ==
  IF n.hash # <<>> THEN n
  ELSE LET l == calcHash(n.kids[1])
           r == calcHash(n.kids[2])
       IN  [n EXCEPT !.kids = <<l, r>>, !.hash = <<"branch", l.hash, r.hash>>]

rootHash(t) == IF t = Nil THEN <<"zero">> ELSE t.hash
hashed(t) == IF t = Nil THEN Nil ELSE calcHash(t)

RECURSIVE walkNode(_)
walkNode(n) == IF n.isLeaf THEN <<n.key>> ELSE walkNode(n.kids[1]) \o walkNode(n.kids[2])

Walk(t) == IF t = Nil THEN <<>> ELSE walkNode(t)

-----------------------------------------------------------------------------
\* Snapshot.Bytes keeps the items of a tree, FromBytes inserts them again.
treeToBytes(t) == Walk(t)
treeFromBytes(keys) ==
  FoldLeft(LAMBDA r, k : IF r.ok THEN Insert(r.n, k) ELSE r, [n |-> Nil, ok |-> TRUE], keys)

\* A snapshot [contracts, nonces, header, initial, refs]; a header is a
\* tuple, <<>> when it is nil, and a block ID a tuple, <<>> when it is zero.
\* Bytes sets every field of the message but the last.
Bytes(s) ==
  [ContractNodes |-> treeToBytes(s.contracts), NonceNodes |-> treeToBytes(s.nonces),
   Header |-> s.header, InitialBlockId |-> s.initial, RefIds |-> <<>>]

\* Into a new snapshot.
SnapshotFromBytes(rs) ==
  LET c == treeFromBytes(rs.ContractNodes)
      n == treeFromBytes(rs.NonceNodes)
  IN  [ok |-> c.ok /\ n.ok,
       s |-> [contracts |-> c.n, nonces |-> n.n, header |-> rs.Header,
              initial |-> rs.InitialBlockId, refs |-> rs.RefIds]]

-----------------------------------------------------------------------------
(***************************************************************************)
(* The life of a tree.  set is the set of the items in it, result says if  *)
(* the last operation did what it should, and on is the item that it       *)
(* panicked on.                                                            *)
(***************************************************************************)
NewTree == Eval("tree", <<>>, [t |-> Nil, set |-> {}, result |-> "none", on |-> <<>>])

put(t, s, r) == call' = [call EXCEPT !.st = [t |-> t, set |-> s, result |-> r, on |-> <<>>]]
panicOn(item) == call' = [call EXCEPT !.st.t = Panic, !.st.on = item]

extends(set, item) == \E x \in set : x # item /\ IsPrefix(x, item)
Conflicts(set, item) == extends(set, item) \/ \E x \in set : x # item /\ IsPrefix(item, x)
right(holds) == IF holds THEN "right" ELSE "wrong"

TreeInsert == call.fn = "tree" /\ call.st.t # Panic /\ \E item \in Items :
  LET r == Insert(call.st.t, item)
      s == IF Conflicts(call.st.set, item) THEN call.st.set ELSE call.st.set \cup {item}
  IN  put(r.n, s, right(r.ok = ~Conflicts(call.st.set, item)))

TreeDelete == call.fn = "tree" /\ call.st.t # Panic /\ \E item \in Items :
  LET t == Delete(call.st.t, item)
  IN  IF t = Panic THEN panicOn(item)
      ELSE put(t, call.st.set \ {item}, right(~extends(call.st.set, item)))

TreeContains == call.fn = "tree" /\ call.st.t # Panic /\ \E item \in Items :
  LET found == contains(call.st.t, item)
  IN  IF found = Panic THEN panicOn(item)
      ELSE put(call.st.t, call.st.set,
               right((found # Nil) = (item \in call.st.set) /\ ~extends(call.st.set, item)))

TreeRootHash == call.fn = "tree" /\ call.st.t # Panic /\ put(hashed(call.st.t), call.st.set, "none")

TreeRestore == call.fn = "tree" /\ call.st.t # Panic
  /\ LET r == treeFromBytes(treeToBytes(call.st.t))
     IN  put(r.n, call.st.set, right(r.ok))

Restore == \E x \in Snapshots :
  LET s == [x EXCEPT !.contracts = treeFromBytes(@).n, !.nonces = treeFromBytes(@).n]
  IN  Eval("restore", s, SnapshotFromBytes(Bytes(s)))

PatriciaNext ==
  \/ Idle /\ NewTree
  \/ Idle /\ Restore
  \/ TreeInsert \/ TreeDelete \/ TreeContains \/ TreeRootHash \/ TreeRestore

-----------------------------------------------------------------------------
\* An item as a sequence of bits, and the root hash a set of items has.
itemBits(item) == [i \in 1..(Len(item) * ByteBits) |->
                     bitAt(item[((i - 1) \div ByteBits) + 1], (i - 1) % ByteBits)]

before(x, y) == \E i \in DOMAIN itemBits(x) : /\ \A j \in 1..(i - 1) : itemBits(x)[j] = itemBits(y)[j]
                                            /\ itemBits(x)[i] < itemBits(y)[i]

RECURSIVE SetHash(_, _)
SetHash(S, i) ==
  IF \E x \in S : S = {x} THEN leafHash(CHOOSE x \in S : TRUE)
  ELSE LET one == {x \in S : itemBits(x)[i] = 1}
       IN  IF one \in {{}, S} THEN SetHash(S, i + 1)
           ELSE <<"branch", SetHash(S \ one, i + 1), SetHash(one, i + 1)>>

(***************************************************************************)
(* A tree is a set: Insert refuses exactly the items that are a prefix of  *)
(* an element or have one as a prefix and then changes nothing, Contains   *)
(* is membership, and Walk visits each element once and in order.  The     *)
(* comments of Contains and Delete ask nothing of the item, but both       *)
(* panic, at the nil child of a leaf, on exactly the items that are longer *)
(* than an element they start with.                                        *)
(***************************************************************************)
TreeIsSet ==
  During("tree", LAMBDA x, s :
    /\ s.result # "wrong"
    /\ s.t = Panic => extends(s.set, s.on)
    /\ s.t # Panic => /\ ToSet(Walk(s.t)) = s.set
                      /\ \A i \in 1..(Len(Walk(s.t)) - 1) : before(Walk(s.t)[i], Walk(s.t)[i + 1]))

(***************************************************************************)
(* The root hash depends on the set alone: not on the order of insertions, *)
(* on what was deleted in between, on which hashes were already cached, or *)
(* on whether the tree was serialized and read back.                       *)
(***************************************************************************)
RootIsCanonical ==
  During("tree", LAMBDA x, s : s.t # Panic =>
           rootHash(hashed(s.t)) = IF s.set = {} THEN <<"zero">> ELSE SetHash(s.set, 1))

(***************************************************************************)
(* What a Store that keeps Snapshot.Bytes gives back: FromBytes never      *)
(* fails on it, and every field is as it was, the roots of both trees      *)
(* included, except the recent block IDs, which are gone.                  *)
(***************************************************************************)
RestoreKeepsState ==
  After("restore", LAMBDA s, r :
    /\ r.ok
    /\ r.s = [s EXCEPT !.contracts = r.s.contracts, !.nonces = r.s.nonces, !.refs = <<>>]
    /\ rootHash(hashed(r.s.contracts)) = rootHash(hashed(s.contracts))
    /\ rootHash(hashed(r.s.nonces)) = rootHash(hashed(s.nonces)))
=============================================================================
