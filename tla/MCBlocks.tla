------------------------------ MODULE MCBlocks ------------------------------
(***************************************************************************)
(* The instance of block formats and checks, transaction results, source   *)
(* texts, errors and log entries that MCPackages checks.                   *)
(***************************************************************************)
EXTENDS BlockFormat, BlockChecks, Results, Scanner, Logging

\* Hashes of two words of two bytes, and byte strings around that length.
MCByteStrings == UNION {[1..n -> {0, 1, 127}] : n \in 0..5}
MCHexTexts == [1..8 -> {7, -1}] \cup {[i \in 1..n |-> i] : n \in 7..9}

MCHeaders ==
  LET item(ty, b, n, t) == [type |-> ty, bytes |-> b, int |-> n, tuple |-> t]
      key == <<5>>
      i1 == item("INT", <<>>, 1, <<>>)
      b1 == item("BYTES", key, 1, <<>>)
      t1 == item("TUPLE", <<>>, 0, <<i1, b1>>)
      base == [version |-> 3, height |-> 1, prev |-> nilPointer, timestampMs |-> 1, refsCount |-> 1, runlimit |-> 1,
               txRoot |-> nilPointer, contractsRoot |-> nilPointer, noncesRoot |-> nilPointer,
               predicate |-> [version |-> 1, quorum |-> 1, pubkeys |-> <<key>>, other |-> <<>>], extra |-> <<>>]
      fields == {[base EXCEPT !.height = h, !.timestampMs = t, !.refsCount = r] : h, t \in {1, 127}, r \in {1, -1}}
      hashes == {[base EXCEPT !.prev = p, !.txRoot = r, !.contractsRoot = c] : p, r, c \in {nilPointer, zeroHash, <<1, 0>>}}
      predicates == {[base EXCEPT !.predicate = [version |-> v, quorum |-> 1, pubkeys |-> ks, other |-> o], !.extra = x] :
                       v \in {1, 2}, ks \in {<<>>, <<key>>}, o \in {<<>>, <<i1>>, <<i1, b1>>}, x \in {<<>>, <<b1>>, <<i1, b1>>, <<t1>>}}
  IN  fields \cup hashes \cup predicates

\* Transactions are good, not finalized, wrong or of a version below 3; block
\* arguments of the three types and of another.
MCOutcome(tx) == <<"ok", "unfinalized", "error", "panic", "ok">>[tx[2]]
MCArgs == {<<"bytes", <<1>>>>, <<"int64", -1>>, <<"items", <<1>>>>, <<"other">>}
MCBlockSet ==
  [header : {<<"header", 1>>}, txs : UNION {[1..n -> {<<"tx", k>> : k \in 1..5}] : n \in 0..3},
   args : {<<>>, <<<<"items", <<1>>>>, <<"other">>>>} \cup {<<<<"bytes", <<1>>>>, x>> : x \in MCArgs}]
MCReceivers == {[header |-> nilPointer, txs |-> <<>>, args |-> <<>>], [header |-> <<"header", 2>>, txs |-> <<<<"tx", 5>>>>, args |-> <<<<"int64", 5>>>>]}

MCPredicates ==
  {p \in [version : {1, 2}, quorum : -1..3, pubkeys : SeqOf(0..2, 2) \cup [1..3 -> 1..2]] :
     p.version = 2 => p.quorum = 1 /\ Len(p.pubkeys) = 1}
MCArguments ==
  SeqOf({<<"sig", 1>>, <<"sig", 2>>, <<"empty">>, <<"short">>}, 2) \cup [1..3 -> {<<"sig", 1>>, <<"sig", 2>>, <<"empty">>}]
MCRunlimits == {0, 1, 2, 31, 32, 33, 62, 63}
MCExpirations == {-64, -63, -1, 0, 1, 2, 5, 6, 40, 62, 63}
MCBlockTimes == {1, 2, 5, 6, 7, 40, 41, 62, 63, 64, 65, 127}

MCSourceTexts ==
  LET all == {"x", "l", "jump", "0", "7", "-", "'", "\"", "\\", "$", "#", ":", " ", "\n", "{", "!"}
  IN  SeqOf(all, 3) \cup [1..5 -> {"'", "\"", "\\", "x"}] \cup [1..4 -> {"jump", ":", "$", "l", "0", "7", "-"}]

MCKeyTexts == {<<>>, <<"k">>, <<"=", "k">>, <<"k", " ", "\"">>}
MCValueTexts ==
  SeqOf({"a", " ", "\"", "\\"}, 2)
    \cup {<<"=">>, <<"\n">>, <<"a", "=">>, <<"\"", " ", "\\">>, <<"a", "\\", " ">>, <<"\"", "\\", "\"">>}

BlocksNext == BlockFormatNext \/ BlockChecksNext \/ ResultsNext \/ ScannerNext \/ ErrorsNext \/ LoggingNext

(***************************************************************************)
(* Blocks in packages bc, validation and state. What is written can be     *)
(* read back, and only that: hashes, header hashes, and blocks whose       *)
(* transactions are parsed by concurrent goroutines. The checks let        *)
(* through what they should and nothing else, at every edge of their       *)
(* integers: BlockSig, the run limits of BlockOnly, checkTransactionTime   *)
(* with PruneNonces, and the nonce window.                                 *)
(***************************************************************************)
BlocksExact ==
  /\ HashesKeepBytes /\ HeaderHashBinds /\ BlockSurvives
  /\ SignaturesExact /\ RunlimitCovers /\ NonceTakenOnce /\ NoncesKeptForWindow
=============================================================================
