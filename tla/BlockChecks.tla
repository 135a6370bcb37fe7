----------------------------- MODULE BlockChecks ----------------------------
(***************************************************************************)
(* The checks of blocks and transactions whose integers have a width that  *)
(* matters, and the check of a block's signatures: package validation,     *)
(* protocol/tx.go and PruneNonces.  Integers have the width of Checked.    *)
(***************************************************************************)
EXTENDS Bytecode

CONSTANTS Predicates, Arguments,   \* predicates and the arguments of blocks
          Runlimits,               \* run limits of blocks and transactions
          Expirations,             \* expiration times of nonces
          BlockTimes,              \* times of blocks
          Windows                  \* values of MaxNonceWindow, in milliseconds

(***************************************************************************)
(* A key is a number, 0 for one of the wrong length.  An argument is       *)
(* <<"sig", k>>, the signature of the block by key k, <<"empty">>, or      *)
(* something of another length or type.                                    *)
(***************************************************************************)
BlockSigBegin(p, args) ==
  LET bad == p.version # 1 \/ p.quorum < 0 \/ p.quorum > Len(p.pubkeys) \/ Len(args) # Len(p.pubkeys)
  IN  Begin("BlockSig", [predicate |-> p, args |-> args],
            [err |-> bad, sigCount |-> 0],
            IF bad THEN <<>> ELSE [i \in DOMAIN args |-> [pk |-> p.pubkeys[i], sig |-> args[i]]])

checkSignature(st, a) ==
  IF st.err THEN st
  ELSE IF a.pk = 0 THEN [st EXCEPT !.err = TRUE]
  ELSE IF a.sig = <<"empty">> THEN st
  ELSE IF a.sig # <<"sig", a.pk>> THEN [st EXCEPT !.err = TRUE]
  ELSE [st EXCEPT !.sigCount = @ + 1]

BlockSigAccepts(x, st) == ~st.err /\ st.sigCount = x.predicate.quorum

-----------------------------------------------------------------------------
\* The loop of BlockOnly over the transactions: the first one that the rest
\* does not cover ends it.
RunlimitsBegin(limit, txs) == Begin("runlimits", <<limit, txs>>, [rest |-> limit, err |-> FALSE], txs)

spendRunlimit(st, runlimit) ==
  LET rest == wrap(Half64, st.rest - runlimit)
  IN  IF st.err THEN st ELSE [rest |-> rest, err |-> rest < 0]

-----------------------------------------------------------------------------
(***************************************************************************)
(* A transaction with one nonce, which logs the nonce's expiration exp and *)
(* the time range 0..exp, is offered to block after block.  A block prunes *)
(* the nonces, and takes the transaction if its times are right and its    *)
(* nonce is not there.                                                     *)
(***************************************************************************)
toUint(x) == uwrap(Half64, x)

timerangeRefused(tr, t) ==
  \/ tr.max > 0 /\ t > toUint(tr.max)
  \/ tr.min > 0 /\ t > 0 /\ t < toUint(tr.min)
windowRefused(window, expMS, t) == window > 0 /\ expMS > uwrap(Half64, window + t)

checkTransactionTime(tx, window, t) ==
  ~timerangeRefused(tx.timerange, t) /\ ~windowRefused(window, tx.expMS, t)

pruned(nonces, t) == {n \in nonces : ~(t > n)}

NoncedTx(exp) == [expMS |-> toUint(exp), timerange |-> [min |-> 0, max |-> exp]]

OfferBegin(exp, window, times) ==
  Begin("offer", [exp |-> exp, window |-> window], [nonces |-> {}, applied |-> <<>>], times)

offer(x, st, t) ==
  LET tx == NoncedTx(x.exp)
      left == pruned(st.nonces, t)
      takes == checkTransactionTime(tx, x.window, t) /\ tx.expMS \notin left
  IN  [nonces |-> IF takes THEN left \cup {tx.expMS} ELSE left,
       applied |-> IF takes THEN Append(st.applied, t) ELSE st.applied]

OfferStep == call.fn = "offer" /\ Step("offer", LAMBDA st, t : offer(call.args, st, t))

BlockChecksNext ==
  \/ Idle /\ \/ \E p \in Predicates, args \in Arguments : BlockSigBegin(p, args)
             \/ \E limit \in Runlimits, txs \in SeqOf(Runlimits, 3) : RunlimitsBegin(limit, txs)
             \/ \E exp \in Expirations, w \in Windows, t1, t2, t3 \in BlockTimes :
                  t1 < t2 /\ t2 < t3 /\ OfferBegin(exp, w, <<t1, t2, t3>>)
  \/ Step("BlockSig", checkSignature) \/ Step("runlimits", spendRunlimit) \/ OfferStep

-----------------------------------------------------------------------------
(***************************************************************************)
(* BlockSig accepts a block exactly when each argument is empty or is the  *)
(* signature of the key at its own place, and exactly quorum are not       *)
(* empty: one signature more than the quorum is refused as one less is.    *)
(***************************************************************************)
SignaturesExact ==
  After("BlockSig", LAMBDA x, st :
    LET p == x.predicate
        signed == {i \in DOMAIN x.args : x.args[i] # <<"empty">>}
    IN  BlockSigAccepts(x, st) <=>
          /\ p.version = 1 /\ Len(x.args) = Len(p.pubkeys) /\ p.quorum = Cardinality(signed)
          /\ \A i \in DOMAIN p.pubkeys : p.pubkeys[i] # 0
          /\ \A i \in signed : x.args[i] = <<"sig", p.pubkeys[i]>>)

(***************************************************************************)
(* The run limit of a block, which is not negative, covers the sum of      *)
(* those of its transactions, however large they are: no difference wraps. *)
(* NewTx refuses a transaction with a negative run limit.                  *)
(***************************************************************************)
RunlimitCovers ==
  After("runlimits", LAMBDA x, st : ~st.err <=> FoldLeft(LAMBDA a, b : a + b, 0, x[2]) <= x[1])

(***************************************************************************)
(* Over blocks whose times a clock can give (below 2^63), a transaction    *)
(* with a nonce is taken once, whatever expiration but 0 it has: when its  *)
(* nonce is pruned its time range has passed, at any of the signed and     *)
(* unsigned comparisons between.                                           *)
(***************************************************************************)
ClockTime(t) == t <= MaxInt(Half64)

NonceTakenOnce ==
  During("offer", LAMBDA x, st :
    x.exp # 0 /\ (\A i \in DOMAIN st.applied : ClockTime(st.applied[i])) => Len(st.applied) <= 1)

(***************************************************************************)
(* With a window, no nonce is kept for longer than the window after the    *)
(* block that took it: what the nonce tree holds is bounded by the recent  *)
(* blocks.                                                                 *)
(***************************************************************************)
NoncesKeptForWindow ==
  During("offer", LAMBDA x, st :
    LET n == Len(st.applied)
    IN  x.window > 0 /\ n > 0 /\ ClockTime(st.applied[n])
          => \A expMS \in st.nonces : expMS <= st.applied[n] + x.window)
=============================================================================
