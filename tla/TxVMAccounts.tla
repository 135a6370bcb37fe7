---------------------------- MODULE TxVMAccounts ----------------------------
(***************************************************************************)
(* What an execution of TxVM does to the values it holds: their amounts    *)
(* and their anchors, and the contracts they are in, nested to any depth.  *)
(***************************************************************************)
EXTENDS TxVM

\* The items on a stack, those on the stacks of its contracts, and so on.
ItemsOn(s) == {s[i] : i \in DOMAIN s}
With(P) == P \cup UNION {ItemsOn(x.stack) : x \in {y \in P : IsContract(y)}}
ItemsWithin(s) ==
  LET deep[k \in 0..MaxNesting] == IF k = 0 THEN ItemsOn(s) ELSE With(deep[k - 1])
  IN  deep[MaxNesting]

Sum(w) ==
  LET sum[n \in 0..Len(w)] == IF n = 0 THEN 0 ELSE sum[n - 1] + w[n]
  IN  sum[Len(w)]

\* Two ways to count values: by the amounts of an asset, and, with an anchor,
\* one by one.
OfAsset(assetID) == <<"asset", assetID>>
WithAnchor(anchor) == <<"anchor", anchor>>
Worth(v, q) ==
  IF q[1] = "asset" THEN IF v.assetID = q[2] THEN v.amount ELSE 0
  ELSE IF v.anchor = q[2] THEN 1 ELSE 0

\* The values on a stack, in contracts within contracts included.
Total(s, q) ==
  LET total[x \in ItemsWithin(s)] ==
        IF IsContract(x) THEN Sum([i \in DOMAIN x.stack |-> total[x.stack[i]]]) ELSE Worth(x, q)
  IN  Sum([i \in DOMAIN s |-> total[s[i]]])

\* The contracts that are called.  One that has been output, or that is on
\* the argument stack, is on its way out.
Called == SubSeq(calls, 1, Len(calls) - (IF unwinding THEN 1 ELSE 0))

Held(q) == Total(argstack, q) + Sum([i \in DOMAIN Called |-> Total(Called[i].con.stack, q)])

\* What the items of the log with some codes brought in or took out.  A contract
\* is its snapshot ID's preimage.
Entry(e, q) == IF e.code \in {"I", "O"} THEN Total(e.id[2].stack, q) ELSE Worth(e, q)
Logged(codes, q) == Sum([i \in DOMAIN log |-> IF log[i].code \in codes THEN Entry(log[i], q) ELSE 0])

\* All values, wherever they are or were.
Stacks ==
  {argstack} \cup {calls[i].con.stack : i \in DOMAIN calls}
    \cup {log[i].id[2].stack : i \in {j \in DOMAIN log : log[j].code \in {"I", "O"}}}
AllValues ==
  {x \in UNION {ItemsWithin(s) : s \in Stacks} : IsValue(x)}
    \cup {log[i] : i \in {j \in DOMAIN log : log[j].code \in {"A", "X"}}}

\* R ranks items, each above those that it holds; a wrapped contract holds
\* nothing but what is portable.
Below(R, n) == {y \in DOMAIN R : R[y] < n}
Whole(R, x) ==
  \/ IsValue(x) /\ x.amount \in Int
  \/ /\ IsContract(x) /\ x.stack \in Seq(Below(R, R[x]))
     /\ x.type = "W" => stackPortable(x.stack)
Ranked(R) == R \in [DOMAIN R -> 0..MaxNesting] /\ \A x \in DOMAIN R : Whole(R, x)

\* The contracts to input are such, since they were output before, and leave
\* room to nest them once more with every instruction.
Stored(R) ==
  /\ Ranked(R) /\ Runlimit <= MaxNesting
  /\ \A x \in DOMAIN R : R[x] + Runlimit <= MaxNesting
  /\ \A con \in Snapshots : con \in DOMAIN R /\ IsContract(con)

-----------------------------------------------------------------------------
\* At every step, what was input or issued of an asset is held somewhere, or
\* was output or retired: no sequence of splits, merges, calls, yields and
\* wraps makes or loses an amount.
Conserved ==
  status # "failed" =>
    \A q \in {OfAsset(v.assetID) : v \in AllValues} :
      Logged({"I", "A"}, q) = Held(q) + Logged({"O", "X"}, q)

\* The log of a transaction that validates balances: what it takes from the
\* contracts it spends and issues, it puts in contracts or retires.
LogBalances ==
  status = "ok" /\ ~StopAfterFinalize =>
    \A q \in {OfAsset(v.assetID) : v \in AllValues} :
      Logged({"I", "A"}, q) = Logged({"O", "X"}, q)

\* Anchors are unique: in a transaction that repeats no nonce and no input
\* (Snapshot refuses one that does), no two values, held, output or retired,
\* have the same anchor, and neither has the one that finalize used up, from
\* which the transaction's ID is unique.
Repeats ==
  \E i, j \in DOMAIN log :
    /\ i # j /\ log[i].code = log[j].code
    /\ \/ log[i].code = "N" /\ log[i] = log[j]
       \/ log[i].code = "I" /\ log[i].id = log[j].id

AnchorsUnique ==
  status # "failed" /\ ~Repeats =>
    \A q \in {WithAnchor(v.anchor) : v \in AllValues} :
      Held(q) + Logged({"O", "X", "F"}, q) <= 1

\* Only what is portable leaves a transaction: in a contract that is output,
\* every contract, at any depth, is wrapped (stackPortable, at output and at
\* each wrap).
OutputsPortable ==
  \A i \in DOMAIN log :
    log[i].code = "O" => \A x \in ItemsWithin(log[i].id[2].stack) : isPortable(x)
=============================================================================
