------------------------------- MODULE MCTxVM -------------------------------
(***************************************************************************)
(* Instances of TxVM for TLC.                                              *)
(***************************************************************************)
EXTENDS TxVMAccounts, TLC

\* A contract of an earlier transaction, with a value on its stack.
Coin == Value(2, AssetID(ContractSeed("p"), "t"), <<"Earlier", 1>>)
Purse == Contract("C", ContractSeed("p"), "p", <<Coin>>)
Purses == {Purse}
ASSUME Stored(Coin :> 0 @@ Purse :> 1)

OneNonce == {<<"b", 1>>}

\* All instructions together are too many for long programs.  A version is
\* only a number to the machine, so the versions separate four kinds of
\* programs: those that work on values, those that move a value from one
\* contract to another, those that nest contracts, and those that spend
\* contracts, make them and finalize.
Values == {"nonce", "issue", "split", "merge", "retire", "drop", "roll",
           "finalize"}
Transfers == {"input", "call", "put", "get", "split", "merge", "output",
              "contract"}
Nested == {"contract", "call", "exec", "put", "get", "wrap", "yield", "output"}
Finished == {"nonce", "input", "call", "output", "finalize"}
FourKinds == 3 :> Values @@ 4 :> Transfers @@ 5 :> Nested @@ 6 :> Finished
FourLogs == 3 :> 8 @@ 4 :> 2 @@ 5 :> 2 @@ 6 :> 6

AllInstructions ==
  3 :> Values \cup Transfers \cup Nested \cup {"log", "timerange", "data"}
AllLogs == 3 :> 6
=============================================================================
