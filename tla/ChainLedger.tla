---------------------------- MODULE ChainLedger -----------------------------
(***************************************************************************)
(* The Chain implements Ledger.  The log is the IDs of the stored blocks;  *)
(* what a replica has applied is what its own state says: the block IDs    *)
(* its snapshot has collected in RefIDs.                                   *)
(***************************************************************************)
EXTENDS Chain

storedIDs == [h \in DOMAIN blocks |-> BlockID(blocks[h])]
appliedIDs == [p \in Procs |-> snapshot[p].refs]

L == INSTANCE Ledger WITH Replicas <- Procs, log <- storedIDs, at <- appliedIDs

\* Whatever the goroutines of all processes do, in whatever order they save,
\* apply, install, announce and recover, the chain is one growing log and
\* every state is made of a prefix of it (SaveBlock, setState, Recover).
ImplementsLedger == L!LedgerSpec
=============================================================================
