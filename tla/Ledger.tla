------------------------------- MODULE Ledger -------------------------------
(***************************************************************************)
(* What package protocol promises its users, without Store, goroutines,    *)
(* channels or locks: one log of blocks that only grows at its end, and    *)
(* replicas that each have applied a prefix of it.  A replica jumps ahead  *)
(* to a longer prefix, and a crash takes it back to the empty one.         *)
(***************************************************************************)
EXTENDS Integers, Sequences

CONSTANT Replicas

VARIABLES
  log,   \* height -> block ID
  at     \* replica -> the IDs of the blocks it has applied, in order

ledgerVars == <<log, at>>

LedgerInit == DOMAIN log = {} /\ at = [r \in Replicas |-> <<>>]

\* A block joins the log.
Extend ==
  \E n \in DOMAIN log' :
    /\ DOMAIN log = 1..(n - 1)
    /\ DOMAIN log' = 1..n
    /\ \A h \in DOMAIN log : log'[h] = log[h]
    /\ UNCHANGED at

\* A replica applies the log up to a block it has not applied.
Advance(r) ==
  \E n \in DOMAIN log :
    /\ n \notin DOMAIN at[r]
    /\ at' = [at EXCEPT ![r] = [h \in 1..n |-> log[h]]]
    /\ UNCHANGED log

Restart(r) ==
  /\ at' = [at EXCEPT ![r] = <<>>]
  /\ UNCHANGED log

LedgerNext == Extend \/ \E r \in Replicas : Advance(r) \/ Restart(r)

LedgerSpec == LedgerInit /\ [][LedgerNext]_ledgerVars
=============================================================================
