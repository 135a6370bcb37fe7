----------------------------- MODULE MCPackages -----------------------------
(***************************************************************************)
(* The packages of functions, together.  One caller makes one call at a    *)
(* time, so they share the variable call.                                  *)
(***************************************************************************)
EXTENDS MCCrypto, MCData, MCBlocks

Spec == CallsInit /\ [][CryptoNext \/ DataNext \/ BlocksNext \/ Return]_call

(***************************************************************************)
(* Package asm: the tokens are the text, every jump lands on its label     *)
(* after finitely many passes, in each of which jumps only grow, and what  *)
(* is disassembled assembles to the same program.                          *)
(***************************************************************************)
AssemblyRight == TokensCover /\ StringsEnd /\ JumpsLand /\ JumpsOnlyGrow /\ DisassemblyAssembles

(***************************************************************************)
(* Packages errors, log and rotation: errors keep what was added to them;  *)
(* prefixes of contexts stay as they are although they share arrays;       *)
(* entries are written whole by concurrent goroutines and their pairs can  *)
(* be read back; the rotated file stays readable and its buffer bounded,   *)
(* whichever file operations fail.                                         *)
(***************************************************************************)
LoggingRight ==
  /\ ErrorsKeep /\ PrefixesKept /\ EntriesWhole /\ PairsReadable
  /\ LogOrdered /\ BufferBounded
=============================================================================
