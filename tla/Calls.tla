------------------------------- MODULE Calls --------------------------------
(***************************************************************************)
(* The packages of functions that keep no state between calls: field,      *)
(* group and scalar arithmetic, hashing, checked arithmetic, trees and     *)
(* encodings.  A behaviour of such a package is a caller that makes one    *)
(* call after another.  A call has the function's name, its arguments,     *)
(* what it has computed so far (st) and the steps it still has to take     *)
(* (todo: the rest of a straight-line program or the indices a loop has    *)
(* yet to visit).  A function that is one expression has no steps.         *)
(***************************************************************************)
EXTENDS Sequences

VARIABLE call

NoCall == [fn |-> "none", todo |-> <<>>]

CallsInit == call = NoCall

Idle == call = NoCall

Begin(fn, args, st, todo) ==
  /\ call = NoCall
  /\ call' = [fn |-> fn, args |-> args, st |-> st, todo |-> todo]

Eval(fn, args, st) == Begin(fn, args, st, <<>>)

\* A call on the result of the call that has just finished.
Then(fn, args, st, todo) ==
  /\ call # NoCall
  /\ call.todo = <<>>
  /\ call' = [fn |-> fn, args |-> args, st |-> st, todo |-> todo]

\* The next step of a call of fn: st becomes F(st, Head(todo)).
Step(fn, F(_, _)) ==
  /\ call.fn = fn
  /\ call.todo # <<>>
  /\ call' = [call EXCEPT !.st = F(call.st, Head(call.todo)), !.todo = Tail(@)]

\* The steps <<op, i>> for the i of a sequence.
each(op, is) == [k \in DOMAIN is |-> <<op, is[k]>>]

Return == call # NoCall /\ call.todo = <<>> /\ call' = NoCall

\* Throughout a call of fn, and when it has returned.
During(fn, Holds(_, _)) == call.fn = fn => Holds(call.args, call.st)
After(fn, Holds(_, _)) == call.fn = fn /\ call.todo = <<>> => Holds(call.args, call.st)
=============================================================================
