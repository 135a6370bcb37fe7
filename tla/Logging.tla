------------------------------- MODULE Logging ------------------------------
(***************************************************************************)
(* Packages errors and log, which share one hazard: errors and contexts    *)
(* are made one from another, and append to slices with shared arrays.     *)
(***************************************************************************)
EXTENDS Integers, SequencesExt, Calls

(***************************************************************************)
(* Go slices that share arrays.  A heap is a sequence of arrays, each a    *)
(* sequence of cells; a slice is an array, a length and a capacity.  An    *)
(* append within the capacity writes the array in place; beyond it, the    *)
(* elements move to a new array, with room for extra more.                 *)
(***************************************************************************)
CONSTANTS Extras   \* extra capacities that the runtime may allocate

Free == <<"free">>
nilSlice == [arr |-> 0, len |-> 0, cap |-> 0]

elements(heap, s) == IF s.len = 0 THEN <<>> ELSE SubSeq(heap[s.arr], 1, s.len)

inPlace(s) == s.len < s.cap

appendHeap(heap, s, x, extra) ==
  IF inPlace(s) THEN [heap EXCEPT ![s.arr][s.len + 1] = x]
  ELSE Append(heap, elements(heap, s) \o <<x>> \o [i \in 1..extra |-> Free])

appendSlice(heap, s, extra) ==
  IF inPlace(s) THEN [s EXCEPT !.len = @ + 1]
  ELSE [arr |-> Len(heap) + 1, len |-> s.len + 1, cap |-> s.len + 1 + extra]

\* s[0:len(s):len(s)]
capped(s) == [s EXCEPT !.cap = s.len]

-----------------------------------------------------------------------------
(***************************************************************************)
(* Package errors: errors that wrap an error with messages, details and    *)
(* data.  A caller makes errors one from another, and keeps them all.      *)
(* Message and detail texts are told apart by the number of the error they *)
(* were given to.  An error is a wrapper or a plain one, made by New.      *)
(* Each also has what the comments of the package *)
(* promise of it (says), what a Sub left in it besides (left), and, if it  *)
(* was made by WithDetail, the slice it appended to (base).                *)
(***************************************************************************)
CONSTANTS MaxErrors,     \* bound: errors made
          DataKeys

NoData == [k \in {} |-> 0]

Plain(n) ==
  [wrapper |-> FALSE, root |-> n, msg |-> <<n>>, detail |-> nilSlice, data |-> NoData, base |-> nilSlice,
   says |-> [root |-> n, details |-> <<>>, data |-> NoData], left |-> [details |-> <<>>, data |-> NoData]]

NewError(st, text) == [st EXCEPT !.errs = Append(@, Plain(text))]

\* A wrapper knows the error it stands for; another error is its own root.
ErrorRoot(e) == e.root
ErrorData(e) == e.data
ErrorDetail(heap, e) == elements(heap, e.detail)

wrapError(e) == [e EXCEPT !.wrapper = TRUE]
withMsg(e, text) == [wrapError(e) EXCEPT !.msg = <<text>> \o @, !.base = nilSlice]

Wrap(st, e, text) == [st EXCEPT !.errs = Append(@, withMsg(e, text))]

WithDetail(st, e, text, extra) ==
  LET e1 == [withMsg(e, text) EXCEPT !.detail = appendSlice(st.heap, e.detail, extra), !.base = e.detail,
                                     !.says.details = Append(@, text)]
  IN  [st EXCEPT !.errs = Append(@, e1), !.heap = appendHeap(@, e.detail, text, extra)]

withKey(data, k, v) == [x \in DOMAIN data \cup {k} |-> IF x = k THEN v ELSE data[x]]

newkv(e, k, v) == withKey(ErrorData(e), k, v)

WithData(st, e, k, v) ==
  [st EXCEPT !.errs = Append(@, [wrapError(e) EXCEPT !.data = newkv(e, k, v), !.base = nilSlice, !.says.data = withKey(@, k, v)])]

\* Sub: root in place of the root of e, and e's message in front; root itself
\* if e is not a wrapper.
substituted(root, e) == IF e.wrapper THEN [e EXCEPT !.root = ErrorRoot(root), !.msg = root.msg] ELSE root

\* The details and the data that an error should have, given what Sub left.
allDetails(e) == e.left.details \o e.says.details
allData(e) == e.says.data @@ e.left.data

Sub(st, root, e) ==
  LET e1 == [wrapError(substituted(root, e)) EXCEPT
               !.msg = e.msg \o @, !.base = nilSlice, !.says = [e.says EXCEPT !.root = root.says.root],
               !.left = IF e.wrapper THEN e.left ELSE [details |-> allDetails(root), data |-> allData(root)]]
  IN  [st EXCEPT !.errs = Append(@, e1)]

-----------------------------------------------------------------------------
ErrorsBegin ==
  Idle /\ Eval("errors", 0, [errs |-> <<Plain(1)>>, heap |-> <<>>])

ErrorsMake ==
  /\ call.fn = "errors" /\ Len(call.st.errs) < MaxErrors
  /\ \E i, j \in DOMAIN call.st.errs :
       LET st == call.st
           e == st.errs[i]
           text == Len(st.errs) + 1
       IN  \/ i = j /\ call' = [call EXCEPT !.st = NewError(st, text)]
           \/ i = j /\ call' = [call EXCEPT !.st = Wrap(st, e, text)]
           \/ i = j /\ \E extra \in Extras : call' = [call EXCEPT !.st = WithDetail(st, e, text, extra)]
           \/ i = j /\ \E k \in DataKeys : call' = [call EXCEPT !.st = WithData(st, e, k, text)]
           \/ j # i /\ call' = [call EXCEPT !.st = Sub(st, st.errs[j], e)]

ErrorsNext == ErrorsBegin \/ ErrorsMake

-----------------------------------------------------------------------------
\* The errors whose WithDetail wrote the last detail of errs[t] where it is.
writers(errs, t) ==
  {j \in t..Len(errs) : j = t \/ (errs[j].base = errs[t].base /\ inPlace(errs[t].base))}

(***************************************************************************)
(* However errors are made one from another, each keeps its root, and has  *)
(* all the data and the details given to it and to those it was made from, *)
(* with two exceptions.  Sub of an err that is not a wrapper leaves the    *)
(* details and the data of root, although all but the root should be taken *)
(* from err.  And a detail is replaced by that of a later error that was   *)
(* made from the same error and appended in the same place: always in an   *)
(* error that still has the array, and possibly in one that copied it.     *)
(***************************************************************************)
ErrorsKeep ==
  During("errors", LAMBDA x, st :
    \A i \in DOMAIN st.errs :
      LET e == st.errs[i]
          got == ErrorDetail(st.heap, e)
          given == allDetails(e)
      IN  /\ ErrorRoot(e) = e.says.root
          /\ ErrorData(e) = allData(e)
          /\ Len(got) = Len(given)
          /\ \A p \in DOMAIN given :
               LET W == writers(st.errs, given[p])
               IN  got[p] \in W /\ (e.detail.arr = st.errs[given[p]].detail.arr => got[p] = Max(W)))

-----------------------------------------------------------------------------
(***************************************************************************)
(* Package log: log entries of goroutines that share a writer, the         *)
(* prefixes that contexts carry, and the text of keys and values.          *)
(***************************************************************************)
CONSTANTS Goroutines,
          MaxContexts,       \* bound: contexts made from one another
          KeyTexts, ValueTexts

(***************************************************************************)
(* Printkv writes an entry in several parts while it holds logWriterMu:    *)
(* the prefix of the process, that of the context, the pairs, a new line   *)
(* and the stack.  SetOutput and SetPrefix take the same lock.  The        *)
(* writers and the process prefixes are 1, before, and 2, after the call.  *)
(***************************************************************************)
Parts == 5

PrintBegin ==
  Idle /\ Begin("print", 0,
                [lock |-> "free", pc |-> [g \in Goroutines |-> 0], writer |-> 1, prefix |-> 1, out |-> <<<<>>, <<>>>>],
                <<"print">>)

lockPrint(st, g) == [st EXCEPT !.lock = g, !.pc[g] = 1]

writePart(st, g) ==
  [st EXCEPT !.out[st.writer] = Append(@, [g |-> g, part |-> st.pc[g], prefix |-> st.prefix]),
             !.pc[g] = @ + 1,
             !.lock = IF st.pc[g] = Parts THEN "free" ELSE @]

Printkv(g) ==
  LET st == call.st
  IN  \/ st.pc[g] = 0 /\ st.lock = "free" /\ call' = [call EXCEPT !.st = lockPrint(st, g)]
      \/ st.pc[g] \in 1..Parts /\ call' = [call EXCEPT !.st = writePart(st, g)]

SetOutput == call.st.lock = "free" /\ call' = [call EXCEPT !.st.writer = 2]
SetPrefix == call.st.lock = "free" /\ call' = [call EXCEPT !.st.prefix = 2]

PrintStep ==
  call.fn = "print" /\ call.todo # <<>> /\ (SetOutput \/ SetPrefix \/ \E g \in Goroutines : Printkv(g))

PrintEnd ==
  /\ call.fn = "print" /\ call.todo # <<>>
  /\ \A g \in Goroutines : call.st.pc[g] > Parts
  /\ call' = [call EXCEPT !.todo = <<>>]

-----------------------------------------------------------------------------
(***************************************************************************)
(* AddPrefixkv makes a context with a longer prefix from another.  A pair  *)
(* is the number of the context it was added for; says is what the prefix  *)
(* was made to be.                                                         *)
(***************************************************************************)
ContextBegin ==
  Idle /\ Begin("context", 0, [ctxs |-> <<[prefix |-> nilSlice, says |-> <<>>]>>, heap |-> <<>>], <<"add">>)

\* Fault: the capacity is left as append made it.
longerPrefix_Uncapped(heap, p, extra) == appendSlice(heap, p, extra)

longerPrefix(heap, p, extra) == capped(appendSlice(heap, p, extra))

AddPrefixkv(st, ctx, extra) ==
  LET pair == Len(st.ctxs) + 1
  IN  [ctxs |-> Append(st.ctxs, [prefix |-> longerPrefix(st.heap, ctx.prefix, extra), says |-> Append(ctx.says, pair)]),
       heap |-> appendHeap(st.heap, ctx.prefix, pair, extra)]

ContextAdd ==
  /\ call.fn = "context" /\ call.todo # <<>>
  /\ \E i \in DOMAIN call.st.ctxs, extra \in Extras :
       call' = [call EXCEPT !.st = AddPrefixkv(@, call.st.ctxs[i], extra),
                            !.todo = IF Len(call.st.ctxs) < MaxContexts THEN @ ELSE <<>>]

-----------------------------------------------------------------------------
(***************************************************************************)
(* The text of a pair.  strconv.Quote puts quotes around a value, and a    *)
(* backslash before a quote or a backslash, and writes a new line as \n.   *)
(***************************************************************************)
pairDelims == {" ", "\n"}
illegalKeyChars == pairDelims \cup {"=", "\""}

formatKey(s) == IF s = <<>> THEN <<"?">> ELSE [i \in DOMAIN s |-> IF s[i] \in illegalKeyChars THEN "-" ELSE s[i]]

quoteChar(c) == IF c = "\n" THEN <<"\\", "n">> ELSE IF c \in {"\"", "\\"} THEN <<"\\", c>> ELSE <<c>>
quoted(s) == <<"\"">> \o FlattenSeq([i \in DOMAIN s |-> quoteChar(s[i])]) \o <<"\"">>

formatValue(s) == IF \E i \in DOMAIN s : s[i] \in pairDelims THEN quoted(s) ELSE s

appendPair(b, k, v) == b \o formatKey(k) \o <<"=">> \o formatValue(v) \o <<" ">>

PairsNext ==
  Idle /\ \E k1, k2 \in KeyTexts, v1, v2 \in ValueTexts :
    Eval("pairs", <<<<k1, v1>>, <<k2, v2>>>>, appendPair(appendPair(<<>>, k1, v1), k2, v2))

LoggingNext == PrintBegin \/ PrintStep \/ PrintEnd \/ ContextBegin \/ ContextAdd \/ PairsNext

-----------------------------------------------------------------------------
(***************************************************************************)
(* The parts of an entry are never mixed with those of another, and all of *)
(* them go to one writer with one process prefix, whatever SetOutput and   *)
(* SetPrefix do meanwhile.                                                 *)
(***************************************************************************)
EntriesWhole ==
  During("print", LAMBDA x, st :
    \A w \in 1..2 : \A i \in DOMAIN st.out[w] :
      LET p == st.out[w][i]
      IN  /\ p.part = ((i - 1) % Parts) + 1
          /\ p.part > 1 => p.g = st.out[w][i - 1].g /\ p.prefix = st.out[w][i - 1].prefix)

(***************************************************************************)
(* The prefix of a context never changes, however many contexts are made   *)
(* from it and from those it was made from: AddPrefixkv cuts the capacity, *)
(* so that no two contexts append in one place.                            *)
(***************************************************************************)
PrefixesKept ==
  During("context", LAMBDA x, st :
    \A i \in DOMAIN st.ctxs : elements(st.heap, st.ctxs[i].prefix) = st.ctxs[i].says)

(***************************************************************************)
(* The pairs of a line can be told apart by a reader who splits at blanks  *)
(* and first equal signs, and reads a value that starts with a quote up to *)
(* the next one that is not escaped, with the exception of a value that    *)
(* itself starts with a quote and has no delimiter: formatValue leaves it  *)
(* bare, although its comment also has it quote values with quotes, and it *)
(* is never read back right.                                               *)
(***************************************************************************)
RECURSIVE unquote(_, _)
unquote(s, i) ==   \* from i, after the opening quote: the value and what is left
  IF i > Len(s) \/ s[i] = "\"" THEN [v |-> <<>>, rest |-> SubSeq(s, i + 1, Len(s))]
  ELSE LET esc == s[i] = "\\"
           c == IF esc THEN (IF s[i + 1] = "n" THEN "\n" ELSE s[i + 1]) ELSE s[i]
           u == unquote(s, IF esc THEN i + 2 ELSE i + 1)
       IN  [u EXCEPT !.v = <<c>> \o @]
firstOf(s, c) == CHOOSE i \in DOMAIN s : s[i] = c /\ \A j \in 1..(i - 1) : s[j] # c
readPair(s) ==
  LET eq == firstOf(s, "=")
      after == SubSeq(s, eq + 1, Len(s))
      end == firstOf(after, " ")
      val == IF after[1] = "\"" THEN unquote(after, 2)
             ELSE [v |-> SubSeq(after, 1, end - 1), rest |-> SubSeq(after, end, Len(after))]
  IN  [k |-> SubSeq(s, 1, eq - 1), v |-> val.v, rest |-> SubSeq(val.rest, 2, Len(val.rest))]

PairsReadable ==
  After("pairs", LAMBDA kvs, line :
    LET bare(v) == v # <<>> /\ v[1] = "\"" /\ \A i \in DOMAIN v : v[i] \notin pairDelims
        p1 == readPair(line)
        p2 == readPair(p1.rest)
    IN  /\ (<<p1.k, p1.v>> = <<formatKey(kvs[1][1]), kvs[1][2]>>) = ~bare(kvs[1][2])
        /\ ~bare(kvs[1][2]) =>
             (<<p2.k, p2.v, p2.rest>> = <<formatKey(kvs[2][1]), kvs[2][2], <<>>>>) = ~bare(kvs[2][2]))
=============================================================================
