----------------------------- MODULE SymbolSearch -----------------------------
(***************************************************************************)
(* The workspace symbol provider registry and getWorkspaceSymbols          *)
(* (contrib/search/common/search.ts).                                      *)
(*                                                                         *)
(* register() pushes a provider and returns a handle whose dispose()       *)
(* removes the first occurrence of it, once.  getWorkspaceSymbols copies   *)
(* the registry, asks every provider at once, and pushes each provider's   *)
(* symbols into one array as its answer arrives (a provider that throws    *)
(* or answers undefined adds nothing).  When all have settled it returns   *)
(* [] if the token is cancelled, and otherwise sorts the array with        *)
(* compareItems and keeps the first item of every run the comparator calls *)
(* equal (groupBy ... flatMap(group => group[0])).                         *)
(*                                                                         *)
(* A symbol is abstracted to what compareItems reads: one key standing for *)
(* name, kind and URI (compared in that order, so one total order), a      *)
(* range on one line as <<start, end>> or None, and a container name.      *)
(***************************************************************************)
EXTENDS Naturals, FiniteSets, Sequences, SequencesExt

CONSTANTS
  Providers,        \* provider objects
  Resolvable,       \* provider -> it implements resolveWorkspaceSymbol
  Answers,          \* provider -> the answers it may give to one query
  MaxRegistrations, \* bound on register() calls
  None

VARIABLES
  supports,   \* _supports
  handles,    \* handle -> [provider, live]: live while `support` is set
  phase,      \* "idle", "waiting" (awaiting Promise.all) or "done"
  asked,      \* WorkspaceSymbolProviderRegistry.all() at the start
  pending,    \* indices into asked whose promise has not settled
  all,        \* the WorkspaceSymbolItems pushed so far
  cancelled,  \* token.isCancellationRequested
  result      \* what getWorkspaceSymbols resolved with

vars == <<supports, handles, phase, asked, pending, all, cancelled, result>>

Handles == 1..MaxRegistrations

-----------------------------------------------------------------------------
(* compareItems and groupBy                                                *)

Sign(x, y) == IF x < y THEN -1 ELSE IF x > y THEN 1 ELSE 0

\* Range.areIntersecting on one line: ranges that only touch (one ends at
\* the column where the other starts) do not intersect.
areIntersecting(r, q) == ~(r[2] <= q[1] \/ q[2] <= r[1])

\* Range.compareRangesUsingStarts on one line: start, then end.
compareRangesUsingStarts(r, q) ==
  IF r[1] # q[1] THEN Sign(r[1], q[1]) ELSE Sign(r[2], q[2])

\* The range step of compareItems: both ranges known and apart, or else
\* the item whose provider can resolve goes first.
compareLocations(a, b) ==
  CASE a.sym.range # None /\ b.sym.range # None ->
         IF areIntersecting(a.sym.range, b.sym.range) THEN 0
         ELSE compareRangesUsingStarts(a.sym.range, b.sym.range)
    [] Resolvable[a.prov] /\ ~Resolvable[b.prov] -> -1
    [] ~Resolvable[a.prov] /\ Resolvable[b.prov] -> 1
    [] OTHER -> 0

compareItems(a, b) ==
  LET res == IF a.sym.key # b.sym.key THEN Sign(a.sym.key, b.sym.key)
             ELSE compareLocations(a, b)
  IN IF res # 0 THEN res ELSE Sign(a.sym.container, b.sym.container)

(* Array.prototype.sort as V8 runs it on fewer than 64 elements (TimSort  *)
(* with a single run): the longest ascending or strictly descending       *)
(* prefix, reversed if descending, then binary insertion of the rest.     *)
(* compareItems is not a consistent comparator (range intersection is not *)
(* transitive), for which ECMAScript leaves the order to the engine.      *)

RECURSIVE RunFrom(_, _, _)
RunFrom(s, i, desc) ==
  IF i > Len(s) THEN 0
  ELSE LET o == compareItems(s[i], s[i-1])
       IN IF (desc /\ o >= 0) \/ (~desc /\ o < 0) THEN 0
          ELSE 1 + RunFrom(s, i + 1, desc)

\* The slot binary insertion finds for pivot in s[left..right-1].
RECURSIVE InsertPos(_, _, _, _)
InsertPos(pivot, s, left, right) ==
  IF left >= right THEN left
  ELSE LET mid == left + (right - left) \div 2
       IN IF compareItems(pivot, s[mid]) < 0
          THEN InsertPos(pivot, s, left, mid)
          ELSE InsertPos(pivot, s, mid + 1, right)

RECURSIVE BinaryInsertionSort(_, _)
BinaryInsertionSort(s, start) ==
  IF start > Len(s) THEN s
  ELSE LET p == InsertPos(s[start], s, 1, start)
       IN BinaryInsertionSort(SubSeq(s, 1, p - 1) \o <<s[start]>> \o
                              SubSeq(s, p, start - 1) \o
                              SubSeq(s, start + 1, Len(s)), start + 1)

ArraySort(s) ==
  IF Len(s) < 2 THEN s
  ELSE LET desc == compareItems(s[2], s[1]) < 0
           n == 2 + RunFrom(s, 3, desc)
           run == IF desc THEN Reverse(SubSeq(s, 1, n)) \o SubSeq(s, n + 1, Len(s))
                  ELSE s
       IN BinaryInsertionSort(run, n + 1)

\* groupBy over sorted data starts a group when an element differs from the
\* current group's first element, which flatMap then keeps: so an element
\* is kept exactly when it differs from the last element kept.
RECURSIVE GroupFirsts(_, _)
GroupFirsts(out, rest) ==
  IF rest = <<>> THEN out
  ELSE IF out # <<>> /\ compareItems(Last(out), Head(rest)) = 0
       THEN GroupFirsts(out, Tail(rest))
       ELSE GroupFirsts(Append(out, Head(rest)), Tail(rest))

\* The de-duplication step of getWorkspaceSymbols.
Deduplicate(items) == GroupFirsts(<<>>, ArraySort(items))

\* The items a provider's answer pushes, in its order.
Items(ans, p) == [k \in DOMAIN ans |-> [sym |-> ans[k], prov |-> p]]

-----------------------------------------------------------------------------

Init ==
  /\ supports = <<>>
  /\ handles = [h \in Handles |-> None]
  /\ phase = "idle"
  /\ asked = <<>>
  /\ pending = {}
  /\ all = <<>>
  /\ cancelled = FALSE
  /\ result = <<>>

\* register(provider): push it and hand out a disposable for it.
Register(p) ==
  \E h \in Handles :
    /\ handles[h] = None
    /\ \A k \in Handles : k < h => handles[k] # None
    /\ supports' = Append(supports, p)
    /\ handles' = [handles EXCEPT ![h] = [provider |-> p, live |-> TRUE]]
    /\ UNCHANGED <<phase, asked, pending, all, cancelled, result>>

\* (mutant) dispose() that does not forget its provider.
DisposeAgain(h) ==
  /\ handles[h] # None
  /\ LET idx == SelectInSeq(supports, LAMBDA q : q = handles[h].provider)
     IN /\ idx > 0
        /\ supports' = RemoveAt(supports, idx)
  /\ UNCHANGED <<handles, phase, asked, pending, all, cancelled, result>>

\* dispose(): remove the first occurrence of the provider, and only on the
\* first call (support = undefined afterwards).
Dispose(h) ==
  /\ handles[h] # None
  /\ IF handles[h].live
     THEN LET idx == SelectInSeq(supports, LAMBDA q : q = handles[h].provider)
          IN IF idx > 0
             THEN /\ supports' = RemoveAt(supports, idx)
                  /\ handles' = [handles EXCEPT ![h].live = FALSE]
             ELSE UNCHANGED <<supports, handles>>
     ELSE UNCHANGED <<supports, handles>>
  /\ UNCHANGED <<phase, asked, pending, all, cancelled, result>>

\* getWorkspaceSymbols: copy the registry and call every provider.
Search ==
  /\ phase = "idle"
  /\ phase' = "waiting"
  /\ asked' = supports
  /\ pending' = DOMAIN supports
  /\ UNCHANGED <<supports, handles, all, cancelled, result>>

\* The promise of provider i resolves with ans (<<>> for undefined): its
\* symbols are pushed as they come.
Answer(i, ans) ==
  /\ i \in pending
  /\ pending' = pending \ {i}
  /\ all' = all \o Items(ans, asked[i])
  /\ UNCHANGED <<supports, handles, phase, asked, cancelled, result>>

\* The provider throws: onUnexpectedExternalError, nothing pushed.
Fail(i) ==
  /\ i \in pending
  /\ pending' = pending \ {i}
  /\ UNCHANGED <<supports, handles, phase, asked, all, cancelled, result>>

\* The caller cancels the token.
Cancel ==
  /\ phase = "waiting"
  /\ ~cancelled
  /\ cancelled' = TRUE
  /\ UNCHANGED <<supports, handles, phase, asked, pending, all, result>>

\* Promise.all settles: [] if cancelled, else the de-duplicated items.
Finish ==
  /\ phase = "waiting"
  /\ pending = {}
  /\ phase' = "done"
  /\ result' = IF cancelled THEN <<>> ELSE Deduplicate(all)
  /\ UNCHANGED <<supports, handles, asked, pending, all, cancelled>>

Next ==
  \/ \E p \in Providers : Register(p)
  \/ \E h \in Handles : Dispose(h)
  \/ Search \/ Cancel \/ Finish
  \/ \E i \in pending :
       \/ Fail(i)
       \/ \E ans \in Answers[asked[i]] : Answer(i, ans)

Spec == Init /\ [][Next]_vars

-----------------------------------------------------------------------------
(* Properties                                                              *)

LiveProviders == [p \in Providers |->
  Cardinality({h \in Handles : handles[h] # None /\ handles[h].live
                               /\ handles[h].provider = p})]

\* Whatever order registrations are made and disposed in, and however often
\* a disposable is disposed, the registry holds each provider exactly as
\* often as it has registrations not yet disposed.
RegistryMatchesLiveRegistrations ==
  \A p \in Providers :
    Cardinality({k \in DOMAIN supports : supports[k] = p}) = LiveProviders[p]

\* The symbols getWorkspaceSymbols returns are free of duplicates: no two
\* of them are equal under compareItems, whatever order the providers
\* answered in.
ResultHasNoDuplicates ==
  phase = "done" =>
    \A i, j \in DOMAIN result : i # j => compareItems(result[i], result[j]) # 0

=============================================================================
