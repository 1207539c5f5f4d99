------------------------- MODULE DiffEditorBreadcrumbs -------------------------
(***************************************************************************)
(* DiffEditorBreadcrumbsSource (editor/contrib/diffEditorBreadcrumbs/      *)
(* browser/contribution.ts): the breadcrumbs shown on a hidden unchanged   *)
(* region of the diff editor.                                              *)
(*                                                                         *)
(* An async autorun re-runs whenever a document symbol provider changes or *)
(* the text model's content changes (debounced).  Each run adds a          *)
(* DisposableCancellationTokenSource to its store, awaits the outline      *)
(* model of the text as it is then, returns if the store is disposed, and  *)
(* sets _currentModel.  An outline model is named by the text version it   *)
(* was computed for.                                                       *)
(*                                                                         *)
(* Taken from code outside this repository: autorunWithStore clears its    *)
(* store before each run (disposing what the previous run added, so its    *)
(* token is cancelled) and disposes the store only with the autorun.  The  *)
(* outline model service answers a request with the outline it computes   *)
(* for that text; once the request's token is cancelled it may instead     *)
(* reject (when no other request waits on the same computation).  The run *)
(* never reads its token after the await, and store.isDisposed only stops *)
(* runs that end after the source is disposed.                             *)
(*                                                                         *)
(* getBreadcrumbItems(startRange) lists the outline's symbols that start   *)
(* inside the hidden range and end after it, longest first.               *)
(***************************************************************************)
EXTENDS Integers, Sequences, SequencesExt, FiniteSets

CONSTANTS
  MaxEdits,  \* bound on edits of the text model
  MaxRuns,   \* bound on runs of the autorun
  None

VARIABLES
  version,       \* the text model's version
  debouncing,    \* a content change waits for the 100 ms debounce
  runs,          \* autorun runs so far; the last one is the current run
  disposedSrc,   \* the source, its autorun and the store are disposed
  pending,       \* runs awaiting getOrCreate: [run, version]
  currentModel   \* _currentModel: the version of its outline, or None

bcVars == <<version, debouncing, runs, disposedSrc, pending, currentModel>>

\* store.add(new DisposableCancellationTokenSource()): run r's token is
\* cancelled once the store is cleared for a later run, or disposed.
tokenCancelled(r) == r < runs \/ disposedSrc

\* A run of the autorun: the store is cleared, the new run adds its token
\* source and calls getOrCreate for the text as it is now.
run ==
  /\ runs < MaxRuns
  /\ runs' = runs + 1
  /\ pending' = pending \cup {[run |-> runs + 1, version |-> version]}

-----------------------------------------------------------------------------

\* The constructor: the autorun's first run.
Init ==
  /\ version = 0
  /\ debouncing = FALSE
  /\ runs = 1
  /\ disposedSrc = FALSE
  /\ pending = {[run |-> 1, version |-> 0]}
  /\ currentModel = None

\* The text model changes; Event.debounce holds the signal back.
Edit ==
  /\ version < MaxEdits
  /\ version' = version + 1
  /\ debouncing' = TRUE
  /\ UNCHANGED <<runs, disposedSrc, pending, currentModel>>

\* The debounced textModelChanged signal fires: the autorun re-runs.
DebounceFire ==
  /\ debouncing
  /\ ~disposedSrc
  /\ debouncing' = FALSE
  /\ run
  /\ UNCHANGED <<version, disposedSrc, currentModel>>

\* documentSymbolProvider.onDidChange: the autorun re-runs.
ProviderChange ==
  /\ ~disposedSrc
  /\ run
  /\ UNCHANGED <<version, debouncing, disposedSrc, currentModel>>

\* After `await getOrCreate`: `if (store.isDisposed) { return; }`, then
\* _currentModel.set(model).
setCurrentModel(p) ==
  currentModel' = IF disposedSrc THEN currentModel ELSE p.version

\* getOrCreate resolves for run p with the outline of the text it asked for,
\* whether or not p's token has been cancelled since.
Resolve(p) ==
  /\ p \in pending
  /\ pending' = pending \ {p}
  /\ setCurrentModel(p)
  /\ UNCHANGED <<version, debouncing, runs, disposedSrc>>

\* getOrCreate rejects for a run whose token is cancelled: the run ends.
Reject(p) ==
  /\ p \in pending
  /\ tokenCancelled(p.run)
  /\ pending' = pending \ {p}
  /\ UNCHANGED <<version, debouncing, runs, disposedSrc, currentModel>>

\* The source is disposed, and with it the autorun and its store.
Dispose ==
  /\ ~disposedSrc
  /\ disposedSrc' = TRUE
  /\ UNCHANGED <<version, debouncing, runs, pending, currentModel>>

Next ==
  \/ Edit \/ DebounceFire \/ ProviderChange
  \/ \E p \in pending : Resolve(p) \/ Reject(p)
  \/ Dispose

Spec == Init /\ [][Next]_bcVars

-----------------------------------------------------------------------------
(* getBreadcrumbItems                                                      *)

\* LineRange.contains(lineNumber): start <= lineNumber < endExclusive.
contains(range, line) == range.start <= line /\ line < range.endEx

\* The filter: symbols that start inside the range and end after it.
Enclosing(symbols, startRange) ==
  SelectSeq(symbols, LAMBDA s : /\ contains(startRange, s.start)
                                /\ ~contains(startRange, s.end))

\* A symbol's length in lines: endLineNumber - startLineNumber.
length(s) == s.end - s.start

\* Array.prototype.sort, which is stable, with compareBy(length) (order 1)
\* or its reverseOrder (order -1): each symbol is inserted after the
\* symbols already placed that do not sort after it.
StableSort(symbols, order) ==
  FoldLeft(LAMBDA sorted, x :
             LET k == Cardinality({i \in DOMAIN sorted :
                                     order * (length(sorted[i]) - length(x)) <= 0})
             IN InsertAt(sorted, k + 1, x),
           <<>>, symbols)

\* (mutant) sorted by compareBy(length) without reverseOrder.
getBreadcrumbItemsInnermostFirst(symbols, startRange) ==
  StableSort(Enclosing(symbols, startRange), 1)

\* getBreadcrumbItems(startRange, reader) on the outline's
\* asListOfDocumentSymbols(): the enclosing symbols sorted by
\* reverseOrder(compareBy(length, numberComparator)), longest first.
getBreadcrumbItems(symbols, startRange) ==
  StableSort(Enclosing(symbols, startRange), -1)

-----------------------------------------------------------------------------

BCTypeOK ==
  /\ version \in 0..MaxEdits /\ debouncing \in BOOLEAN
  /\ runs \in 1..MaxRuns
  /\ disposedSrc \in BOOLEAN
  /\ pending \subseteq [run : 1..runs, version : 0..MaxEdits]
  /\ currentModel \in 0..MaxEdits \cup {None}

\* Once no content change waits for the debounce and the current run's
\* outline has arrived, _currentModel is the outline of the text as it is:
\* a run started before an edit or a provider change and answered after
\* the run that followed it must not overwrite the newer outline (the
\* DisposableCancellationTokenSource each run adds to its store is there
\* to retire the older run).
SettlesOnLatestOutline ==
  (~disposedSrc /\ ~debouncing /\ \A p \in pending : p.run # runs)
    => currentModel = version

\* Outlines of a text of three lines: asListOfDocumentSymbols() lists the
\* symbol tree in document order, a parent before its children; two
\* symbols either nest or the later starts on or after the line where the
\* earlier ends (they may share that line, at different columns).  A
\* symbol's id is its position in the list.
Lines == 1..3
Outlines ==
  { [i \in DOMAIN t |-> [id |-> i, start |-> t[i][1], end |-> t[i][2]]] :
      t \in {t \in BoundedSeq({<<a, b>> \in Lines \X Lines : a <= b}, 3) :
               \A i, j \in DOMAIN t : i < j =>
                 \/ t[i][1] <= t[j][1] /\ t[j][2] <= t[i][2]
                 \/ t[i][2] <= t[j][1]} }
LineRanges == {r \in [start : Lines, endEx : 1..4] : r.start <= r.endEx}

\* The breadcrumbs of a hidden range run from the outermost enclosing
\* symbol inward: every symbol that starts inside the range and ends after
\* it is listed once, each one contains the next, and a child with its
\* parent's very lines comes after the parent (the stable sort keeps the
\* outline's order on equal lengths).
BreadcrumbsOutermostFirst ==
  \A m \in Outlines, r \in LineRanges :
    LET b == getBreadcrumbItems(m, r)
    IN /\ Len(b) = Len(Enclosing(m, r))
       /\ ToSet(b) = ToSet(Enclosing(m, r))
       /\ \A k \in 1..(Len(b) - 1) :
            /\ b[k].start <= b[k + 1].start /\ b[k + 1].end <= b[k].end
            /\ length(b[k]) = length(b[k + 1]) => b[k].id < b[k + 1].id

=============================================================================
