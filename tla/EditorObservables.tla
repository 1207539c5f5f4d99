-------------------------- MODULE EditorObservables --------------------------
(***************************************************************************)
(* Observable consumers of this repository run on the engine               *)
(* (ObservableEngine), on one dependency graph:                            *)
(*                                                                         *)
(*  - DiffEditorEditors.isFocused (diffEditorEditors.ts): derived as       *)
(*    isOriginalFocused.read(reader) || isModifiedFocused.read(reader),    *)
(*    so it reads the modified editor's focus only while the original's    *)
(*    is false (a dynamic dependency); bindContextKey                      *)
(*    (platformObservableUtils.ts) sets a context key from it in an        *)
(*    autorun.                                                             *)
(*  - DiagnosticCellStatusBarItem (diagnosticCellStatusBarContrib.ts): an  *)
(*    autorun on the cell's excecutionError replaces the cell's status bar *)
(*    items with a sparkle item when the error has a location, through     *)
(*    deltaCellStatusBarItems, and dispose() removes them.                 *)
(*  - DiffEditorEditors' option autorun (diffEditorEditors.ts): an        *)
(*    autorunHandleChanges whose handleChange merges every changedOptions  *)
(*    of the diff editor's editorOptions into a change summary; the run    *)
(*    passes the summary through _adjustOptionsForLeft/RightHandSide to    *)
(*    the inner editors' updateOptions.  renderSideBySide, derived outside *)
(*    this repository from the options and the editor's width, is a cell.  *)
(*  - The engine's own scenario (the specification's section 8): a cell a, *)
(*    a diamond B = a div 2, C = a mod 2, D = B + C, and autoruns logging  *)
(*    D and B.  a going from 1 to 2 changes B and C but not D.             *)
(*                                                                         *)
(* A compute function is given by the reads it makes: NextRead(n, f) is    *)
(* the node n reads after the <<node, value>> reads f, or Done.            *)
(***************************************************************************)
EXTENDS Naturals, Sequences, Functions, TLC

CONSTANTS
  a, B, C, D, logD, logB,                         \* the engine's scenario
  isOriginalFocused, isModifiedFocused, isFocused, \* DiffEditorEditors
  contextKeyAutorun,                               \* bindContextKey's autorun
  excecutionError, sparkleAutorun,                 \* DiagnosticCellStatusBarItem
  editorOptions, renderSideBySide, optionsAutorun, \* the option autorun
  Done, None,
  AValues,                                         \* values a is set to
  Errors,                                          \* ICellExecutionError kinds
  MaxDepth, MaxSets

ASSUME Errors = {"none", "noLocation", "location"}

Cells == {a, isOriginalFocused, isModifiedFocused, excecutionError,
          editorOptions, renderSideBySide}
Deriveds == {B, C, D, isFocused}
Reactions == {logD, logB, contextKeyAutorun, sparkleAutorun, optionsAutorun}

\* The editor options the model tells apart: one passed through to both
\* sides only when it changed, one the sub-editor adjustment re-reads on
\* every run.
OptionKeys == {"fontSize", "stickyScroll"}
EditorOptionValues == [fontSize : BOOLEAN, stickyScroll : BOOLEAN]

VARIABLES
  value, state, seen, depth, queue, stack, recomputes, runs, sets, snap,
  contextKey,     \* the bound context key's value (None until first set)
  statusItems,    \* the sparkle items the view model has for the cell
  currentItemIds, \* DiagnosticCellStatusBarItem._currentItemIds (how many)
  changeSummary,  \* the option autorun's merged changedOptions (partial record)
  modifiedOpts,   \* the options the modified inner editor has
  originalOpts    \* the options the original inner editor has

engineVars == <<value, state, seen, depth, queue, stack, recomputes, runs, sets, snap>>
optionVars == <<changeSummary, modifiedOpts, originalOpts>>
consumerVars == <<contextKey, statusItems, currentItemIds, optionVars>>
vars == <<engineVars, consumerVars>>

-----------------------------------------------------------------------------
(* The dependency graph                                                    *)

\* A compute function reading the nodes deps in order, always.
ReadsInOrder(deps, f) == IF Len(f) < Len(deps) THEN deps[Len(f) + 1] ELSE Done

\* isFocused: `||` reads isModifiedFocused only after a false original.
FocusReads(f) ==
  CASE Len(f) = 0 -> isOriginalFocused
    [] Len(f) = 1 /\ ~f[1][2] -> isModifiedFocused
    [] OTHER -> Done

GraphNextRead(n, f) ==
  CASE n = B -> ReadsInOrder(<<a>>, f)
    [] n = C -> ReadsInOrder(<<a>>, f)
    [] n = D -> ReadsInOrder(<<B, C>>, f)
    [] n = logD -> ReadsInOrder(<<D>>, f)
    [] n = logB -> ReadsInOrder(<<B>>, f)
    [] n = isFocused -> FocusReads(f)
    [] n = contextKeyAutorun -> ReadsInOrder(<<isFocused>>, f)
    [] n = sparkleAutorun -> ReadsInOrder(<<excecutionError>>, f)
    [] n = optionsAutorun -> ReadsInOrder(<<editorOptions, renderSideBySide>>, f)

GraphCompute(n, f) ==
  CASE n = B -> f[1][2] \div 2
    [] n = C -> f[1][2] % 2
    [] n = D -> f[1][2] + f[2][2]
    [] n = isFocused -> f[1][2] \/ (Len(f) = 2 /\ f[2][2])

CellValues == [c \in Cells |->
                 CASE c = a -> AValues
                   [] c = excecutionError -> Errors
                   [] c = editorOptions -> EditorOptionValues
                   [] OTHER -> BOOLEAN]

InitCells == [c \in Cells |->
                CASE c = a -> 1
                  [] c = excecutionError -> "none"
                  [] c = editorOptions -> [fontSize |-> FALSE, stickyScroll |-> TRUE]
                  [] c = renderSideBySide -> TRUE
                  [] OTHER -> FALSE]

Engine == INSTANCE ObservableEngine WITH
            NextRead <- GraphNextRead, Compute <- GraphCompute

-----------------------------------------------------------------------------

(* DiffEditorEditors' inner editor options                               *)

\* _adjustOptionsForSubEditor(options): a clone of the given options with
\* the diff editor's fixed settings; stickyScroll is re-read from the
\* current editorOptions (hideUnchangedRegions is off).
adjustOptionsForSubEditor(changed, current) ==
  [k \in DOMAIN changed \cup {"stickyScroll"} |->
     IF k = "stickyScroll" THEN current.stickyScroll ELSE changed[k]]

\* _adjustOptionsForLeftHandSide: inline (not side by side) the hidden
\* original editor gets no sticky scroll; glyphMargin is renderSideBySide.
adjustOptionsForLeftHandSide(changed, current, sideBySide) ==
  LET result == adjustOptionsForSubEditor(changed, current)
  IN [k \in DOMAIN result \cup {"glyphMargin"} |->
        CASE k = "glyphMargin" -> sideBySide
          [] k = "stickyScroll" /\ ~sideBySide -> FALSE
          [] OTHER -> result[k]]

\* _adjustOptionsForRightHandSide: the sub-editor options (aria label and
\* padding are not modelled).
adjustOptionsForRightHandSide(changed, current) ==
  adjustOptionsForSubEditor(changed, current)

\* CodeEditorWidget.updateOptions: the given options override the editor's.
updateOptions(editorOpts, newOpts) == newOpts @@ editorOpts

\* _createLeftHandSideEditor / _createRightHandSideEditor: each inner
\* editor is constructed with the full initial options, adjusted.
createdOptions ==
  LET init == InitCells[editorOptions]
  IN [modified |-> adjustOptionsForRightHandSide(init, init),
      original |-> adjustOptionsForLeftHandSide(init, init, InitCells[renderSideBySide])]

\* (mutant) handleChange that replaces the summary with the latest change.
handleChangeOverwrite(changed) == changeSummary' = changed

\* handleChange: Object.assign(changeSummary, ctx.change.changedOptions).
handleChange(changed) == changeSummary' = changed @@ changeSummary

\* DiffEditorOptions.updateOptions(changedOptions): editorOptions is set to
\* the old options overridden by changedOptions; an autorun observing it
\* has handleChange called with the change.
diffUpdateOptions(changed) ==
  /\ Engine!Set(editorOptions, changed @@ value[editorOptions])
  /\ IF state[optionsAutorun] # "disposed"
        /\ editorOptions \in Engine!Producers(optionsAutorun)
     THEN handleChange(changed)
     ELSE UNCHANGED changeSummary
  /\ UNCHANGED <<contextKey, statusItems, currentItemIds, modifiedOpts, originalOpts>>

\* The option autorun's run: both editors get the adjusted summary; the
\* summary starts empty again for the next run.
updateEditorOptions(f) ==
  LET current == f[1][2]
      sideBySide == f[2][2]
  IN /\ modifiedOpts' = updateOptions(modifiedOpts,
                          adjustOptionsForRightHandSide(changeSummary, current))
     /\ originalOpts' = updateOptions(originalOpts,
                          adjustOptionsForLeftHandSide(changeSummary, current, sideBySide))
     /\ changeSummary' = [k \in {} |-> FALSE]

-----------------------------------------------------------------------------

\* updateSparkleItem(error): a sparkle item iff error?.location, swapped in
\* for the items created last time.
updateSparkleItem(error) ==
  LET items == IF error = "location" THEN 1 ELSE 0
  IN /\ statusItems' = statusItems - currentItemIds + items
     /\ currentItemIds' = items

\* boundKey.set(computeValue(reader)).
setContextKey(focused) == contextKey' = focused

\* What an autorun's body does with what it read, once it returns.
RunEffect(r, f) ==
  CASE r = contextKeyAutorun ->
         setContextKey(f[1][2]) /\ UNCHANGED <<statusItems, currentItemIds, optionVars>>
    [] r = sparkleAutorun ->
         updateSparkleItem(f[1][2]) /\ UNCHANGED <<contextKey, optionVars>>
    [] r = optionsAutorun ->
         updateEditorOptions(f) /\ UNCHANGED <<contextKey, statusItems, currentItemIds>>
    [] OTHER -> UNCHANGED consumerVars

Init ==
  /\ Engine!Init
  /\ contextKey = None
  /\ statusItems = 0
  /\ currentItemIds = 0
  /\ changeSummary = [k \in {} |-> FALSE]
  /\ modifiedOpts = createdOptions.modified
  /\ originalOpts = createdOptions.original

\* An autorun's function returns after its reads.
ReactionDone ==
  /\ Engine!EvalReactionDone
  /\ RunEffect(Engine!Top.node, Engine!Top.reads)

\* (mutant) dispose() that leaves the items in the view model.
DisposeSparkleKeepingItems ==
  /\ Engine!Dispose(sparkleAutorun)
  /\ UNCHANGED consumerVars

\* DiagnosticCellStatusBarItem.dispose(): super.dispose() disposes the
\* autorun, then the items it created are removed.
DisposeSparkle ==
  /\ Engine!Dispose(sparkleAutorun)
  /\ statusItems' = statusItems - currentItemIds
  /\ UNCHANGED <<contextKey, currentItemIds, optionVars>>

Next ==
  \/ (Engine!Begin \/ Engine!Commit \/ Engine!Step) /\ UNCHANGED consumerVars
  \/ \E c \in Cells \ {editorOptions} : \E v \in CellValues[c] :
       Engine!Set(c, v) /\ UNCHANGED consumerVars
  \/ \E ks \in SUBSET OptionKeys \ {{}} : \E changed \in [ks -> BOOLEAN] :
       diffUpdateOptions(changed)
  \/ \E r \in Reactions : Engine!Schedule(r) /\ UNCHANGED consumerVars
  \/ ReactionDone
  \/ \E r \in {logD, logB, contextKeyAutorun} :
       Engine!Dispose(r) /\ UNCHANGED consumerVars
  \/ DisposeSparkle

Spec == Init /\ [][Next]_vars

-----------------------------------------------------------------------------
(* Properties                                                              *)

TypeOK ==
  /\ Engine!TypeOK
  /\ contextKey \in BOOLEAN \cup {None}
  /\ statusItems \in Nat /\ currentItemIds \in 0..1
  /\ DOMAIN changeSummary \subseteq OptionKeys
  /\ modifiedOpts \in [OptionKeys -> BOOLEAN]
  /\ originalOpts \in [OptionKeys \cup {"glyphMargin"} -> BOOLEAN]

UpToDateIsCurrent == Engine!UpToDateIsCurrent
RecomputedAtMostOncePerTransaction == Engine!RecomputedAtMostOncePerTransaction
ImplementsObservableValues == Engine!ImplementsObservableValues

\* Once the writes have settled, the cell's status bar shows a sparkle
\* item exactly when the cell's execution error has a location; and after
\* the contribution is disposed it shows none, whatever errors come later.
SparkleItemTracksError ==
  /\ state[sparkleAutorun] = "disposed" => statusItems = 0
  /\ Engine!Quiescent /\ state[sparkleAutorun] # "disposed" =>
       statusItems = (IF value[excecutionError] = "location" THEN 1 ELSE 0)

\* Updating the inner editors with only what changed since the last run
\* leaves them as they would be if created afresh from the current
\* options: once the writes have settled, both editors have every option
\* the diff editor's updateOptions calls set, however many calls one
\* transaction batched, and the original editor's side-by-side dependent
\* options follow renderSideBySide.
OptionsReachEditors ==
  Engine!Quiescent =>
    LET current == value[editorOptions]
    IN /\ modifiedOpts = adjustOptionsForRightHandSide(current, current)
       /\ originalOpts = adjustOptionsForLeftHandSide(current, current,
                                                      value[renderSideBySide])

=============================================================================
