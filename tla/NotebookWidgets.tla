--------------------------- MODULE NotebookWidgets ---------------------------
(***************************************************************************)
(* Notebook editor widget borrowing (NotebookEditorWidgetService in        *)
(* contrib/notebook/browser/services/notebookEditorServiceImpl.ts).        *)
(*                                                                         *)
(* Widgets are expensive, so the service keeps them per editor group and   *)
(* resource (_borrowableEditors) and lends them out: retrieveWidget hands a *)
(* borrower a value that yields the widget only while the widget's token is *)
(* the one it was lent under.  Re-borrowing bumps the token; closing the    *)
(* notebook editor or removing its group clears the token and disposes the  *)
(* widget; moving the editor to another group of the same window moves the  *)
(* widget with it.  The editor group service fires onWillMoveEditor on the  *)
(* source group and then onDidCloseEditor there, synchronously.             *)
(*                                                                         *)
(* The service also keeps the interactiveWindowOpen context key from the   *)
(* editor service's onDidEditorsChange: it is set on an EDITOR_OPEN when   *)
(* an interactive editor is among the open editors, and cleared on an      *)
(* EDITOR_CLOSE when none is left.  Interactive is the interactive         *)
(* window's editor type.                                                   *)
(***************************************************************************)
EXTENDS Naturals, FiniteSets, Sequences, SequencesExt

CONSTANTS
  Groups,      \* editor group ids
  WindowOf,    \* the window each group lives in (editorGroupService.getPart)
  Resources,   \* notebook resources
  Types,       \* notebook editor type ids (input.typeId)
  Interactive, \* the interactive window's type (editorId 'interactive')
  MaxWidgets,  \* bound on widgets created by createWidget
  MaxTokens,   \* bound on _tokenPool
  None         \* undefined

Widgets == 1..MaxWidgets
Inputs == Resources \X Types

ASSUME DOMAIN WindowOf = Groups
ASSUME MaxWidgets \in Nat /\ MaxTokens \in Nat
ASSUME Interactive \in Types

VARIABLES
  live,        \* groups that exist (onDidAddGroup / onDidRemoveGroup)
  opened,      \* notebook editor inputs open in each group
  borrowable,  \* _borrowableEditors: group -> resource -> widgets, in order
  wtype,       \* editorType recorded with each created widget
  token,       \* the token of each widget's entry, or None (undefined)
  disposed,    \* widgets that have been disposed (_disposeWidget)
  nextWidget,  \* number of widgets created so far
  tokenPool,   \* _tokenPool
  borrows,     \* borrow values retrieveWidget handed out: [w, tok]
  peeks,       \* borrow values from retrieveExistingWidget(s): [w, tok]
  interactiveWindowOpen \* the InteractiveWindowOpen context key

vars == <<live, opened, borrowable, wtype, token, disposed, nextWidget,
          tokenPool, borrows, peeks, interactiveWindowOpen>>

Borrow == [w : Widgets, tok : 1..MaxTokens]

\* The widget a borrow value yields (its `value` getter), or None.
Value(b) == IF token[b.w] = b.tok THEN b.w ELSE None

\* Index of the first widget of `type` in the list `ws`, 0 if none
\* (findIndex(widget => widget.editorType === input.typeId)).
IndexOfType(ws, type) ==
  LET is == {i \in 1..Len(ws) : wtype[ws[i]] = type}
  IN IF is = {} THEN 0 ELSE CHOOSE i \in is : \A j \in is : i <= j

\* The widgets held for a group, over all resources.
Held(g) == UNION {ToSet(borrowable[g][r]) : r \in Resources}

\* _disposeWidget: each widget is hidden, disposed and its DOM node removed.
_disposeWidget(ws) == disposed' = disposed \cup ws

\* createWidget: a new NotebookEditorWidget w, of the input's editor type,
\* from a child instantiation service of the group's services.
createWidget(w, type) ==
  /\ nextWidget' = w
  /\ wtype' = [wtype EXCEPT ![w] = type]

-----------------------------------------------------------------------------
(* The group listeners installed by onNewGroup.                            *)

\* (mutant) the closed editor's widget looked up by resource only.
onDidCloseEditorAnyType(g, inp) ==
  LET r  == inp[1]
      ws == borrowable[g][r]
  IN IF ws = <<>>
     THEN UNCHANGED <<borrowable, token, disposed>>
     ELSE /\ borrowable' = [borrowable EXCEPT ![g][r] = Tail(ws)]
          /\ token' = [token EXCEPT ![Head(ws)] = None]
          /\ _disposeWidget({Head(ws)})

\* onDidCloseEditor: take the widget of the closed input out of the group's
\* list, clear its token (so borrowers see undefined), dispose it.
onDidCloseEditor(g, inp) ==
  LET r  == inp[1]
      ws == borrowable[g][r]
      i  == IndexOfType(ws, inp[2])
  IN IF i = 0
     THEN UNCHANGED <<borrowable, token, disposed>>
     ELSE /\ borrowable' = [borrowable EXCEPT ![g][r] = RemoveAt(ws, i)]
          /\ token' = [token EXCEPT ![ws[i]] = None]
          /\ _disposeWidget({ws[i]})

\* (mutant) the target check left out: a second widget of the same type is
\* pushed onto the target's list.
allowWidgetMoveNoTargetCheck(inp, g, t) ==
  LET r  == inp[1]
      src == borrowable[g][r]
      i  == IndexOfType(src, inp[2])
  IN IF WindowOf[g] # WindowOf[t] \/ i = 0
     THEN borrowable
     ELSE [borrowable EXCEPT ![g][r] = RemoveAt(src, i),
                             ![t][r] = Append(borrowable[t][r], src[i])]

\* (mutant) the widget pushed at the target but not spliced out at the source.
allowWidgetMoveNoSplice(inp, g, t) ==
  LET r  == inp[1]
      src == borrowable[g][r]
      i  == IndexOfType(src, inp[2])
  IN IF \/ WindowOf[g] # WindowOf[t]
        \/ IndexOfType(borrowable[t][r], inp[2]) # 0
        \/ i = 0
     THEN borrowable
     ELSE [borrowable EXCEPT ![t][r] = Append(borrowable[t][r], src[i])]

\* onWillMoveEditor -> _allowWidgetMove(input, source, target): only within
\* one window, only when the target has no widget of that type yet; no
\* source widget throws "no widget at source group" (state untouched, the
\* emitter reports it and the move goes on).  Otherwise the widget leaves
\* the source list and is appended to the target's.
allowWidgetMove(inp, g, t) ==
  LET r  == inp[1]
      src == borrowable[g][r]
      i  == IndexOfType(src, inp[2])
  IN IF \/ WindowOf[g] # WindowOf[t]
        \/ IndexOfType(borrowable[t][r], inp[2]) # 0
        \/ i = 0
     THEN borrowable
     ELSE [borrowable EXCEPT ![g][r] = RemoveAt(src, i),
                             ![t][r] = Append(borrowable[t][r], src[i])]

\* editorService.editors.find(editor => editor.editorId === 'interactive')
\* over the open editors op.
interactiveEditorOpen(op) == \E g \in Groups : \E inp \in op[g] : inp[2] = Interactive

\* (mutant) an EDITOR_CLOSE clears the key without looking for another
\* interactive editor.
keyAfterEventCloseClears(kind, key, present) ==
  CASE kind = "open" /\ ~key /\ present -> TRUE
    [] kind = "close" /\ key -> FALSE
    [] OTHER -> key

\* The onDidEditorsChange listener: the key's value after an event of the
\* given kind, when `present` says whether an interactive editor is open.
keyAfterEvent(kind, key, present) ==
  CASE kind = "open" /\ ~key /\ present -> TRUE
    [] kind = "close" /\ key /\ ~present -> FALSE
    [] OTHER -> key

\* The listener runs on an event of the given kind, after its change.
onDidEditorsChange(kind) ==
  interactiveWindowOpen' =
    keyAfterEvent(kind, interactiveWindowOpen, interactiveEditorOpen(opened'))

-----------------------------------------------------------------------------

Init ==
  /\ live \in SUBSET Groups \ {{}}
  /\ opened = [g \in Groups |-> {}]
  /\ borrowable = [g \in Groups |-> [r \in Resources |-> <<>>]]
  /\ wtype = [w \in Widgets |-> CHOOSE ty \in Types : TRUE]
  /\ token = [w \in Widgets |-> None]
  /\ disposed = {}
  /\ nextWidget = 0
  /\ tokenPool = 1
  /\ borrows = {}
  /\ peeks = {}
  /\ interactiveWindowOpen = FALSE

\* A notebook editor is opened in a group (the widget comes later, when the
\* editor pane asks for one).
OpenEditor(g, inp) ==
  /\ g \in live
  /\ inp \notin opened[g]
  /\ opened' = [opened EXCEPT ![g] = @ \cup {inp}]
  /\ onDidEditorsChange("open")
  /\ UNCHANGED <<live, borrowable, wtype, token, disposed, nextWidget,
                 tokenPool, borrows, peeks>>

\* (mutant) ++_tokenPool in place of _tokenPool++.
RetrieveWidgetPreIncrement(g, inp) ==
  LET r  == inp[1]
      ws == borrowable[g][r]
      i  == IndexOfType(ws, inp[2])
      tk == tokenPool + 1
  IN
  /\ inp \in opened[g]
  /\ tokenPool < MaxTokens
  /\ tokenPool' = tokenPool + 1
  /\ IF i # 0
     THEN /\ token' = [token EXCEPT ![ws[i]] = tk]
          /\ borrows' = borrows \cup {[w |-> ws[i], tok |-> tk]}
          /\ UNCHANGED <<borrowable, wtype, nextWidget>>
     ELSE LET w == nextWidget + 1 IN
          /\ nextWidget < MaxWidgets
          /\ createWidget(w, inp[2])
          /\ token' = [token EXCEPT ![w] = tk]
          /\ borrowable' = [borrowable EXCEPT ![g][r] = Append(ws, w)]
          /\ borrows' = borrows \cup {[w |-> w, tok |-> tk]}
  /\ UNCHANGED <<live, opened, disposed, peeks, interactiveWindowOpen>>

\* retrieveWidget(accessor, groupId, input): reuse the group's widget for
\* the resource and type under a fresh token, or create a new one and
\* append it to the group's list.
RetrieveWidget(g, inp) ==
  LET r  == inp[1]
      ws == borrowable[g][r]
      i  == IndexOfType(ws, inp[2])
      tk == tokenPool
  IN
  /\ inp \in opened[g]
  /\ tokenPool < MaxTokens
  /\ tokenPool' = tokenPool + 1
  /\ IF i # 0
     THEN /\ token' = [token EXCEPT ![ws[i]] = tk]
          /\ borrows' = borrows \cup {[w |-> ws[i], tok |-> tk]}
          /\ UNCHANGED <<borrowable, wtype, nextWidget>>
     ELSE LET w == nextWidget + 1 IN
          /\ nextWidget < MaxWidgets
          /\ createWidget(w, inp[2])
          /\ token' = [token EXCEPT ![w] = tk]
          /\ borrowable' = [borrowable EXCEPT ![g][r] = Append(ws, w)]
          /\ borrows' = borrows \cup {[w |-> w, tok |-> tk]}
  /\ UNCHANGED <<live, opened, disposed, peeks, interactiveWindowOpen>>

\* The user closes a notebook editor: the group fires onDidCloseEditor.
CloseEditor(g, inp) ==
  /\ g \in live
  /\ inp \in opened[g]
  /\ opened' = [opened EXCEPT ![g] = @ \ {inp}]
  /\ onDidCloseEditor(g, inp)
  /\ onDidEditorsChange("close")
  /\ UNCHANGED <<live, wtype, nextWidget, tokenPool, borrows, peeks>>

\* The user moves a notebook editor from group g to group t: onWillMoveEditor
\* on g, the editor opens in t, and g fires onDidCloseEditor for it.
MoveEditor(g, t, inp) ==
  /\ g \in live /\ t \in live /\ g # t
  /\ inp \in opened[g]
  /\ opened' = [opened EXCEPT ![g] = @ \ {inp}, ![t] = @ \cup {inp}]
  /\ LET moved == allowWidgetMove(inp, g, t)
         r     == inp[1]
         i     == IndexOfType(moved[g][r], inp[2])
         w     == moved[g][r][i]
     IN IF i = 0
        THEN /\ borrowable' = moved
             /\ UNCHANGED <<token, disposed>>
        ELSE /\ borrowable' = [moved EXCEPT ![g][r] = RemoveAt(@, i)]
             /\ token' = [token EXCEPT ![w] = None]
             /\ _disposeWidget({w})
  /\ LET present == interactiveEditorOpen(opened')
     IN interactiveWindowOpen' =
          keyAfterEvent("close", keyAfterEvent("open", interactiveWindowOpen, present), present)
  /\ UNCHANGED <<live, wtype, nextWidget, tokenPool, borrows, peeks>>

\* onDidAddGroup: a new group gets its listeners (onNewGroup).
AddGroup(g) ==
  /\ g \notin live
  /\ live' = live \cup {g}
  /\ UNCHANGED <<opened, borrowable, wtype, token, disposed, nextWidget,
                 tokenPool, borrows, peeks, interactiveWindowOpen>>

\* (mutant) group removal that disposes the widgets but leaves their tokens.
RemoveGroupKeepingTokens(g) ==
  /\ g \in live
  /\ live' = live \ {g}
  /\ opened' = [opened EXCEPT ![g] = {}]
  /\ borrowable' = [borrowable EXCEPT ![g] = [r \in Resources |-> <<>>]]
  /\ _disposeWidget(Held(g))
  /\ onDidEditorsChange("close")
  /\ UNCHANGED <<token, wtype, nextWidget, tokenPool, borrows, peeks>>

\* onDidRemoveGroup: the group's listeners are disposed, its widget map is
\* deleted, and every widget in it loses its token and is disposed.
RemoveGroup(g) ==
  /\ g \in live
  /\ live' = live \ {g}
  /\ opened' = [opened EXCEPT ![g] = {}]
  /\ borrowable' = [borrowable EXCEPT ![g] = [r \in Resources |-> <<>>]]
  /\ token' = [w \in Widgets |-> IF w \in Held(g) THEN None ELSE token[w]]
  /\ _disposeWidget(Held(g))
  /\ onDidEditorsChange("close")
  /\ UNCHANGED <<wtype, nextWidget, tokenPool, borrows, peeks>>

\* retrieveExistingWidgetFromURI(resource): a borrow value for the first
\* widget of the resource in the first group that has one, under the
\* widget's current token.
RetrieveExistingWidgetFromURI(r) ==
  /\ \E g \in Groups : borrowable[g][r] # <<>>
  /\ \E g \in Groups :
       /\ borrowable[g][r] # <<>>
       /\ LET w == Head(borrowable[g][r]) IN
            peeks' = peeks \cup {[w |-> w, tok |-> token[w]]}
  /\ UNCHANGED <<live, opened, borrowable, wtype, token, disposed,
                 nextWidget, tokenPool, borrows, interactiveWindowOpen>>

\* retrieveAllExistingWidgets: borrow values for every widget held.
RetrieveAllExistingWidgets ==
  /\ peeks' = peeks \cup {[w |-> w, tok |-> token[w]] :
                            w \in UNION {Held(g) : g \in Groups}}
  /\ UNCHANGED <<live, opened, borrowable, wtype, token, disposed,
                 nextWidget, tokenPool, borrows, interactiveWindowOpen>>

Next ==
  \/ \E g \in Groups, inp \in Inputs :
        \/ OpenEditor(g, inp)
        \/ RetrieveWidget(g, inp)
        \/ CloseEditor(g, inp)
        \/ \E t \in Groups : MoveEditor(g, t, inp)
  \/ \E g \in Groups : AddGroup(g) \/ RemoveGroup(g)
  \/ \E r \in Resources : RetrieveExistingWidgetFromURI(r)
  \/ RetrieveAllExistingWidgets

Spec == Init /\ [][Next]_vars

-----------------------------------------------------------------------------
(* Properties                                                              *)

\* Every (group, resource, position) at which widget w is held.
Places(w) == {<<g, r, i>> \in Groups \X Resources \X Widgets :
                i \in 1..Len(borrowable[g][r]) /\ borrowable[g][r][i] = w}

TypeOK ==
  /\ live \subseteq Groups
  /\ opened \in [Groups -> SUBSET Inputs]
  /\ \A g \in Groups, r \in Resources :
        borrowable[g][r] \in Seq(1..nextWidget)
  /\ wtype \in [Widgets -> Types]
  /\ token \in [Widgets -> 1..(tokenPool - 1) \cup {None}]
  /\ disposed \subseteq 1..nextWidget
  /\ nextWidget \in 0..MaxWidgets
  /\ tokenPool \in 1..MaxTokens
  /\ borrows \subseteq Borrow
  /\ peeks \subseteq Borrow
  /\ interactiveWindowOpen \in BOOLEAN

\* Widget accounting across close, move and group removal: every widget
\* createWidget made is either disposed or held at exactly one place of
\* _borrowableEditors, and a held widget has a token (retrieveExisting-
\* Widget(s) lend it under `widget.token!`).
WidgetHeldOnceOrDisposed ==
  \A w \in 1..nextWidget :
     /\ (w \in disposed) = (Places(w) = {})
     /\ Cardinality(Places(w)) <= 1
     /\ Places(w) # {} => token[w] # None

\* A group never holds two widgets of one editor type for one resource:
\* retrieveWidget would only ever find the first, and _allowWidgetMove
\* must not add a second one at the target.
NoDuplicateType ==
  \A g \in Groups, r \in Resources :
     \A i, j \in 1..Len(borrowable[g][r]) :
        i # j => wtype[borrowable[g][r][i]] # wtype[borrowable[g][r][j]]

\* The widgets a group holds belong to notebook editors open in that
\* (live) group: closing, moving away from, or removing the group gives
\* the widget up.
WidgetBelongsToOpenEditor ==
  \A g \in Groups, r \in Resources :
     \A i \in 1..Len(borrowable[g][r]) :
        g \in live /\ <<r, wtype[borrowable[g][r][i]]>> \in opened[g]

\* No borrow value, from retrieveWidget or from retrieveExistingWidget(s),
\* ever yields a disposed widget: the token is cleared before
\* _disposeWidget on close and on group removal.
BorrowNeverYieldsDisposed ==
  \A b \in borrows \cup peeks : Value(b) # None => b.w \notin disposed

\* The InteractiveWindowOpen key is true exactly while an interactive
\* editor is open in some group, across opening one in several groups,
\* closing one of them, moving one between groups (open in the target,
\* then close in the source) and removing a group with its editors.
InteractiveKeyTracksEditors ==
  interactiveWindowOpen = interactiveEditorOpen(opened)

=============================================================================
