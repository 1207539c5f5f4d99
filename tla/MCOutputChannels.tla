------------------------- MODULE MCOutputChannels -------------------------
(* Model-checking instance of OutputChannels: two extension channels, one *)
(* core log channel, two log levels, and the second extension channel     *)
(* remembered in workspace storage from the previous session.            *)
(*                                                                         *)
(* The workbench run composes it with two other workbench parts that     *)
(* decide what a view shows: the NotebookVariables contribution (one       *)
(* notebook) and the notebook editor widget borrowing of NotebookWidgets   *)
(* (three groups, two of them in the main window, one resource, two editor *)
(* types, three widgets and four tokens).  The three share no state, so a  *)
(* property of one holds in every state of the composition exactly when it *)
(* holds in every state of its own.  One of them, `turn`, chosen at the    *)
(* start, takes every step while the others keep an initial state: TLC     *)
(* reaches every state of each without their product.  A part that is not *)
(* taking the steps starts in one initial state.                           *)
EXTENDS OutputChannels

CONSTANTS L1, Notebooks, NoEditor, NoNotebook,
          G1, G2, G3, R1, T1, T2, Groups, WindowOf, Resources, Types,
          Interactive, MaxWidgets, MaxTokens

MCLogChannels == {L1}
MCLevels == {1, 2}
MCStoredId == 2

VARIABLES setting, activePane, provider, debugContainer, listening,
          contributed, initialized, viewEnabled, registered

nvVars == <<setting, activePane, provider, debugContainer, listening,
            contributed, initialized, viewEnabled, registered>>

Variables == INSTANCE NotebookVariables

VARIABLES live, opened, borrowable, wtype, token, wDisposed, nextWidget,
          tokenPool, borrows, peeks, interactiveWindowOpen

widgetVars == <<live, opened, borrowable, wtype, token, wDisposed, nextWidget,
                tokenPool, borrows, peeks, interactiveWindowOpen>>

Widgets == INSTANCE NotebookWidgets WITH disposed <- wDisposed

\* Three groups: G1 and G2 share the main window, G3 is in an auxiliary
\* window, so moves inside one window and across windows both happen.
MCGroups == {G1, G2, G3}
MCWindowOf == (G1 :> 1) @@ (G2 :> 1) @@ (G3 :> 2)
MCResources == {R1}
MCTypes == {T1, T2}

VARIABLE turn

WorkbenchInit ==
  /\ turn \in 1..3
  /\ Init /\ Variables!Init /\ Widgets!Init
  /\ turn # 1 => ~viewVisible /\ \A l \in LogChannels : logLevel[l] = 1 /\ defaultLevel[l] = 1
  /\ turn # 2 => ~setting /\ activePane = NoEditor /\ ~debugContainer
                 /\ \A n \in Notebooks : ~provider[n]
  /\ turn # 3 => live = MCGroups

WorkbenchSpec ==
  /\ WorkbenchInit
  /\ [][/\ UNCHANGED turn
        /\ \/ turn = 1 /\ Next /\ UNCHANGED <<nvVars, widgetVars>>
           \/ turn = 2 /\ Variables!Next /\ UNCHANGED <<vars, widgetVars>>
           \/ turn = 3 /\ Widgets!Next /\ UNCHANGED <<vars, nvVars>>
       ]_<<vars, nvVars, widgetVars, turn>>

WorkbenchTypeOK == TypeOK /\ Variables!NVTypeOK /\ Widgets!TypeOK

\* The NOTEBOOK_VARIABLE_VIEW_ENABLED key follows the setting once the
\* Notebook Variables view is registered, and the view is registered at
\* most once (NotebookVariables' ViewKeyTracksSettingAndRegistration).
ViewKeyTracksSettingAndRegistration == Variables!ViewKeyTracksSettingAndRegistration

\* See NotebookWidgets: every widget is held by exactly one borrowable
\* list entry or disposed.
WidgetHeldOnceOrDisposed == Widgets!WidgetHeldOnceOrDisposed

\* See NotebookWidgets: no group holds two widgets of one editor type.
NoDuplicateType == Widgets!NoDuplicateType

\* See NotebookWidgets: a held widget belongs to an editor open in its group.
WidgetBelongsToOpenEditor == Widgets!WidgetBelongsToOpenEditor

\* See NotebookWidgets: no borrow value yields a disposed widget.
BorrowNeverYieldsDisposed == Widgets!BorrowNeverYieldsDisposed

\* See NotebookWidgets: interactiveWindowOpen is true exactly while an
\* interactive editor is open.
InteractiveKeyTracksEditors == Widgets!InteractiveKeyTracksEditors
=============================================================================
