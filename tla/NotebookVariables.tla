-------------------------- MODULE NotebookVariables --------------------------
(***************************************************************************)
(* The NotebookVariables contribution (contrib/notebook/browser/contrib/   *)
(* notebookVariables/notebookVariables.ts).                                *)
(*                                                                         *)
(* It listens to active editor changes and notebook executions until the   *)
(* Notebook Variables view is registered: when the notebook.variablesView  *)
(* setting is on and the notebook concerned (the executed one, or the      *)
(* active editor's) has a selected kernel with a variable provider, it    *)
(* registers the view in the debug view container, if that container      *)
(* exists yet, sets the NOTEBOOK_VARIABLE_VIEW_ENABLED context key and     *)
(* disposes those listeners.  Its configuration listener stays: turning   *)
(* the setting off clears the key, turning it on sets it again once the   *)
(* view is registered, and otherwise tries to register it.                 *)
(***************************************************************************)
EXTENDS Naturals

CONSTANTS
  Notebooks,  \* notebook documents
  NoEditor,   \* the active editor pane is not a notebook editor
  NoNotebook  \* handleInitEvent() called without a notebook

VARIABLES
  setting,        \* notebook.variablesView
  activePane,         \* the notebook of the active editor pane, or NoEditor
  provider,       \* notebook -> its selected kernel has a variable provider
  debugContainer, \* the debug view container is registered
  listening,      \* the editor and execution listeners are not disposed
  contributed,    \* the contribution is not disposed
  initialized,    \* this.initialized
  viewEnabled,    \* the NOTEBOOK_VARIABLE_VIEW_ENABLED context key
  registered      \* times the Notebook Variables view was registered

nvVars == <<setting, activePane, provider, debugContainer, listening, contributed,
            initialized, viewEnabled, registered>>

\* hasVariableProvider(notebookUri?): the given notebook's, or the active
\* notebook editor's (p), selected kernel has a variable provider.
hasVariableProvider(n, p) ==
  IF n # NoNotebook THEN provider[n]
  ELSE p # NoEditor /\ provider[p]

\* initializeView(): registers the view in the debug view container and
\* succeeds when that container is registered.
initializeView == debugContainer

\* handleInitEvent(notebook?), with the setting at s and p the active
\* editor pane it reads: register the view (initializeView is called last,
\* so only then is it registered), set the key and dispose the listeners,
\* the first time the conditions hold.
handleInitEvent(s, n, p) ==
  IF /\ s
     /\ n # NoNotebook \/ p # NoEditor
     /\ hasVariableProvider(n, p)
     /\ ~initialized
     /\ initializeView
  THEN /\ registered' = registered + 1
       /\ viewEnabled' = TRUE
       /\ initialized' = TRUE
       /\ listening' = FALSE
  ELSE UNCHANGED <<registered, viewEnabled, initialized, listening>>

\* (mutant) re-enabling the setting does not restore the key.
handleConfigChangeNoRestore(s) ==
  IF ~s THEN /\ viewEnabled' = FALSE
             /\ UNCHANGED <<registered, initialized, listening>>
  ELSE handleInitEvent(s, NoNotebook, activePane)

\* handleConfigChange(e) for an event that affects notebook.variablesView,
\* whose new value is s.
handleConfigChange(s) ==
  CASE ~s -> /\ viewEnabled' = FALSE
             /\ UNCHANGED <<registered, initialized, listening>>
    [] initialized -> /\ viewEnabled' = TRUE
                      /\ UNCHANGED <<registered, initialized, listening>>
    [] OTHER -> handleInitEvent(s, NoNotebook, activePane)

-----------------------------------------------------------------------------

\* The constructor: the key is bound (false), the listeners registered.
Init ==
  /\ setting \in BOOLEAN
  /\ activePane \in Notebooks \cup {NoEditor}
  /\ provider \in [Notebooks -> BOOLEAN]
  /\ debugContainer \in BOOLEAN
  /\ listening = TRUE
  /\ contributed = TRUE
  /\ initialized = FALSE
  /\ viewEnabled = FALSE
  /\ registered = 0

\* editorService.onDidActiveEditorChange: the listener sees the new pane.
ActiveEditorChange(a) ==
  /\ a # activePane
  /\ activePane' = a
  /\ IF listening THEN handleInitEvent(setting, NoNotebook, a)
     ELSE UNCHANGED <<registered, viewEnabled, initialized, listening>>
  /\ UNCHANGED <<setting, provider, debugContainer, contributed>>

\* notebookExecutionStateService.onDidChangeExecution for notebook n.
ExecutionChange(n) ==
  /\ listening
  /\ handleInitEvent(setting, n, activePane)
  /\ UNCHANGED <<setting, activePane, provider, debugContainer, contributed>>

\* configurationService.onDidChangeConfiguration for the setting.
ConfigChange ==
  /\ setting' = ~setting
  /\ IF contributed THEN handleConfigChange(setting')
     ELSE UNCHANGED <<registered, viewEnabled, initialized, listening>>
  /\ UNCHANGED <<activePane, provider, debugContainer, contributed>>

\* Another kernel is selected for notebook n: nothing listens to it.
KernelChange(n) ==
  /\ provider' = [provider EXCEPT ![n] = ~@]
  /\ UNCHANGED <<setting, activePane, debugContainer, listening, contributed,
                 initialized, viewEnabled, registered>>

\* The debug contribution registers its view container.
RegisterDebugContainer ==
  /\ ~debugContainer
  /\ debugContainer' = TRUE
  /\ UNCHANGED <<setting, activePane, provider, listening, contributed,
                 initialized, viewEnabled, registered>>

\* dispose(): the listeners and the configuration listener are disposed.
Dispose ==
  /\ contributed
  /\ contributed' = FALSE
  /\ listening' = FALSE
  /\ UNCHANGED <<setting, activePane, provider, debugContainer, initialized,
                 viewEnabled, registered>>

Next ==
  \/ \E a \in Notebooks \cup {NoEditor} : ActiveEditorChange(a)
  \/ \E n \in Notebooks : ExecutionChange(n)
  \/ ConfigChange
  \/ \E n \in Notebooks : KernelChange(n)
  \/ RegisterDebugContainer
  \/ Dispose

Spec == Init /\ [][Next]_nvVars

-----------------------------------------------------------------------------

NVTypeOK ==
  /\ setting \in BOOLEAN /\ activePane \in Notebooks \cup {NoEditor}
  /\ provider \in [Notebooks -> BOOLEAN] /\ debugContainer \in BOOLEAN
  /\ listening \in BOOLEAN /\ contributed \in BOOLEAN
  /\ initialized \in BOOLEAN /\ viewEnabled \in BOOLEAN
  /\ registered \in 0..2

\* While the contribution lives, the view is registered at most once, and
\* the NOTEBOOK_VARIABLE_VIEW_ENABLED key is set exactly when the setting
\* is on and the view is registered, however the setting is toggled
\* before and after registration, and although the editor and execution
\* listeners are gone once the view is registered.
ViewKeyTracksSettingAndRegistration ==
  /\ registered <= 1
  /\ initialized <=> registered = 1
  /\ contributed => (viewEnabled <=> setting /\ initialized)

=============================================================================
