-------------------------- MODULE AccessibilityStatus --------------------------
(***************************************************************************)
(* The screen reader status entry and prompt (AccessibilityStatus in       *)
(* contrib/accessibility/browser/accessibilityStatus.ts).                  *)
(*                                                                         *)
(* When the screen reader optimisation turns on under the "auto" setting,  *)
(* the contribution prompts once, 100 ms later (setTimeout); the status    *)
(* bar entry, shown while optimised, runs a command that prompts again.    *)
(* Every mode change closes the prompt held in screenReaderNotification,  *)
(* and each prompt's onDidClose (Event.once) sets that field to null.      *)
(***************************************************************************)
EXTENDS Naturals

CONSTANTS
  MaxPrompts,  \* bound on notifications shown
  None         \* null

Supports == {"auto", "on", "off"}
Prompts == 1..MaxPrompts

VARIABLES
  support,     \* the editor.accessibilitySupport setting
  detected,    \* the OS reports a screen reader
  prompted,    \* promptedScreenReader
  timer,       \* the setTimeout(showScreenReaderNotification, 100) is pending
  shown,       \* notifications prompted so far
  open,        \* prompts still open
  current,     \* screenReaderNotification
  entry        \* screenReaderModeElement holds a status bar entry

vars == <<support, detected, prompted, timer, shown, open, current, entry>>

\* accessibilityService.isScreenReaderOptimized().
Optimized(s, d) == s = "on" \/ (s = "auto" /\ d)

\* updateScreenReaderModeElement(visible): add the entry once, or clear it.
updateScreenReaderModeElement(visible) == entry' = visible

\* Close notification h: Event.once(onDidClose) sets the field to null,
\* whichever notification it holds.
closePrompt(h) ==
  /\ open' = open \ {h}
  /\ current' = None

\* onScreenReaderModeChange, with the setting and detection as they now are.
onScreenReaderModeChange(s, d) ==
  /\ IF Optimized(s, d) /\ s = "auto" /\ ~prompted
     THEN prompted' = TRUE /\ timer' = TRUE
     ELSE UNCHANGED <<prompted, timer>>
  /\ IF current # None THEN closePrompt(current) ELSE UNCHANGED <<open, current>>
  /\ updateScreenReaderModeElement(Optimized(s, d))

\* (mutant) the handle remembered from before the count moved on.
showScreenReaderNotificationStaleId ==
  /\ shown < MaxPrompts
  /\ shown' = shown + 1
  /\ open' = open \cup {shown}
  /\ current' = shown

\* showScreenReaderNotification: prompt and remember the new handle.
showScreenReaderNotification ==
  /\ shown < MaxPrompts
  /\ shown' = shown + 1
  /\ open' = open \cup {shown + 1}
  /\ current' = shown + 1

-----------------------------------------------------------------------------

\* The constructor: the entry reflects the current mode; nothing prompted.
Init ==
  /\ support \in Supports
  /\ detected \in BOOLEAN
  /\ prompted = FALSE
  /\ timer = FALSE
  /\ shown = 0
  /\ open = {}
  /\ current = None
  /\ entry = Optimized(support, detected)

\* The OS screen reader comes or goes: onDidChangeScreenReaderOptimized
\* fires when the optimisation changes.
ChangeDetected ==
  /\ detected' = ~detected
  /\ IF Optimized(support, detected') # Optimized(support, detected)
     THEN onScreenReaderModeChange(support, detected')
     ELSE UNCHANGED <<prompted, timer, open, current, entry>>
  /\ UNCHANGED <<support, shown>>

\* editor.accessibilitySupport changes (the user, or the write a Yes/No
\* answer makes): the configuration listener runs the handler.
ChangeSupport(s) ==
  /\ s # support
  /\ support' = s
  /\ onScreenReaderModeChange(s, detected)
  /\ UNCHANGED <<detected, shown>>

\* The 100 ms timer fires.
FireTimer ==
  /\ timer
  /\ timer' = FALSE
  /\ showScreenReaderNotification
  /\ UNCHANGED <<support, detected, prompted, entry>>

\* The status bar entry is clicked: showEditorScreenReaderNotification.
ShowCommand ==
  /\ entry
  /\ showScreenReaderNotification
  /\ UNCHANGED <<support, detected, prompted, timer, entry>>

\* The user dismisses prompt h, or answers it (which closes it; the
\* setting write arrives later as ChangeSupport).
ClosePrompt(h) ==
  /\ h \in open
  /\ closePrompt(h)
  /\ UNCHANGED <<support, detected, prompted, timer, shown, entry>>

Next ==
  \/ ChangeDetected
  \/ \E s \in Supports : ChangeSupport(s)
  \/ FireTimer
  \/ ShowCommand
  \/ \E h \in Prompts : ClosePrompt(h)

Spec == Init /\ [][Next]_vars

-----------------------------------------------------------------------------
(* Properties                                                              *)

TypeOK ==
  /\ support \in Supports
  /\ detected \in BOOLEAN
  /\ prompted \in BOOLEAN
  /\ timer \in BOOLEAN
  /\ shown \in 0..MaxPrompts
  /\ open \subseteq 1..shown
  /\ current \in 1..shown \cup {None}
  /\ entry \in BOOLEAN

=============================================================================
