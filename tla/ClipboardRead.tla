---------------------------- MODULE ClipboardRead ----------------------------
(***************************************************************************)
(* BrowserClipboardService.readText() without a type                       *)
(* (workbench/services/clipboard/browser/clipboardService.ts).             *)
(*                                                                         *)
(* The call awaits navigator.clipboard.readText().  When the browser      *)
(* refuses, it resolves "" under extension tests, and otherwise prompts:  *)
(* Retry disposes the onDidClose listener and resolves with what a new     *)
(* readText() gives; Learn More, or closing the notification, lets the     *)
(* listener resolve "".  The promise takes the first value it is resolved  *)
(* with.                                                                   *)
(*                                                                         *)
(* The notification service runs a choice and closes the notification     *)
(* after the choice's synchronous part (Retry's listener.dispose()); the   *)
(* browser's permission and the clipboard's text change at any time.       *)
(***************************************************************************)
EXTENDS Naturals

CONSTANTS
  Texts,    \* texts the clipboard may hold ("" excluded)
  Empty,    \* the empty string ""
  None      \* the promise is not yet resolved

ASSUME Empty \notin Texts

VARIABLES
  granted,       \* the site may read the clipboard
  content,       \* the clipboard's text
  inTests,       \* environmentService.extensionTestsLocationURI is set
  cphase,        \* "idle", "reading" (awaiting the browser), "prompt", "done"
  listenerLive,  \* the onDidClose listener of the prompt is not disposed
  cresult,       \* the value the readText() promise resolved with, or None
  lastRead       \* what the call's last attempt ended with: a text read,
                 \* Empty when the prompt closed, or None

clipVars == <<granted, content, inTests, cphase, listenerLive, cresult, lastRead>>

\* resolve(v): the first value wins.
resolve(v) == cresult' = IF cresult = None THEN v ELSE cresult

-----------------------------------------------------------------------------

Init ==
  /\ granted \in BOOLEAN
  /\ content \in Texts
  /\ inTests \in BOOLEAN
  /\ cphase = "idle"
  /\ listenerLive = FALSE
  /\ cresult = None
  /\ lastRead = None

\* readText() is called.
ReadText ==
  /\ cphase = "idle"
  /\ cphase' = "reading"
  /\ UNCHANGED <<granted, content, inTests, listenerLive, cresult, lastRead>>

\* navigator.clipboard.readText() resolves: the text is the call's value.
ClipboardResolves ==
  /\ cphase = "reading"
  /\ granted
  /\ cphase' = "done"
  /\ lastRead' = content
  /\ resolve(content)
  /\ UNCHANGED <<granted, content, inTests, listenerLive>>

\* navigator.clipboard.readText() rejects: "" under extension tests, else
\* the sticky prompt with its onDidClose listener.
ClipboardRejects ==
  /\ cphase = "reading"
  /\ ~granted
  /\ IF inTests
     THEN /\ cphase' = "done"
          /\ lastRead' = Empty
          /\ resolve(Empty)
          /\ UNCHANGED listenerLive
     ELSE /\ cphase' = "prompt"
          /\ listenerLive' = TRUE
          /\ UNCHANGED <<cresult, lastRead>>
  /\ UNCHANGED <<granted, content, inTests>>

\* (mutant) Retry leaves the onDidClose listener in place.
RetryKeepingListener ==
  /\ cphase = "prompt"
  /\ cphase' = "reading"
  /\ IF listenerLive THEN resolve(Empty) ELSE UNCHANGED cresult
  /\ UNCHANGED <<granted, content, inTests, listenerLive, lastRead>>

\* Retry: listener.dispose(), a new readText() whose value resolves this
\* call, and the notification closes with no listener left.
Retry ==
  /\ cphase = "prompt"
  /\ cphase' = "reading"
  /\ listenerLive' = FALSE
  /\ UNCHANGED <<granted, content, inTests, cresult, lastRead>>

\* Learn More (which opens the link) or the notification's close button:
\* the notification closes and the listener resolves "".
ClosePrompt ==
  /\ cphase = "prompt"
  /\ listenerLive
  /\ cphase' = "done"
  /\ listenerLive' = FALSE
  /\ lastRead' = Empty
  /\ resolve(Empty)
  /\ UNCHANGED <<granted, content, inTests>>

\* The user grants or revokes the site's clipboard permission.
ChangePermission ==
  /\ granted' = ~granted
  /\ UNCHANGED <<content, inTests, cphase, listenerLive, cresult, lastRead>>

\* Another application copies text.
Copy(t) ==
  /\ t # content
  /\ content' = t
  /\ UNCHANGED <<granted, inTests, cphase, listenerLive, cresult, lastRead>>

Next ==
  \/ ReadText \/ ClipboardResolves \/ ClipboardRejects
  \/ Retry \/ ClosePrompt
  \/ ChangePermission
  \/ \E t \in Texts : Copy(t)

Spec == Init /\ [][Next]_clipVars

-----------------------------------------------------------------------------

ClipTypeOK ==
  /\ granted \in BOOLEAN /\ content \in Texts /\ inTests \in BOOLEAN
  /\ cphase \in {"idle", "reading", "prompt", "done"}
  /\ listenerLive \in BOOLEAN
  /\ cresult \in Texts \cup {Empty, None}
  /\ lastRead \in Texts \cup {Empty, None}

\* readText() resolves once its last attempt ends, and with what that
\* attempt gave: the text read after any number of Retries, or "" when
\* the prompt was closed; a Retry must not let the closing notification
\* resolve "" first.
ResolvesWithLastAttempt ==
  /\ cresult # None => cphase = "done"
  /\ cphase = "done" => cresult = lastRead

=============================================================================
