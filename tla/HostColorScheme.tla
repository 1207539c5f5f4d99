--------------------------- MODULE HostColorScheme ---------------------------
(***************************************************************************)
(* NativeHostColorSchemeService (services/themes/electron-sandbox/         *)
(* nativeHostColorSchemeService.ts): the window's copy of the OS color     *)
(* scheme.  At construction it subscribes to the native host's             *)
(* onDidChangeColorScheme, starts from the scheme stored by an earlier     *)
(* session (or, when none parses, the scheme the window was opened with)   *)
(* and asks the main process for the OS scheme; both the answer and every *)
(* event go through update, which stores the scheme and fires when it      *)
(* differs from the one held.                                              *)
(*                                                                         *)
(* The main process's answer and events reach the window over one IPC      *)
(* connection, in the order they were sent (chan).  The application       *)
(* storage keeps the stored value in memory (stored) and writes it to disk *)
(* later (disk); a reload of the window loses what was not written.        *)
(***************************************************************************)
EXTENDS Naturals, Sequences

CONSTANTS
  None,           \* no stored value
  Corrupt,        \* a stored value that does not parse as a color scheme
  MaxOSChanges,   \* bound on changes of the OS scheme
  MaxReloads      \* bound on reloads of the window

ColorSchemes == [dark : BOOLEAN, highContrast : BOOLEAN]

VARIABLES
  os,        \* the OS color scheme, as the main process reads it
  chan,      \* answers and events sent by the main process, not yet handled
  asked,     \* getOSColorScheme() is sent and not yet answered
  scheme,    \* the service's dark and highContrast
  seen,      \* the scheme a listener of onDidChangeColorScheme last read
  stored,    \* the storage service's value of HostColorSchemeData
  disk,      \* the value of HostColorSchemeData written to disk
  osChanges, \* OS changes so far
  reloads    \* reloads so far

colorVars == <<os, chan, asked, scheme, seen, stored, disk, osChanges,
               reloads>>

\* getStoredValue(): the stored scheme when it parses, else undefined.
getStoredValue(v) == IF v \in ColorSchemes THEN v ELSE None

\* The constructor, in a window opened while the OS scheme is o (its
\* environmentService.window.colorScheme) with d on disk: the first
\* listener reads the initial scheme, and the request for the OS scheme
\* is sent.
construct(o, d) ==
  LET initial == IF getStoredValue(d) # None THEN getStoredValue(d) ELSE o
  IN /\ scheme' = initial
     /\ seen' = initial
     /\ stored' = d
     /\ chan' = <<>>
     /\ asked' = TRUE

\* (mutant) a change of highContrast alone is not noticed.
updateDarkOnly(s) ==
  IF s.dark # scheme.dark
  THEN /\ scheme' = s
       /\ stored' = s
       /\ seen' = s
  ELSE UNCHANGED <<scheme, stored, seen>>

\* update({highContrast, dark}): on a difference, take the scheme, store
\* it and fire (the listener reads the new scheme).
update(s) ==
  IF s.dark # scheme.dark \/ s.highContrast # scheme.highContrast
  THEN /\ scheme' = s
       /\ stored' = s
       /\ seen' = s
  ELSE UNCHANGED <<scheme, stored, seen>>

-----------------------------------------------------------------------------

Init ==
  /\ os \in ColorSchemes
  /\ disk \in ColorSchemes \cup {None, Corrupt}
  /\ osChanges = 0
  /\ reloads = 0
  /\ LET initial == IF getStoredValue(disk) # None THEN getStoredValue(disk) ELSE os
     IN scheme = initial /\ seen = initial
  /\ stored = disk
  /\ chan = <<>>
  /\ asked = TRUE

\* The OS scheme changes; the main process sends the event.
OSChange(s) ==
  /\ osChanges < MaxOSChanges
  /\ s # os
  /\ os' = s
  /\ chan' = Append(chan, s)
  /\ osChanges' = osChanges + 1
  /\ UNCHANGED <<asked, scheme, seen, stored, disk, reloads>>

\* The main process answers getOSColorScheme() with the scheme it reads.
Answer ==
  /\ asked
  /\ asked' = FALSE
  /\ chan' = Append(chan, os)
  /\ UNCHANGED <<os, scheme, seen, stored, disk, osChanges, reloads>>

\* The window handles the next answer or event: update(scheme).
Receive ==
  /\ chan # <<>>
  /\ chan' = Tail(chan)
  /\ update(Head(chan))
  /\ UNCHANGED <<os, asked, disk, osChanges, reloads>>

\* The application storage writes its value to disk.
Flush ==
  /\ disk # stored
  /\ disk' = stored
  /\ UNCHANGED <<os, chan, asked, scheme, seen, stored, osChanges, reloads>>

\* The window reloads or its renderer crashes: what is in flight to the
\* old window, and what the storage had not written, is lost, and
\* the service is constructed again from the disk.
Reload ==
  /\ reloads < MaxReloads
  /\ reloads' = reloads + 1
  /\ construct(os, disk)
  /\ UNCHANGED <<os, disk, osChanges>>

Next ==
  \/ \E s \in ColorSchemes : OSChange(s)
  \/ Answer
  \/ Receive
  \/ Flush
  \/ Reload

Spec == Init /\ [][Next]_colorVars

-----------------------------------------------------------------------------

TypeOK ==
  /\ os \in ColorSchemes
  /\ chan \in Seq(ColorSchemes) /\ asked \in BOOLEAN
  /\ scheme \in ColorSchemes /\ seen \in ColorSchemes
  /\ stored \in ColorSchemes \cup {None, Corrupt}
  /\ disk \in ColorSchemes \cup {None, Corrupt}
  /\ osChanges \in 0..MaxOSChanges /\ reloads \in 0..MaxReloads

\* Nothing from the main process is outstanding.
Settled == ~asked /\ chan = <<>>

\* Once the answer to getOSColorScheme and every event are handled, the
\* service holds the OS scheme, its listeners have read it, and the
\* storage holds it unless it never had to change (whatever the OS did
\* while the request was in flight, whatever stale scheme a reload took
\* from the disk in preference to the window's environment).
SettlesOnOSScheme ==
  Settled =>
    /\ scheme = os
    /\ seen = os
    /\ stored \in ColorSchemes => stored = os

=============================================================================
