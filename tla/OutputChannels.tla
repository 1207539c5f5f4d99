--------------------------- MODULE OutputChannels ---------------------------
(***************************************************************************)
(* The output channel service of the workbench (OutputService in          *)
(* contrib/output/browser/outputServices.ts) together with the extension  *)
(* host's side of it (MainThreadOutputService in                           *)
(* api/browser/mainThreadOutputService.ts).                                *)
(*                                                                         *)
(* Channels are registered in the channel registry, which fires            *)
(* onDidRegisterChannel synchronously; OutputService keeps one             *)
(* OutputChannel per id, an active channel persisted in workspace storage, *)
(* and context keys describing the active channel.  The "level is         *)
(* default" context key is computed by an async function that awaits the  *)
(* default log level service: each call suspended at that await is an     *)
(* element of `pending` and resumes in its own step.                       *)
(***************************************************************************)
EXTENDS Naturals, Sequences, SequencesExt

CONSTANTS
  MaxExtChannels,  \* how many channels the extension registers ($register)
  LogChannels,     \* ids of core log channels (descriptor.log = true)
  Levels,          \* log levels
  StoredId,        \* activeChannelIdInStorage, read once by the constructor
  MaxOpening,      \* bound on showChannel calls suspended at once
  None             \* undefined / no channel

\* $register builds ids from a per-extension counter: the k-th is k.
ExtChannels == 1..MaxExtChannels
Ids == ExtChannels \cup LogChannels

ASSUME MaxExtChannels \in Nat
ASSUME LogChannels \cap ExtChannels = {}
ASSUME StoredId \in Ids \cup {None}
ASSUME None \notin Ids

VARIABLES
  registry,          \* the channel registry's descriptors, in registration order
  channels,          \* keys of OutputService.channels (never deleted)
  disposed,          \* channels whose OutputChannel (and model) is disposed
  active,            \* OutputService.activeChannel
  stored,            \* workspace storage value of output.activechannel
  idPool,            \* MainThreadOutputService._extensionIdPool[extension]
  viewVisible,       \* the output view is visible
  ctxActive,         \* context key ACTIVE_OUTPUT_CHANNEL_CONTEXT
  ctxLevel,          \* context key CONTEXT_ACTIVE_OUTPUT_LEVEL
  ctxLevelIsDefault, \* context key CONTEXT_ACTIVE_OUTPUT_LEVEL_IS_DEFAULT
  pending,           \* setLevelIsDefaultContext calls suspended at their await
  logLevel,          \* loggerService.getLogLevel per log channel
  defaultLevel,      \* defaultLogLevelsService.getDefaultLogLevel per log channel
  extVisible,        \* last $setVisibleChannel the extension host received
  viewChannel,       \* the channel the output view renders (OutputViewPane)
  opening            \* showChannel calls suspended at `await openView`

vars == <<registry, channels, disposed, active, stored, idPool, viewVisible,
          ctxActive, ctxLevel, ctxLevelIsDefault, pending, logLevel,
          defaultLevel, extVisible, viewChannel, opening>>

viewVars == <<viewChannel, opening>>

ctxVars == <<active, stored, ctxLevel, ctxLevelIsDefault, pending>>

\* A suspended setLevelIsDefaultContext: the channel and the level it read
\* before the await.
Query == [ch : LogChannels, lvl : Levels]

-----------------------------------------------------------------------------
(* Helpers: the parts of a handler that other handlers call.               *)

\* getChannel(id): OutputService.channels.get(id), reached from
\* MainThreadOutputService._getChannel; disposed channels stay in the map.
getChannel(c) == c \in channels

\* getChannelDescriptors(): the registry's descriptors, in registration order.
getChannelDescriptors == registry

\* setLevelContext: the level string of the active log channel, or "".
LevelOf(c, lv) == IF c \in LogChannels THEN lv[c] ELSE None

\* setLevelIsDefaultContext with the channel `c` and the log levels `lv`:
\* a log channel suspends at the await on the default level; any other
\* channel sets the key to false at once.
setLevelIsDefaultContext(c, lv) ==
  IF c \in LogChannels
  THEN /\ pending' = pending \cup {[ch |-> c, lvl |-> lv[c]]}
       /\ UNCHANGED ctxLevelIsDefault
  ELSE /\ ctxLevelIsDefault' = FALSE
       /\ UNCHANGED pending

\* setActiveChannel: the active channel, both level context keys, and the
\* stored id (store, or remove when there is no channel).
setActiveChannel(c) ==
  /\ active' = c
  /\ setLevelIsDefaultContext(c, logLevel)
  /\ ctxLevel' = LevelOf(c, logLevel)
  /\ stored' = c

\* MainThreadOutputService's setVisibleChannel, run on every
\* onActiveOutputChannel and every visibility change of the output view.
setVisibleChannel(visible, act) == extVisible' = IF visible THEN act ELSE None

\* _onActiveOutputChannel.fire(id): the context key listener registered in
\* OutputService's constructor, then MainThreadOutputService's listener.
fireActive(id) ==
  /\ ctxActive' = id
  /\ setVisibleChannel(viewVisible, id)

\* showChannel(id) up to its await: make c active if it is not, then wait
\* for openView (resumed by OpenViewDone, oldest call first).
showChannel(c) ==
  /\ IF active # c
     THEN setActiveChannel(c) /\ fireActive(c)
     ELSE UNCHANGED <<ctxVars, ctxActive, extVisible>>
  /\ opening' = Append(opening, c)

\* OutputService's onDidChangeViewVisibility listener: the view, once
\* visible, renders the active channel if there is one.
onViewVisible(visible, act) ==
  viewChannel' = IF visible /\ act # None THEN act ELSE viewChannel

\* createChannel(id) via instantiateChannel(id): an OutputChannel, with its
\* model, for the registered descriptor (an id not registered throws),
\* stored in OutputService.channels.
instantiateChannel(c) ==
  /\ c \in ToSet(registry')
  /\ channels' = channels \cup {c}

\* onDidRegisterChannel: create the OutputChannel and make it active when
\* nothing is active or it is the channel remembered in storage.
onDidRegisterChannel(c) ==
  /\ instantiateChannel(c)
  /\ IF active = None \/ StoredId = c
     THEN /\ setActiveChannel(c) /\ fireActive(c)
          /\ viewChannel' = IF viewVisible THEN c ELSE viewChannel
     ELSE UNCHANGED <<ctxVars, ctxActive, extVisible, viewChannel>>

\* Mutant: the fallback drops the selection whether or not the view shows it.
onDisposeChannelIgnoringView(c) ==
  /\ registry' = Remove(registry, c)
  /\ IF active = c
     THEN setActiveChannel(None) /\ UNCHANGED <<ctxActive, extVisible>>
     ELSE UNCHANGED <<ctxVars, ctxActive, extVisible>>
  /\ UNCHANGED viewVars

\* The model's onDispose listener installed by createChannel.  It reads the
\* registry's descriptors BEFORE removing the disposed channel from it.
onDisposeChannel(c) ==
  /\ registry' = Remove(registry, c)
  /\ IF active = c
     THEN LET first == Head(getChannelDescriptors) IN
          IF viewVisible
          THEN showChannel(first)
          ELSE /\ setActiveChannel(None)
               /\ UNCHANGED <<ctxActive, extVisible, opening>>
     ELSE UNCHANGED <<ctxVars, ctxActive, extVisible, opening>>
  /\ UNCHANGED viewChannel

-----------------------------------------------------------------------------
(* Initial state: the constructors ran with an empty registry, so the     *)
(* constructor's fallback setActiveChannel(undefined) removed the stored   *)
(* key, and setVisibleChannel told the extension host what is visible.     *)

Init ==
  /\ registry = <<>>
  /\ channels = {}
  /\ disposed = {}
  /\ active = None
  /\ stored = None
  /\ idPool = 0
  /\ viewVisible \in BOOLEAN
  /\ ctxActive = StoredId
  /\ ctxLevel = None
  /\ ctxLevelIsDefault = FALSE
  /\ pending = {}
  /\ logLevel \in [LogChannels -> Levels]
  /\ defaultLevel \in [LogChannels -> Levels]
  /\ extVisible = None
  /\ viewChannel = None
  /\ opening = <<>>

-----------------------------------------------------------------------------
(* Actions                                                                 *)

\* $register: next id from the counter, registerChannel, and the registry's
\* synchronous onDidRegisterChannel event.
Register ==
  /\ idPool < MaxExtChannels
  /\ LET c == idPool + 1 IN
       /\ idPool' = c
       /\ registry' = Append(registry, c)
       /\ onDidRegisterChannel(c)
  /\ UNCHANGED <<disposed, viewVisible, logLevel, defaultLevel, opening>>

\* A core log channel registered in the registry by the workbench.
RegisterLog(c) ==
  /\ c \notin channels
  /\ registry' = Append(registry, c)
  /\ onDidRegisterChannel(c)
  /\ UNCHANGED <<disposed, idPool, viewVisible, logLevel, defaultLevel, opening>>

\* Mutant: $dispose without the lookup's guard (`channel?.dispose()` on any id).
DisposeUnguarded(c) ==
  /\ c \notin disposed
  /\ disposed' = disposed \cup {c}
  /\ onDisposeChannel(c)
  /\ UNCHANGED <<channels, idPool, viewVisible, logLevel, defaultLevel>>

\* $dispose: the channel disposes its model, whose onDispose fires once.
\* The extension host disposes each of its own channels once.
Dispose(c) ==
  /\ getChannel(c) /\ c \notin disposed
  /\ disposed' = disposed \cup {c}
  /\ onDisposeChannel(c)
  /\ UNCHANGED <<channels, idPool, viewVisible, logLevel, defaultLevel>>

\* $reveal: showChannel(id) for a live channel of the extension.
Reveal(c) ==
  /\ getChannel(c) /\ c \notin disposed
  /\ Len(opening) < MaxOpening
  /\ showChannel(c)
  /\ UNCHANGED <<registry, channels, disposed, idPool, viewVisible,
                 logLevel, defaultLevel, viewChannel>>

\* openView resolves for the oldest suspended showChannel(c): the view is
\* open; if it was hidden, onDidChangeViewVisibility reaches OutputService's
\* listener and MainThreadOutputService's setVisibleChannel; then
\* showChannel renders c in the view.
OpenViewDone ==
  /\ opening # <<>>
  /\ opening' = Tail(opening)
  /\ viewVisible' = TRUE
  /\ viewChannel' = Head(opening)
  /\ IF viewVisible THEN UNCHANGED extVisible
     ELSE setVisibleChannel(TRUE, active)
  /\ UNCHANGED <<registry, channels, disposed, idPool, ctxVars, ctxActive,
                 logLevel, defaultLevel>>

\* $close: closes the view when it shows the given channel.
Close(c) ==
  /\ viewVisible
  /\ active # None
  /\ c = active
  /\ viewVisible' = FALSE
  /\ setVisibleChannel(FALSE, active)
  /\ UNCHANGED <<registry, channels, disposed, idPool, ctxVars, ctxActive,
                 logLevel, defaultLevel, viewVars>>

\* The user opens or closes the output view; MainThreadOutputService hears
\* onDidChangeViewVisibility (OutputService's listener only renders).
ToggleView ==
  /\ viewVisible' = ~viewVisible
  /\ setVisibleChannel(viewVisible', active)
  /\ onViewVisible(viewVisible', active)
  /\ UNCHANGED opening
  /\ UNCHANGED <<registry, channels, disposed, idPool, ctxVars, ctxActive,
                 logLevel, defaultLevel>>

\* Mutant: the log level listener forgets setLevelContext.
ChangeLogLevelNoLevelContext(c, l) ==
  /\ l # logLevel[c]
  /\ logLevel' = [logLevel EXCEPT ![c] = l]
  /\ setLevelIsDefaultContext(active, logLevel')
  /\ UNCHANGED <<registry, channels, disposed, active, stored, idPool,
                 viewVisible, ctxActive, ctxLevel, defaultLevel, extVisible, viewVars>>

\* loggerService.onDidChangeLogLevel: setLevelContext, setLevelIsDefaultContext.
ChangeLogLevel(c, l) ==
  /\ l # logLevel[c]
  /\ logLevel' = [logLevel EXCEPT ![c] = l]
  /\ ctxLevel' = LevelOf(active, logLevel')
  /\ setLevelIsDefaultContext(active, logLevel')
  /\ UNCHANGED <<registry, channels, disposed, active, stored, idPool,
                 viewVisible, ctxActive, defaultLevel, extVisible, viewVars>>

\* defaultLogLevelsService.onDidChangeDefaultLogLevels: setLevelIsDefaultContext.
ChangeDefaultLevel(c, l) ==
  /\ l # defaultLevel[c]
  /\ defaultLevel' = [defaultLevel EXCEPT ![c] = l]
  /\ setLevelIsDefaultContext(active, logLevel)
  /\ UNCHANGED <<registry, channels, disposed, active, stored, idPool,
                 viewVisible, ctxActive, ctxLevel, logLevel, extVisible, viewVars>>

\* A suspended setLevelIsDefaultContext resumes: the default level has
\* arrived and the key is set from it and the level read before the await.
ResumeLevelIsDefault(q) ==
  /\ q \in pending
  /\ pending' = pending \ {q}
  /\ ctxLevelIsDefault' = (defaultLevel[q.ch] = q.lvl)
  /\ UNCHANGED <<registry, channels, disposed, active, stored, idPool,
                 viewVisible, ctxActive, ctxLevel, logLevel, defaultLevel,
                 extVisible, viewVars>>

Next ==
  \/ Register
  \/ \E c \in LogChannels : RegisterLog(c)
  \/ \E c \in ExtChannels : Dispose(c)
  \/ \E c \in Ids : Reveal(c) \/ Close(c)
  \/ ToggleView
  \/ OpenViewDone
  \/ \E c \in LogChannels, l \in Levels :
        ChangeLogLevel(c, l) \/ ChangeDefaultLevel(c, l)
  \/ \E q \in Query : ResumeLevelIsDefault(q)

Spec == Init /\ [][Next]_vars

-----------------------------------------------------------------------------
(* Properties                                                              *)

TypeOK ==
  /\ registry \in Seq(Ids)
  /\ channels \subseteq Ids
  /\ disposed \subseteq channels
  /\ active \in Ids \cup {None}
  /\ stored \in Ids \cup {None}
  /\ idPool \in 0..MaxExtChannels
  /\ viewVisible \in BOOLEAN
  /\ ctxActive \in Ids \cup {None}
  /\ ctxLevel \in Levels \cup {None}
  /\ ctxLevelIsDefault \in BOOLEAN
  /\ pending \subseteq Query
  /\ logLevel \in [LogChannels -> Levels]
  /\ defaultLevel \in [LogChannels -> Levels]
  /\ extVisible \in Ids \cup {None}
  /\ viewChannel \in Ids \cup {None}
  /\ opening \in Seq(Ids)

\* The context keys the output view's menus read describe the channel
\* OutputService holds as active: whenever a channel is active the active
\* channel key names it (it is set only through onActiveOutputChannel), and
\* the level key is that channel's current log level (setLevelContext runs
\* on every setActiveChannel and every log level change).
ContextKeysDescribeActive ==
  /\ active # None => ctxActive = active
  /\ ctxLevel = LevelOf(active, logLevel)

\* The extension host's idea of the visible channel (what it is told by
\* $setVisibleChannel) is the active channel when the output view is visible
\* and none otherwise: no path changes the active channel or the view
\* without MainThreadOutputService hearing about it.
ExtHostSeesVisibleChannel ==
  extVisible = IF viewVisible THEN active ELSE None

\* Once every showChannel call has got past its await, an open output view
\* renders the channel OutputService holds as active, the one the context
\* keys and the extension host are told about: the registration listener,
\* the visibility listener and showChannel all render what they activate.
ViewShowsActiveChannel ==
  viewVisible /\ opening = <<>> /\ active # None => viewChannel = active

\* Once no setLevelIsDefaultContext is suspended at its await, the
\* level-is-default context key says whether the active channel is a log
\* channel whose log level is its default level: each call made on a
\* channel switch, a log level change or a default level change is meant
\* to leave the key right for the state it was made in.
LevelIsDefaultSettles ==
  pending = {} =>
    ctxLevelIsDefault = (active \in LogChannels /\ logLevel[active] = defaultLevel[active])

\* A disposed channel is never the active channel: disposing the active
\* channel (the onDispose listener of createChannel) moves the selection to
\* another registered channel or to none.
ActiveChannelIsLive ==
  active \notin disposed

=============================================================================
