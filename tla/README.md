# TLA+ models of the Editor workbench services

This directory holds TLA+ models of the parts of this repository (a VS Code
fork, sources under `src/Source/vs`) whose behaviour depends on the order in
which events, callbacks, IPC messages and awaited promises run. Each model
is written from the TypeScript source. It keeps every guard, early return
and state change of the handlers it models, and abstracts data (channel
ids, resources, symbols, configurations) to small sets of model values.
The observable engine is the one exception: it is not in this repository,
so it is modelled from `spec.md` and marked `spec_modelled` in the map.

All commands run in this directory:

    tlasany OutputChannels.tla
    tlc -workers 2 -config OutputChannels.cfg MCOutputChannels

`PROJECT.json` lists:

- the components, modelled or not;
- the runs;
- the mutants that show each property can fail;
- the map from every definition to the source lines it models;
- the findings;
- the hazards.

## The system and its parts

The repository is a slice of the workbench: services, contributions and
extension-host bridges. Most of it is registration code or data classes.
The parts with state that changes in response to events, and their modules:

| Part | Source (under `src/Source/vs`) | Module |
|---|---|---|
| Output service and its extension-host bridge | `workbench/contrib/output/browser/outputServices.ts`, `workbench/api/browser/mainThreadOutputService.ts` | `OutputChannels` |
| Notebook variables view contribution | `workbench/contrib/notebook/browser/contrib/notebookVariables/notebookVariables.ts` | `NotebookVariables` |
| Notebook editor widget borrowing | `workbench/contrib/notebook/browser/services/notebookEditorServiceImpl.ts` | `NotebookWidgets` |
| Node request service | `platform/request/node/requestService.ts` | `NodeRequest` |
| Browser request service (falls back to the node one on the server) | `workbench/services/request/browser/requestService.ts` | `BrowserRequest` |
| Browser clipboard read with retry prompt | `workbench/services/clipboard/browser/clipboardService.ts` | `ClipboardRead` |
| Accessibility status entry and screen reader prompt | `workbench/contrib/accessibility/browser/accessibilityStatus.ts` | `AccessibilityStatus` |
| Native host color scheme | `workbench/services/themes/electron-sandbox/nativeHostColorSchemeService.ts` | `HostColorScheme` |
| Settings sync conflicts view | `workbench/contrib/userDataSync/browser/userDataSyncConflictsView.ts` | `SyncConflicts` |
| Workspace symbol registry and search; quick-access filter parsing | `workbench/contrib/search/common/search.ts` | `SymbolSearch`, `SearchFilter` |
| Diff editor breadcrumbs outline source | `editor/contrib/diffEditorBreadcrumbs/browser/contribution.ts` | `DiffEditorBreadcrumbs` |
| Terminal capability event multiplexer | `workbench/contrib/terminal/browser/terminalEvents.ts` | `TerminalCapabilityEvents` |
| Notebook renderer messaging (extension host) | `workbench/api/common/extHostNotebookRenderers.ts` | `RendererMessaging` |
| Comment form button row | `workbench/contrib/comments/browser/commentFormActions.ts` | `CommentFormActions` |
| Chat confirmation content part | `workbench/contrib/chat/browser/chatContentParts/chatConfirmationContentPart.ts` | `ChatConfirmation` |
| SCM menu connected to an action bar | `workbench/contrib/scm/browser/util.ts` | `ScmMenu` |
| AI related information providers (main thread) | `workbench/api/browser/mainThreadAiRelatedInformation.ts` | `AiRelatedInformation` |
| Observable engine (not in this repository) | `spec.md` sections 4.1-4.5 | `ObservableValues` (abstract), `ObservableEngine` (push-pull) |
| Observable consumers: diff editor focus and options, context key binding, notebook cell sparkle item | `diffEditorEditors.ts`, `platformObservableUtils.ts`, `diagnosticCellStatusBarContrib.ts` | `EditorObservables` |

Parts with no state transitions are listed in `PROJECT.json` as
`not_modelled`, each with its reason. These are registrations, data
classes, delegating services, webpack configurations and pure formatting.
The native URL service is not modelled. Its `RelayURLService` has no
state of its own: it only forwards calls to the main process, which
routes them between windows outside this repository.

## Modules

Each component module has:

- its state as `VARIABLES`;
- an `Init`;
- one action per handler;
- `Next` and `Spec`;
- a type invariant and its properties.

Helpers that model a code function keep the function's name. An operator
marked `(mutant)` sits just before the definition it replaces in a mutant
run.

### Component modules

- **OutputChannels**: OutputService and MainThreadOutputService together.
  - State: the registry's order, the channels map, disposed models, the
    active channel, the stored id, the `$register` id pool, view
    visibility, the three context keys, and the `setLevelIsDefaultContext`
    calls suspended at their await.
    It also holds the logger and default-log-level services, the
    `showChannel` calls awaiting `openView`, and what the extension host
    was told is visible.
  - Actions: `$register`/`onDidRegisterChannel`, dispose (its `onDispose`
    listener), `$reveal`/`showChannel` and its continuation, `$close`,
    view toggles, log level changes and the await continuations.
  - The registry fires synchronously and keeps registration order.
- **NotebookVariables**: the constructor's listeners, `handleInitEvent`
  with `hasVariableProvider` and `initializeView`, `handleConfigChange` and
  `dispose`. Kernel selection and the debug view container's registration
  are environment steps.
- **NotebookWidgets**: `_borrowableEditors`, `_tokenPool` and the borrow
  values handed out.
  - Actions: `retrieveWidget`, the close and move listeners, group removal
    and the `retrieveExisting*` lookups.
  - The group service fires `onWillMoveEditor` then `onDidCloseEditor`
    synchronously, so a move is one step.
- **NodeRequest**: one `request()` call.
  - It keeps its configuration snapshot and the awaits on the shell
    environment, the proxy agent and the http module.
  - It follows the redirect chain of raw requests, with errors, socket
    timeouts and cancellation. A redirect's `nodeRequest` awaits
    `getNodeRequest` before it sends, and has no cancellation listener
    until then.
  - A listener registered on a token that is already cancelled runs from
    a timer (`DeferredCancel`), so its raw request is live until then.
  - The promise takes the first settle.
- **BrowserRequest**: `request()` in the browser. A 405 or an error is
  retried through the remote agent's `request` channel, which runs
  NodeRequest on the server with the same token. The local fetch is outside
  this repository: it answers, fails, or rejects once cancelled.
- **ClipboardRead**: `readText()` without a type. It covers the browser
  read, the extension-tests shortcut, and the prompt with Retry, Learn More
  and close. The promise keeps its first value.
- **AccessibilityStatus**: mode changes (from the OS or the setting), the
  100 ms timer, the status command, and closing or answering the prompt.
- **HostColorScheme**: the constructor and `update`, plus the main
  process's answer and events, which arrive over one FIFO IPC connection.
  Application storage keeps the value in memory and on disk, and a window
  reload loses what was not flushed.
- **SyncConflicts**: `getTreeItems` and the refresh on
  `onDidChangeConflicts`. It also covers Show Conflicts and the two accept
  actions, which parse the handle back.
  - `getTreeItems` flattens, sorts stably by profile (default first, then
    by name), groups, and stays flat when only the default profile is
    present.
- **SymbolSearch**: the provider registry and `getWorkspaceSymbols`.
  - `register` and `dispose` remove the first occurrence, once.
  - The registry is snapshotted, and answers arrive in any order, with
    errors.
  - Cancellation, the sort with `compareItems` and the `groupBy`
    de-duplication follow.
  - `compareItems`, `groupBy` and the sort are operators.
- **SearchFilter**: `extractRangeFromFilter` as a regular-expression
  matcher over one-character strings, with `parseInt`. It is checked
  against a reference definition over every filter of the documented form.
- **DiffEditorBreadcrumbs**: the async autorun.
  - The autorun re-runs on provider changes and on debounced content
    changes.
  - Each run adds a token source to its store, awaits the outline, checks
    `store.isDisposed` and sets `_currentModel`. It never reads its token
    after the await, and the outline service may answer a cancelled
    request with its outline.
  - `getBreadcrumbItems` is an operator: a filter plus a stable sort,
    longest first.
- **TerminalCapabilityEvents**: `createInstanceCapabilityEventMultiplexer`.
  It covers the existing capabilities, instances joining and leaving,
  capabilities added and removed with the id test, and `dispose`.
- **RendererMessaging**: the emitter map, including
  `getOrCreateEmitterFor` and its `onDidRemoveLastListener`.
  - It covers subscription through `createRendererMessaging`'s
    contribution check, unsubscription and `$postRendererMessage`.
  - The `Emitter` of `base/common/event.ts` is taken with its contract.
    A listener added to a disposed emitter is never called.
- **AiRelatedInformation**: `$register`/`$unregister` by handle through a
  `DisposableMap`. The extension host's calls are delivered in order.
- **CommentFormActions**: the buttons, `_actions`, the listeners' store,
  and the last action handed to `actionHandler`.
  - `setActions` makes one button per action across the menu's groups,
    only the first primary. It stops at `maxActions` with the `>=` test
    after the push, and sets `_actions` on entering each group.
  - A click runs an enabled button's action. `triggerDefaultAction` runs
    the first action of `_actions` if it is enabled. `dispose` disposes
    the listeners.
  - The state also holds the menu last set (a history variable for the
    property).
- **ChatConfirmation**: `confirmation.isUsed`, the current rendered part
  and whether its buttons show, and the session's pending request.
  - A render builds a new part, which shows its buttons unless `isUsed`.
  - A click calls `sendRequest`, which refuses while the session has a
    request pending; a truthy result sets `isUsed` and hides the part's
    buttons. The await spans only microtasks, so the handler is one step.
  - The chat service is outside this repository. The user can send
    requests of their own.
- **ScmMenu**: `connectPrimaryMenu`. The state is the lists the menu
  fills in its current context, a pending `onDidChange` of the menu,
  whether the listener is live, the closure's `cachedPrimary` and
  `cachedSecondary`, and the callback's last arguments.
  - `Connect` is a fresh closure with empty caches running `updateActions`
    once and subscribing. `OnDidChange` runs `updateActions` while the
    listener is live. `Dispose` removes the listener.
  - `updateActions` skips the callback when both lists are `equals` to the
    cached ones under `compareActions`. `compareActions` compares id,
    enabled, and the hidden state of two `MenuItemAction`s.
  - The menu is outside this repository. It is modelled by what
    `createAndFillInActionBarActions` returns for each context (a member of
    `Fills`), and by an `onDidChange` that fires after the context changes.
- **ObservableValues**: the abstract promise of the observable engine. Each
  outermost transaction is one atomic step, after which every live reaction
  has seen the current values. A reaction ran exactly once if those values
  changed, and not at all otherwise.
- **ObservableEngine**: the push-pull algorithm.
  - `set` marks observers possibly stale and schedules reactions.
  - On commit, a reaction is resolved by walking its recorded dependencies
    in read order, pulling derived ones up to date and recomputing on the
    first change.
  - The synchronous call stack is a sequence.
  - It refines ObservableValues through
    `INSTANCE ObservableValues WITH ...` (the refinement mapping `Abs`). The
    run checks `ImplementsObservableValues`.
- **EditorObservables**: the repository's consumers on one dependency
  graph of the engine.
  - `isFocused` is derived with the dynamic dependency of its `||`, and
    `bindContextKey` sets a context key from it.
  - The cell diagnostic sparkle item and the diff editor's option autorun,
    with its change summary, are also in the graph.
  - So is the specification's diamond scenario.

### Model-checking modules

Components that share no state are composed in one `MC*` module, so that a
run covers several of them. There are two ways to compose:

- **Product**: `A!Next /\ UNCHANGED bVars \/ B!Next /\ UNCHANGED aVars`.
  Used where the state space allows it: the terminal
  and messaging parts of MCSymbolSearch, and the accessibility and color
  scheme group of MCHostSettings.
- **Turn**: a variable `turn`, chosen at `Init` and never changed, names
  the group whose steps the behaviour takes. Each disjunct of the next-state
  relation is `turn = i /\ G_i!Next /\ UNCHANGED` (the others).
  - In `Init`, a group that is not taking steps is pinned to one of its
    initial states by conjuncts `turn # i => ...`. Its states are not
    multiplied by the other groups' initial states.
  - Because the groups share no variable, a state predicate of one group is
    an invariant of the composition exactly when it is an invariant of that
    group alone. Every reachable state of each group is still reached.
  - Used for:
    - MCOutputChannels: output; notebook variables; notebook widgets.
    - MCSymbolSearch: symbol search; breadcrumbs; sync conflicts; the
      terminal and renderer relays; AI providers.
    - MCHostSettings: accessibility and color scheme; comment form; chat
      confirmation.
    - MCBrowserServices: request; clipboard; SCM menu.
  - A bounded group stops, so the runs in which every group can stop set
    `CHECK_DEADLOCK FALSE`. For example, a chat confirmation that was
    answered and re-rendered up to the bound has nothing left to do. Every
    output group can always take a step, so the output run keeps deadlock
    checking on.

The other MC modules instantiate one component: MCNodeRequest and
MCEditorObservables. Each gives its constants and re-exports the
properties, with a comment.

`BreadcrumbsOutermostFirst` and `FilterSplitAsDocumented` are facts about
operators over every bounded input. A run checks them as the invariant
`vars = vars /\ Fact`.

## Runs

| Run | Config (module) | Expect | What it shows |
|---|---|---|---|
| output_channels | `OutputChannels.cfg` (MCOutputChannels) | pass | `ContextKeysDescribeActive`: the output context keys describe the active channel. `ExtHostSeesVisibleChannel`: the extension host is told the visible channel on every path that changes it. `ViewKeyTracksSettingAndRegistration`: the Notebook Variables view is registered at most once, and its key is set exactly when the setting is on and the view is registered (the active-editor listener reads the new pane). Every notebook widget is held exactly once or disposed, and no group holds two widgets of one type. Widgets belong to open editors, no borrow value yields a disposed widget, and `interactiveWindowOpen` is true exactly while an interactive editor is open. |
| output_disposed_active | `OutputChannels_ActiveChannelIsLive.cfg` | violation | `ActiveChannelIsLive` fails (finding 1). |
| output_view_stale_show | `OutputChannels_ViewShowsActive.cfg` | violation | `ViewShowsActiveChannel` fails (finding 2). |
| output_level_is_default | `OutputChannels_LevelIsDefault.cfg` | violation | `LevelIsDefaultSettles` fails (finding 5). |
| browser_services | `BrowserServices.cfg` (MCBrowserServices) | pass | At most `followRedirects` redirects are followed. Once the cancellation listeners deferred to a timer have run, no raw request of the server's chain is open, a redirect sent after the cancellation included. A cancelled request settles (liveness). `readText()` resolves once, with its last attempt's value. Once the SCM menu's change events are handled, a connected callback holds the menu's current actions up to `compareActions`. |
| node_request_proxy_auth | `NodeRequest_ProxyAuth.cfg` (MCNodeRequest) | violation | `ProxyAuthMatchesProxy` fails (finding 3). |
| host_settings | `HostSettings.cfg` (MCHostSettings) | pass | The color scheme service, its listeners and storage settle on the OS scheme. The comment form shows its menu's actions in order, at most `maxActions`, with the first one primary. A chat confirmation is answered by at most one request, however re-renders, clicks and the user's own requests interleave. The accessibility status actions are reached (type invariant only). |
| comment_form_stale_default | `HostSettings_DefaultAction.cfg` | violation | `DefaultActionIsShown` fails (finding 6). |
| symbol_search | `SymbolSearch.cfg` (MCSymbolSearch) | pass | The registry holds exactly the live registrations. `extractRangeFromFilter` splits every documented filter correctly. The breadcrumbs list enclosing symbols outermost first. The sync conflicts tree is grouped and ordered as intended. Terminal capabilities and renderer messages reach their listeners. The AI provider registry's actions are reached (type invariant only). |
| symbol_search_duplicates | `SymbolSearch_NoDuplicates.cfg` | violation | `ResultHasNoDuplicates` fails (finding 4). |
| breadcrumbs_stale_outline | `SymbolSearch_StaleOutline.cfg` | violation | `SettlesOnLatestOutline` fails (finding 7). |
| editor_observables | `EditorObservables.cfg` (MCEditorObservables) | pass | The push-pull engine implements `ObservableValues`. No cached value is stale when up to date, and none is recomputed twice in one transaction. The sparkle item tracks the error, and the inner editors receive every option set. |

Each property of a passing run has a mutant in `PROJECT.json`. The mutant
is a plausible bug in the code, such as a dropped guard, a missing dispose,
a reversed comparator or an uncancelled token. The property fails under the
run's own configuration.

### Bounds

- **Output**: two extension channels, one log channel and two log levels.
  The stored id is extension channel 2, and there are two `showChannel`
  calls in flight. Notebook variables has one notebook.
  - A channel other than the first can become active through the stored
    id, which both output findings need.
  - One notebook suffices: the view key does not depend on which notebook
    triggers registration.
- **Widgets**: three groups (two in the main window, one auxiliary), one
  resource, two types, three widgets and four tokens.
  - One run covers a same-window move, a cross-window move and a group
    removal.
  - The tokens allow a re-borrow.
- **Requests**: `followRedirects` = 3 (the code's default), two
  configurations and two configuration changes.
- **Host settings**: three prompts, two OS scheme changes, one reload and a
  corrupt stored value.
- **Comment form**: three actions (the second disabled), `maxActions` = 2,
  and three menus: no visible items, one group of two, and two groups of
  three actions in all. Together they cover the cut in the second group
  and the empty menu.
- **Chat confirmation**: three renders and two requests of the user's own.
  A click refused while a request is pending, and a re-render after an
  answer, are both reachable.
- **SCM menu**: five fills and two connections. The fills are empty; one
  enabled `MenuItemAction`; the same action checked; the action with a
  submenu in the secondary list; and that pair with the action disabled.
  - A change confined to the secondary list is reachable, and so is one
    `compareActions` ignores (the checked state).
  - So is a context that changes and changes back before the event, and a
    reconnect with empty caches after the menu changed.
- **Sync conflicts**: three profiles, including the default, two changes of
  conflicts and one pending refresh.
- **Symbol search**: three providers and three registrations. The symbols
  overlap in a chain (columns 1-3, 2-5, 4-6; touching ranges do not
  intersect), which makes `compareItems` non-transitive. The
  breadcrumbs have one edit and two autorun runs, so a stale run can answer
  after a newer one.
- **Multiplexers**: two terminals, two capability additions, two renderers
  (one contributed), two subscribers, three emitters and two posts. There
  are two AI provider types and two handles.
- **Observables**: `a` ranges over 0..2, with at most two `set()` calls
  in all and transactions nested two deep. This is enough for a batched
  transaction, a no-op set, and the diamond change that alters B and C
  but not D. A focus change of the original editor followed by one of
  the modified editor and back takes three sets; `MaxSets = 3` takes ten
  minutes, so the `isFocused` edge is checked over two.

Each bound is the smallest that makes the interleaving behind its
property's hazard reachable. The mutants confirm this: each is caught
within these bounds.

### Fairness

Only `browser_services` checks liveness: `CancelledRequestSettles`. Its
`FairSpec` assumes weak fairness of:

- the caller's `request()` starting;
- an aborted local request rejecting (its cancellation listener);
- the server's awaits on the shell environment, proxy agent and http
  module (the shell environment has its own timeout), a redirect's await
  on `getNodeRequest`, and the timer of a deferred cancellation listener;
- the channel delivering the server's result.

Each fairness condition is restricted to its own `turn`. Otherwise it
would be enabled in the other group's behaviours, which never take it,
and those behaviours would be excluded as unfair.

The network gets no fairness: a raw request may stay unanswered forever.
Neither do the user, the caller, or the SCM menu.
The other runs check safety, including the refinement
`ImplementsObservableValues`. Their "settles" properties are stated as
state predicates that hold once the relevant queue or await is empty, so
they need no fairness.

### Environment assumptions

- IPC and RPC between the main thread, the extension host and the main
  process are FIFO (`chan` sequences).
- `Emitter` delivers synchronously to its current listeners, and a
  disposed emitter adds no listener.
- `autorunWithStore` (outside this repository) clears its store before
  each run and disposes it only with the autorun. The outline model service
  answers a request with the outline of the text it asked for; once the
  request's token is cancelled it may reject instead.
- A listener added to a cancellation token that is already cancelled is
  called from `setTimeout(0)`, not synchronously.
- The editor group service fires move and close events synchronously on
  the source group.
- The `Button` widget fires `onDidClick` only while it is enabled.
- An SCM menu fires `onDidChange` after its context changes, and it fires
  to every listener subscribed by then.
- The consumer of `connectPrimaryMenu` starts with no actions. When the
  menu fills nothing at connect, the callback is never called, so it is
  not told the lists are empty.
- The chat service's `sendRequest` resolves undefined while the session
  has a request pending. Its promise resolves as a microtask, so no render,
  click or completion comes between the call and the code after it.

## Findings

1. `outputServices.ts:298`. The dispose listener reads the first channel
   descriptor before `removeChannel(id)`. If the disposed channel is first
   and the view is visible, `showChannel` is called on the disposed channel
   itself. That is a no-op, so the disposed channel stays active.
2. `outputServices.ts:252`. `showChannel` awaits `openView` and then
   renders its channel unconditionally. If the stored channel registers
   meanwhile, it becomes active, and the view shows a channel other than
   the one the context keys and `$setVisibleChannel` name.
3. `requestService.ts:98` (node). `authorization` is read after the awaits,
   but `proxyUrl` and `strictSSL` were copied before them. A settings change
   in between sends the new Proxy-Authorization through the old proxy.
4. `search.ts:137`. `compareItems` treats intersecting ranges as equal,
   which is not transitive. With B at columns 2-5 and C at 4-6 (they
   overlap) and A2 at 1-3 in another container (it overlaps B, not C),
   B < A2 < C but B = C. The sort gives [B, A2, C], and `groupBy`, which
   compares each symbol with its group's first, returns both B and C.

5. `outputServices.ts:356`. `setLevelIsDefaultContext` awaits the default
   level and then sets the key from the channel and level it read before
   the await. Suppose the user switches to a channel without a level during
   that await. The switch sets the key to false at once, and the older call
   then sets it to true for a channel that has no level.
6. `commentFormActions.ts:42`. `_actions` is assigned only inside the loop
   over groups. A menu whose items are all hidden removes every button but
   keeps the old `_actions`. The Submit keybinding (`triggerDefaultAction`)
   then runs an action that no button offers.
7. `contribution.ts:64` (diff editor breadcrumbs). Each autorun run adds a
   token source to its store, and the next run's clear cancels it. After
   the await on `getOrCreate` the run checks only `store.isDisposed`,
   which a cleared store is not, and never its token. When an edit's run
   gets its outline first and the run before it answers after, that older
   outline overwrites `_currentModel` until the next edit.

## What is not modelled

- Channel contents, widget rendering, HTTP bodies, tree rendering and
  wording: pure I/O or formatting.
- Registrations, data classes, forwarding services and build scripts: no
  transitions.
- The native URL service (a relay to the main process, no state of its
  own). Of the SCM utilities, everything but `connectPrimaryMenu`: type
  guards, a command-running status bar action and label rendering.
  `quickDiff.ts` only declares interfaces.
- The checked state that `compareActions` ignores. A toggled action keeps
  its old checked state on the bar, because the callback is not called.
  Showing this would take a violation run of its own, so the hazard in
  `PROJECT.json` only records it.
- Liveness of the workspace symbol search and the notebook variables
  view: each depends on code outside this repository answering (the
  providers) or on the user acting (an editor change). The hazards say so.
- `$getAiRelatedInformation` calls and renderer messages sent to the main
  thread: relays with no state on this side.
- The hazards in `PROJECT.json` without a property say why in their note.
  Examples are the shell environment's timeout racing its answer, and the
  notebook variables view registration that never happens when the debug
  container never appears.
