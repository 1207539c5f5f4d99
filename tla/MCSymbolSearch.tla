--------------------------- MODULE MCSymbolSearch ---------------------------
(* Three providers, the first two of which can resolve symbols and may    *)
(* answer with a symbol whose range is left to resolveWorkspaceSymbol (N). *)
(* All symbols share name, kind and URI, so only their ranges and          *)
(* containers tell them apart: A, B and C overlap in a chain (A with B, B  *)
(* with C by two columns, not A with C, which are a column apart), and A2  *)
(* is A in another container.                                              *)
(* The run composes the search with other components that share no state *)
(* with it, as explained at SymbolsSpec below.                             *)
EXTENDS SymbolSearch, SearchFilter, TLC

CONSTANTS p1, p2, p3, MaxEdits, MaxRuns,
          D, P1, P2, Profiles, Default, NameRank, ServiceRank, MaxPending, MaxChanges,
          t1, t2, Target, Other, Instances, MaxAdds,
          Renderers, Contributed, Subscribers, MaxEmitters, MaxPosts,
          Types, MaxHandles

Sym(r, c) == [key |-> 1, range |-> r, container |-> c]
A == Sym(<<1, 3>>, 0)
B == Sym(<<2, 5>>, 0)
C == Sym(<<4, 6>>, 0)
N == Sym(None, 0)
A2 == Sym(<<1, 3>>, 1)

\* Sync conflicts: three profiles, the default one's name sorting between
\* the other two, and a service order unlike the name order, so that the
\* sort and the default-first rule both move previews.
MCNameRank == (D :> 2) @@ (P1 :> 3) @@ (P2 :> 1)
MCServiceRank == (D :> 2) @@ (P1 :> 1) @@ (P2 :> 3)
MCFiles == (D :> 1..1) @@ (P1 :> 1..2) @@ (P2 :> 1..1)

MCResolvable == (p1 :> TRUE) @@ (p2 :> TRUE) @@ (p3 :> FALSE)
MCAnswers == (p1 :> {<<A>>, <<N>>})
          @@ (p2 :> {<<B>>, <<N, A2>>})
          @@ (p3 :> {<<C, A2>>, <<>>})

\* Every filter of the documented form <path><#|:|(><line><#|:|,><col?><:?>
\* is split by extractRangeFromFilter into the path and the line and
\* column typed (SearchFilter's LineColumnSuffixesParse).  It is a fact
\* about constants; `vars = vars` makes it a state predicate, which TLC
\* checks as an invariant of this run.
FilterSplitAsDocumented == vars = vars /\ LineColumnSuffixesParse

VARIABLES version, debouncing, runs, disposedSrc, bcPending, currentModel,
          conflicts, tree, rendered, refresh, accepting, opened, changes,
          life, caps, added, listeners, disposed,
          emitterOf, handlers, disposedEm, created, subOf, received, owed,
          nextHandle, extLive, chan, registrations, service

bcVars == <<version, debouncing, runs, disposedSrc, bcPending, currentModel>>
syncVars == <<conflicts, tree, rendered, refresh, accepting, opened, changes>>
terminalVars == <<life, caps, added, listeners, disposed>>
msgVars == <<emitterOf, handlers, disposedEm, created, subOf, received, owed>>
aiVars == <<nextHandle, extLive, chan, registrations, service>>

Breadcrumbs == INSTANCE DiffEditorBreadcrumbs WITH pending <- bcPending
Conflicts == INSTANCE SyncConflicts WITH Files <- MCFiles
Terminal == INSTANCE TerminalCapabilityEvents
Messaging == INSTANCE RendererMessaging
Ai == INSTANCE AiRelatedInformation

\* The terminal capability multiplexer and the renderer message emitters,
\* interleaved: both relay events to listeners that come and go.
RelaysInit == Terminal!Init /\ Messaging!Init
RelaysNext ==
  \/ Terminal!Next /\ UNCHANGED msgVars
  \/ Messaging!Next /\ UNCHANGED terminalVars

(***************************************************************************)
(* Five groups of components that share no state: the workspace symbol     *)
(* search, the diff editor's breadcrumbs source, the sync conflicts view,  *)
(* the two event relays, and the AI related information registry.  A       *)
(* state predicate of one group holds in every state of the composition    *)
(* exactly when it holds in every state of that group alone.  So one       *)
(* group, `turn`, chosen at the start, takes every step, while the others  *)
(* keep an initial state: TLC reaches every state of each group without    *)
(* their product.  A group that is not taking the steps starts in one      *)
(* initial state (no conflicts, no terminal listed).                       *)
(***************************************************************************)
VARIABLE turn

groupVars == <<vars, bcVars, syncVars, terminalVars, msgVars, aiVars, turn>>

SymbolsInit ==
  /\ turn \in 1..5
  /\ Init /\ Breadcrumbs!Init /\ Conflicts!Init /\ RelaysInit /\ Ai!Init
  /\ turn # 3 => conflicts = {}
  /\ turn # 4 => \A i \in Instances : life[i] = "new"

SymbolsSpec ==
  /\ SymbolsInit
  /\ [][/\ UNCHANGED turn
        /\ \/ turn = 1 /\ Next
              /\ UNCHANGED <<bcVars, syncVars, terminalVars, msgVars, aiVars>>
           \/ turn = 2 /\ Breadcrumbs!Next
              /\ UNCHANGED <<vars, syncVars, terminalVars, msgVars, aiVars>>
           \/ turn = 3 /\ Conflicts!Next
              /\ UNCHANGED <<vars, bcVars, terminalVars, msgVars, aiVars>>
           \/ turn = 4 /\ RelaysNext
              /\ UNCHANGED <<vars, bcVars, syncVars, aiVars>>
           \/ turn = 5 /\ Ai!Next
              /\ UNCHANGED <<vars, bcVars, syncVars, terminalVars, msgVars>>]_groupVars

\* Once the live run's outline has arrived and no edit waits for the
\* debounce, the breadcrumbs source holds the outline of the current text
\* (DiffEditorBreadcrumbs' SettlesOnLatestOutline).
SettlesOnLatestOutline == Breadcrumbs!SettlesOnLatestOutline

\* getBreadcrumbItems lists the symbols enclosing a hidden range from the
\* outermost inward (DiffEditorBreadcrumbs' BreadcrumbsOutermostFirst), a
\* fact about constants checked as a state predicate.
BreadcrumbsOutermostFirst == bcVars = bcVars /\ Breadcrumbs!BreadcrumbsOutermostFirst

\* See SyncConflicts: the tree groups every profile's conflicts under one
\* root, default profile first, in the service's order within a profile.
TreeGroupsConflictsByProfile == Conflicts!TreeGroupsConflictsByProfile

\* See TerminalCapabilityEvents: until the multiplexer is disposed, the
\* capability with the id of every listed terminal has a listener.
ListedCapabilitiesForwarded == Terminal!ListedCapabilitiesForwarded

RelaysTypeOK == Messaging!TypeOK /\ Ai!AITypeOK

\* See RendererMessaging: every listener of onDidReceiveMessage gets
\* exactly the messages posted for its renderer while it is subscribed.
EveryMessageReachesSubscribers == Messaging!EveryMessageReachesSubscribers

=========================================================================
