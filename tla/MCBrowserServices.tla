-------------------------- MODULE MCBrowserServices --------------------------
(* Two services of the browser workbench: BrowserRequestService.request    *)
(* with the server's RequestService behind it (BrowserRequest), checked    *)
(* with two versions of the server's 'http' configuration, and             *)
(* BrowserClipboardService.readText (ClipboardRead) with two clipboard     *)
(* texts; and a menu connected to an SCM action bar by connectPrimaryMenu  *)
(* (ScmMenu).  They share no state.  `turn`, chosen once, says which of   *)
(* the three a behaviour takes steps of; the other two stay in one initial *)
(* state.                                                                  *)
EXTENDS Naturals, Sequences, TLC

CONSTANTS C1, C2, FollowRedirects, MaxConfigChanges, None, Texts, Empty,
          A1, A2, MaxConnects

\* Two versions of the server's 'http' configuration.
MCConfigs == {C1, C2}

VARIABLES
  config, changes, phase, proxyCfg, authCfg, hops, cancelled, outcome,
  connection, bphase, bresult,
  granted, content, inTests, cphase, listenerLive, cresult, lastRead,
  filled, pendingChange, connected, cachedPrimary, cachedSecondary, delivered,
  connects,
  turn

\* What an SCM menu can fill: nothing; one enabled MenuItemAction, also
\* checked (a toggle, which compareActions does not tell apart), or
\* disabled; and the same with a submenu in the secondary list.
Item(a, e, c) ==
  [id |-> a, enabled |-> e, hidden |-> FALSE, checked |-> c, item |-> TRUE]
Submenu(a) ==
  [id |-> a, enabled |-> TRUE, hidden |-> FALSE, checked |-> FALSE, item |-> FALSE]
MCFills ==
  { << <<>>, <<>> >>,
    << <<Item(A1, TRUE, FALSE)>>, <<>> >>,
    << <<Item(A1, TRUE, TRUE)>>, <<>> >>,
    << <<Item(A1, TRUE, FALSE)>>, <<Submenu(A2)>> >>,
    << <<Item(A1, FALSE, FALSE)>>, <<Submenu(A2)>> >> }

Request == INSTANCE BrowserRequest WITH Configs <- MCConfigs
Clipboard == INSTANCE ClipboardRead
Scm == INSTANCE ScmMenu WITH Fills <- MCFills

requestVars == <<config, changes, phase, proxyCfg, authCfg, hops, cancelled,
                 outcome, connection, bphase, bresult>>
clipVars == <<granted, content, inTests, cphase, listenerLive, cresult, lastRead>>
scmVars == <<filled, pendingChange, connected, cachedPrimary, cachedSecondary,
             delivered, connects>>
vars == <<requestVars, clipVars, scmVars, turn>>

Init ==
  /\ turn \in 1..3
  /\ Request!Init /\ Clipboard!Init /\ Scm!Init
  /\ turn # 1 => config = C1 /\ ~connection
  /\ turn # 2 => ~granted /\ content = (CHOOSE t \in Texts : TRUE) /\ ~inTests
  /\ turn # 3 => filled = << <<>>, <<>> >>

\* A step of the request service, the others still.
ServiceStep(A) == turn = 1 /\ A /\ UNCHANGED <<clipVars, scmVars>>

Next ==
  /\ UNCHANGED turn
  /\ \/ ServiceStep(Request!Next)
     \/ turn = 2 /\ Clipboard!Next /\ UNCHANGED <<requestVars, scmVars>>
     \/ turn = 3 /\ Scm!Next /\ UNCHANGED <<requestVars, clipVars>>

\* BrowserRequest's fairness: request() runs, an aborted local request
\* rejects, and the server's awaits on the shell environment and the
\* proxy agent complete.  The caller, the network, the user and the SCM
\* menu get none.
FairSpec ==
  /\ Init /\ [][Next]_vars
  /\ WF_vars(ServiceStep(Request!Start /\ UNCHANGED turn))
  /\ WF_vars(ServiceStep(cancelled /\ Request!LocalFail /\ UNCHANGED turn))
  /\ WF_vars(ServiceStep(Request!RemoteStep /\ UNCHANGED turn))
  /\ WF_vars(ServiceStep(Request!RemoteDone /\ UNCHANGED turn))

TypeOK == Request!TypeOK /\ Clipboard!ClipTypeOK /\ Scm!ScmTypeOK

\* See BrowserRequest: at most followRedirects redirects are followed.
RedirectsFollowedUpToLimit == Request!RedirectsFollowedUpToLimit

\* See BrowserRequest: after cancellation no raw request stays open.
CancelAbortsEveryHop == Request!CancelAbortsEveryHop

\* See BrowserRequest: once the caller cancels, request() settles.
CancelledRequestSettles == Request!CancelledRequestSettles

\* See ClipboardRead: readText() resolves once, with what its last attempt
\* gave, however many times the user retries.
ResolvesWithLastAttempt == Clipboard!ResolvesWithLastAttempt

\* See ScmMenu: once the menu's change events are handled, a live
\* connection's callback holds the menu's actions up to compareActions.
DeliveredMatchesMenuWhenSettled == Scm!DeliveredMatchesMenuWhenSettled

=============================================================================
