---------------------------- MODULE BrowserRequest ----------------------------
(***************************************************************************)
(* BrowserRequestService.request (workbench/services/request/browser/      *)
(* requestService.ts) composed with the remote server's RequestService    *)
(* (NodeRequest) it falls back to.                                         *)
(*                                                                         *)
(* The browser fills options.proxyAuthorization from its own settings,     *)
(* sends the request itself and awaits it.  A 405 answer, or any error     *)
(* (a cancellation of the token included), is retried through the remote  *)
(* agent connection when there is one: the 'request' channel runs the      *)
(* server's RequestService.request with the same options and the same     *)
(* token.  Without a connection the 405 is returned and the error thrown.  *)
(*                                                                         *)
(* The local request (base/parts/request/browser/request) is outside this  *)
(* repository: it answers with a status, fails, or, once the token is     *)
(* cancelled, rejects without answering.                                   *)
(***************************************************************************)
EXTENDS Naturals, Sequences

CONSTANTS
  Configs,          \* versions of the server's 'http' configuration
  FollowRedirects,  \* options.followRedirects
  MaxConfigChanges, \* bound on configuration changes
  None

VARIABLES
  config, changes, phase, proxyCfg, authCfg, hops, cancelled, outcome,
  connection, \* remoteAgentService.getConnection() is defined
  bphase,     \* "idle", "local" (awaiting the local request), "remote", "done"
  bresult     \* what BrowserRequestService.request settled with

\* The server's RequestService handling the remote call; `cancelled` is the
\* token the channel forwards.
Remote == INSTANCE NodeRequest

nodeVars == <<config, changes, phase, proxyCfg, authCfg, hops, cancelled, outcome>>
vars == <<nodeVars, connection, bphase, bresult>>

Init ==
  /\ Remote!Init
  /\ connection \in BOOLEAN
  /\ bphase = "idle"
  /\ bresult = None

\* request(): options.proxyAuthorization from 'http.proxyAuthorization' when
\* unset, then await logAndRequest(request(options, token)).
Start ==
  /\ bphase = "idle"
  /\ bphase' = "local"
  /\ UNCHANGED <<nodeVars, connection, bresult>>

\* _makeRemoteRequest through the connection's 'request' channel.
makeRemoteRequest == bphase' = "remote"

\* The local request answers (it cannot once aborted by the token): a 405
\* goes to the remote when there is a connection, any other answer is the
\* result.
LocalRespond(status) ==
  /\ bphase = "local"
  /\ ~cancelled
  /\ IF connection /\ status = "405"
     THEN makeRemoteRequest /\ UNCHANGED bresult
     ELSE bphase' = "done" /\ bresult' = status
  /\ UNCHANGED <<nodeVars, connection>>

\* The local request rejects (network error or cancellation): the catch
\* block retries remotely, or rethrows without a connection.
LocalFail ==
  /\ bphase = "local"
  /\ IF connection
     THEN makeRemoteRequest /\ UNCHANGED bresult
     ELSE bphase' = "done" /\ bresult' = IF cancelled THEN "cancelled" ELSE "error"
  /\ UNCHANGED <<nodeVars, connection>>

\* The server's request() and nodeRequest run through their awaits while the
\* browser awaits the channel.
RemoteStep ==
  /\ bphase = "remote"
  /\ \/ Remote!Request \/ Remote!ResolveShellEnv \/ Remote!ResolveAgent
     \/ Remote!Send
     \/ \E h \in DOMAIN hops : Remote!SendRedirect(h) \/ Remote!DeferredCancel(h)
  /\ UNCHANGED <<connection, bphase, bresult>>

\* The network answers, fails or times out a raw request of the server.
RemoteNetwork ==
  /\ bphase = "remote"
  /\ \E h \in DOMAIN hops :
       \/ Remote!Fail(h) \/ Remote!Timeout(h)
       \/ \E redirect \in BOOLEAN : Remote!Respond(h, redirect)
  /\ UNCHANGED <<connection, bphase, bresult>>

\* The channel call settles with the server's outcome.
RemoteDone ==
  /\ bphase = "remote"
  /\ outcome # None
  /\ bphase' = "done"
  /\ bresult' = outcome
  /\ UNCHANGED <<nodeVars, connection>>

\* The caller cancels the token, seen by the local request and by the
\* server's listeners alike.
Cancel ==
  /\ Remote!Cancel
  /\ UNCHANGED <<connection, bphase, bresult>>

\* The server's 'http' settings change.
ChangeConfig(c) ==
  /\ Remote!ChangeConfig(c)
  /\ UNCHANGED <<connection, bphase, bresult>>

Next ==
  \/ Start \/ LocalFail \/ RemoteStep \/ RemoteNetwork \/ RemoteDone \/ Cancel
  \/ \E s \in {"200", "405"} : LocalRespond(s)
  \/ \E c \in Configs : ChangeConfig(c)

Spec == Init /\ [][Next]_vars

(* Fairness: the caller's request() runs; an aborted local request        *)
(* rejects (its cancellation listener); the server's awaits on the shell   *)
(* environment (bounded by its own timeout), the proxy agent and the http  *)
(* module resolve; a deferred listener's timer fires; and the channel      *)
(* delivers the server's settled result.  The network itself gets no       *)
(* fairness: a raw request may stay unanswered.                            *)
FairSpec ==
  /\ Spec
  /\ WF_vars(Start)
  /\ WF_vars(cancelled /\ LocalFail)
  /\ WF_vars(RemoteStep)
  /\ WF_vars(RemoteDone)

-----------------------------------------------------------------------------
(* Properties                                                              *)

TypeOK ==
  /\ Remote!TypeOK
  /\ connection \in BOOLEAN
  /\ bphase \in {"idle", "local", "remote", "done"}
  /\ bresult \in {None, "200", "405", "response", "redirect", "error", "cancelled"}

\* The server side follows at most followRedirects redirects (nodeRequest's
\* countdown), whether the request came from the browser or not.
RedirectsFollowedUpToLimit == Remote!RedirectsFollowedUpToLimit

\* After the token is cancelled no raw request of the server's chain stays
\* open, including one sent after the browser fell back to the remote.
CancelAbortsEveryHop == Remote!CancelAbortsEveryHop

\* Once the caller cancels the token, BrowserRequestService.request
\* settles, wherever it is: awaiting the local request, falling back to the
\* remote after the cancellation made the local one fail, or waiting on a
\* raw request of the server (nodeRequest's listener, registered after its
\* awaits, must still see a token cancelled before it).
CancelledRequestSettles == cancelled ~> bphase = "done"

=============================================================================
