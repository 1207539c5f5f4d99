----------------------------- MODULE NodeRequest -----------------------------
(***************************************************************************)
(* One call of RequestService.request and the nodeRequest chain it starts  *)
(* (platform/request/node/requestService.ts).                              *)
(*                                                                         *)
(* request() snapshots proxyUrl/strictSSL, awaits the shell environment   *)
(* and the proxy agent, then reads `authorization` and calls nodeRequest.   *)
(* The 'http' configuration may change (configure()) at any await.         *)
(* nodeRequest awaits the http module, sends a raw request (a hop), and    *)
(* registers the token's cancellation listener.  A 3xx response with a     *)
(* location and redirect budget left starts a new nodeRequest (a new hop)  *)
(* whose promise settles the outer one; anything else resolves.  'error'   *)
(* rejects; a socket timeout has no listener.  The promise settles once:   *)
(* later resolve/reject calls are no-ops.  A listener registered on a      *)
(* token that is already cancelled is called from a setTimeout(0), not at  *)
(* once: until then the raw request it aborts is live.                     *)
(***************************************************************************)
EXTENDS Naturals, Sequences

CONSTANTS
  Configs,          \* versions of the 'http' configuration
  FollowRedirects,  \* options.followRedirects (default 3)
  MaxConfigChanges, \* bound on configuration changes
  None

VARIABLES
  config,      \* the current 'http' configuration (proxy, proxyAuthorization)
  changes,     \* configuration changes so far
  phase,       \* where request()/nodeRequest is suspended
  proxyCfg,    \* the configuration proxyUrl/strictSSL were read from (l.77)
  authCfg,     \* the configuration `authorization` was read from (l.98)
  hops,        \* nodeRequest calls: [budget, state, timedOut, deferred]
  cancelled,   \* the cancellation token fired
  outcome      \* the request promise: None or how it settled

vars == <<config, changes, phase, proxyCfg, authCfg, hops, cancelled, outcome>>

Phases == {"start", "shellEnv", "agent", "rawRequest", "sent"}
\* "awaiting": a redirect's nodeRequest awaits getNodeRequest, no raw
\* request yet.
HopStates == {"awaiting", "open", "responded", "errored", "aborted"}
Outcomes == {None, "response", "redirect", "error", "cancelled"}

\* Settle the promise: the first resolve/reject wins.
Settle(o) == outcome' = IF outcome = None THEN o ELSE outcome

\* (mutant) the listener never called when the token is already cancelled.
NewHopNoCancelCheck(budget) ==
  [budget |-> budget, state |-> "open", timedOut |-> FALSE, deferred |-> FALSE]

\* The raw request nodeRequest sends, with its cancellation listener
\* registered at the end of the body: on a token already cancelled the
\* listener's call is deferred to a timer.
NewHop(budget) ==
  [budget |-> budget, state |-> "open", timedOut |-> FALSE,
   deferred |-> cancelled]

\* A redirect's nodeRequest, suspended in its await on getNodeRequest.
AwaitingHop(budget) ==
  [budget |-> budget, state |-> "awaiting", timedOut |-> FALSE,
   deferred |-> FALSE]

-----------------------------------------------------------------------------

Init ==
  /\ config \in Configs
  /\ changes = 0
  /\ phase = "start"
  /\ proxyCfg = None
  /\ authCfg = None
  /\ hops = <<>>
  /\ cancelled = FALSE
  /\ outcome = None

\* configure(), on onDidChangeConfiguration affecting 'http'.
ChangeConfig(c) ==
  /\ c # config
  /\ changes < MaxConfigChanges
  /\ config' = c
  /\ changes' = changes + 1
  /\ UNCHANGED <<phase, proxyCfg, authCfg, hops, cancelled, outcome>>

\* request(): `const { proxyUrl, strictSSL } = this`, then await the shell
\* environment.
Request ==
  /\ phase = "start"
  /\ phase' = "shellEnv"
  /\ proxyCfg' = config
  /\ UNCHANGED <<config, changes, authCfg, hops, cancelled, outcome>>

\* getResolvedShellEnv settles (a failure is logged and ignored); request()
\* goes on to await getProxyAgent with the snapshot.
ResolveShellEnv ==
  /\ phase = "shellEnv"
  /\ phase' = "agent"
  /\ UNCHANGED <<config, changes, proxyCfg, authCfg, hops, cancelled, outcome>>

\* The agent arrives: options.agent, strictSSL and the Proxy-Authorization
\* header from `this.authorization` as it is now; nodeRequest starts and
\* awaits getNodeRequest.
ResolveAgent ==
  /\ phase = "agent"
  /\ phase' = "rawRequest"
  /\ authCfg' = config
  /\ UNCHANGED <<config, changes, proxyCfg, hops, cancelled, outcome>>

\* (mutant) a listener registered on a token already cancelled never fires.
SendUnsettled ==
  /\ phase = "rawRequest"
  /\ phase' = "sent"
  /\ hops' = <<NewHopNoCancelCheck(FollowRedirects)>>
  /\ UNCHANGED <<config, changes, proxyCfg, authCfg, cancelled, outcome>>

\* nodeRequest: rawRequest(opts, callback), req.end(), and the cancellation
\* listener.
Send ==
  /\ phase = "rawRequest"
  /\ phase' = "sent"
  /\ hops' = <<NewHop(FollowRedirects)>>
  /\ UNCHANGED <<config, changes, proxyCfg, authCfg, cancelled, outcome>>

\* A redirect's nodeRequest gets the http module and sends its raw request.
SendRedirect(h) ==
  /\ hops[h].state = "awaiting"
  /\ hops' = [hops EXCEPT ![h] = NewHop(hops[h].budget)]
  /\ UNCHANGED <<config, changes, phase, proxyCfg, authCfg, cancelled, outcome>>

\* The timer of a listener registered on a cancelled token fires:
\* req.abort() (a no-op on a finished request) and reject.
DeferredCancel(h) ==
  /\ hops[h].deferred
  /\ hops' = [hops EXCEPT ![h].deferred = FALSE,
                           ![h].state = IF @ = "open" THEN "aborted" ELSE @]
  /\ Settle("cancelled")
  /\ UNCHANGED <<config, changes, phase, proxyCfg, authCfg, cancelled>>

\* (mutant) the redirect test as `followRedirects > 1`.
RespondOffByOne(h, redirect) ==
  /\ hops[h].state = "open"
  /\ hops' = [hops EXCEPT ![h].state = "responded"] \o
               (IF redirect /\ hops[h].budget > 1
                THEN <<AwaitingHop(hops[h].budget - 1)>> ELSE <<>>)
  /\ IF redirect /\ hops[h].budget > 1
     THEN UNCHANGED outcome
     ELSE Settle(IF redirect THEN "redirect" ELSE "response")
  /\ UNCHANGED <<config, changes, phase, proxyCfg, authCfg, cancelled>>

\* (mutant) the redirect test as `followRedirects >= 0`.
RespondAtZero(h, redirect) ==
  /\ hops[h].state = "open"
  /\ hops' = [hops EXCEPT ![h].state = "responded"] \o
               (IF redirect /\ hops[h].budget >= 0
                THEN <<AwaitingHop(hops[h].budget - 1)>> ELSE <<>>)
  /\ IF redirect /\ hops[h].budget >= 0
     THEN UNCHANGED outcome
     ELSE Settle(IF redirect THEN "redirect" ELSE "response")
  /\ UNCHANGED <<config, changes, phase, proxyCfg, authCfg, cancelled>>

\* The response callback of hop h: a 3xx with a location and budget left
\* starts nodeRequest with followRedirects - 1 (the outer promise follows
\* it); otherwise resolve with this response.
Respond(h, redirect) ==
  /\ hops[h].state = "open"
  /\ hops' = [hops EXCEPT ![h].state = "responded"] \o
               (IF redirect /\ hops[h].budget > 0
                THEN <<AwaitingHop(hops[h].budget - 1)>> ELSE <<>>)
  /\ IF redirect /\ hops[h].budget > 0
     THEN UNCHANGED outcome
     ELSE Settle(IF redirect THEN "redirect" ELSE "response")
  /\ UNCHANGED <<config, changes, phase, proxyCfg, authCfg, cancelled>>

\* req.on('error', reject).
Fail(h) ==
  /\ hops[h].state = "open"
  /\ hops' = [hops EXCEPT ![h].state = "errored"]
  /\ Settle("error")
  /\ UNCHANGED <<config, changes, phase, proxyCfg, authCfg, cancelled>>

\* req.setTimeout(options.timeout) elapses: 'timeout' is emitted, and no
\* listener aborts the request.
Timeout(h) ==
  /\ hops[h].state = "open"
  /\ ~hops[h].timedOut
  /\ hops' = [hops EXCEPT ![h].timedOut = TRUE]
  /\ UNCHANGED <<config, changes, phase, proxyCfg, authCfg, cancelled, outcome>>

\* The token is cancelled: every registered listener aborts its request and
\* rejects with a CancellationError; a redirect still awaiting
\* getNodeRequest has no listener yet.
Cancel ==
  /\ ~cancelled
  /\ cancelled' = TRUE
  /\ hops' = [h \in DOMAIN hops |->
                IF hops[h].state \in {"errored", "awaiting"} THEN hops[h]
                ELSE [hops[h] EXCEPT !.state = "aborted"]]
  /\ IF hops # <<>> THEN Settle("cancelled") ELSE UNCHANGED outcome
  /\ UNCHANGED <<config, changes, phase, proxyCfg, authCfg>>

Next ==
  \/ \E c \in Configs : ChangeConfig(c)
  \/ Request \/ ResolveShellEnv \/ ResolveAgent \/ Send \/ Cancel
  \/ \E h \in DOMAIN hops :
        \/ SendRedirect(h) \/ DeferredCancel(h) \/ Fail(h) \/ Timeout(h)
        \/ \E redirect \in BOOLEAN : Respond(h, redirect)

Spec == Init /\ [][Next]_vars

-----------------------------------------------------------------------------
(* Properties                                                              *)

TypeOK ==
  /\ config \in Configs
  /\ changes \in 0..MaxConfigChanges
  /\ phase \in Phases
  /\ proxyCfg \in Configs \cup {None}
  /\ authCfg \in Configs \cup {None}
  /\ hops \in Seq([budget : 0..FollowRedirects, state : HopStates,
                   timedOut : BOOLEAN, deferred : BOOLEAN])
  /\ cancelled \in BOOLEAN
  /\ outcome \in Outcomes

\* The Proxy-Authorization header a request sends belongs to the proxy the
\* request goes through: both come from one 'http' configuration, even when
\* the configuration changes while request() awaits the shell environment
\* or the proxy agent.
ProxyAuthMatchesProxy ==
  hops # <<>> => authCfg = proxyCfg

\* nodeRequest follows at most followRedirects redirects, and resolves with
\* a 3xx response only when it has followed all of them.
RedirectsFollowedUpToLimit ==
  /\ Len(hops) <= FollowRedirects + 1
  /\ outcome = "redirect" => Len(hops) = FollowRedirects + 1

\* Once the token is cancelled and the timers of the listeners registered
\* after it have run, no raw request of the chain is left open, whether it
\* was sent before the cancellation or after it (the first request, or a
\* redirect whose nodeRequest was awaiting getNodeRequest), and the promise
\* is settled.
CancelAbortsEveryHop ==
  cancelled /\ hops # <<>> /\ (\A h \in DOMAIN hops : ~hops[h].deferred) =>
     /\ \A h \in DOMAIN hops : hops[h].state # "open"
     /\ outcome # None

=============================================================================
