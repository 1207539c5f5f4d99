-------------------------- MODULE RendererMessaging --------------------------
(***************************************************************************)
(* ExtHostNotebookRenderers (api/common/extHostNotebookRenderers.ts): the  *)
(* extension host's end of notebook renderer messaging.  An extension's    *)
(* messaging object for renderer r subscribes through                      *)
(* getOrCreateEmitterFor(r), which reuses the emitter in                   *)
(* _rendererMessageEmitters or creates one whose onDidRemoveLastListener   *)
(* disposes it and deletes r's entry; $postRendererMessage fires the       *)
(* entry's emitter, if any.                                                *)
(*                                                                         *)
(* The Emitter of base/common/event.ts is taken with its contract: a       *)
(* listener added to a disposed emitter gets Disposable.None and is never  *)
(* called; removing the last listener calls onDidRemoveLastListener; fire  *)
(* calls the current listeners.  An emitter is a number, and a message is  *)
(* counted rather than named: what matters is which listeners get it.     *)
(***************************************************************************)
EXTENDS Naturals, FiniteSets

CONSTANTS
  Renderers,    \* renderer ids
  Contributed,  \* the renderers the extension contributes
  Subscribers,  \* listeners of onDidReceiveMessage
  MaxEmitters,  \* bound on emitters created
  MaxPosts,     \* bound on messages posted to one listener
  None

ASSUME Contributed \subseteq Renderers

Emitters == 1..MaxEmitters

VARIABLES
  emitterOf,  \* _rendererMessageEmitters: renderer -> emitter, or None
  handlers,   \* emitter -> the listeners it calls
  disposedEm, \* emitters disposed
  created,    \* emitters created so far
  subOf,      \* listener -> [renderer, emitter] it subscribed with, or None
  received,   \* listener -> messages it was called with while subscribed
  owed        \* listener -> messages for its renderer posted while subscribed

msgVars == <<emitterOf, handlers, disposedEm, created, subOf, received, owed>>

\* getOrCreateEmitterFor(r): the emitter of r's entry, or a new one put in
\* the map; the map after the call.
getOrCreateEmitterFor(r) ==
  IF emitterOf[r] # None
  THEN [emitter |-> emitterOf[r], map |-> emitterOf]
  ELSE [emitter |-> created + 1, map |-> [emitterOf EXCEPT ![r] = created + 1]]

\* (mutant) onDidRemoveLastListener disposes the emitter but keeps the entry.
onDidRemoveLastListenerKeepEntry(r, e) ==
  /\ disposedEm' = disposedEm \cup {e}
  /\ emitterOf' = emitterOf

\* onDidRemoveLastListener of r's emitter e: e.dispose() and
\* _rendererMessageEmitters.delete(r).
onDidRemoveLastListener(r, e) ==
  /\ disposedEm' = disposedEm \cup {e}
  /\ emitterOf' = [emitterOf EXCEPT ![r] = None]

-----------------------------------------------------------------------------

Init ==
  /\ emitterOf = [r \in Renderers |-> None]
  /\ handlers = [e \in Emitters |-> {}]
  /\ disposedEm = {}
  /\ created = 0
  /\ subOf = [s \in Subscribers |-> None]
  /\ received = [s \in Subscribers |-> 0]
  /\ owed = [s \in Subscribers |-> 0]

\* (mutant) createRendererMessaging does not check the contribution.
createRendererMessagingUnchecked(r) == r \in Renderers

\* createRendererMessaging(manifest, r) returns a messaging object only for
\* a renderer the extension contributes, and throws for any other.
createRendererMessaging(r) == r \in Contributed

\* messaging.onDidReceiveMessage(listener) on the messaging object of
\* renderer r: the emitter's event adds the listener unless the emitter is
\* disposed.
Subscribe(s, r) ==
  LET g == getOrCreateEmitterFor(r)
  IN /\ createRendererMessaging(r)
     /\ subOf[s] = None
     /\ g.emitter \in Emitters
     /\ emitterOf' = g.map
     /\ created' = IF emitterOf[r] = None THEN created + 1 ELSE created
     /\ handlers' = IF g.emitter \in disposedEm THEN handlers
                    ELSE [handlers EXCEPT ![g.emitter] = @ \cup {s}]
     /\ subOf' = [subOf EXCEPT ![s] = [renderer |-> r, emitter |-> g.emitter]]
     /\ received' = [received EXCEPT ![s] = 0]
     /\ owed' = [owed EXCEPT ![s] = 0]
     /\ UNCHANGED disposedEm

\* The listener's disposable is disposed: the emitter drops it, and when
\* it was the last one, onDidRemoveLastListener runs.
Unsubscribe(s) ==
  LET r == subOf[s].renderer
      e == subOf[s].emitter
  IN /\ subOf[s] # None
     /\ subOf' = [subOf EXCEPT ![s] = None]
     /\ handlers' = [handlers EXCEPT ![e] = @ \ {s}]
     /\ IF handlers[e] = {s}
        THEN onDidRemoveLastListener(r, e)
        ELSE UNCHANGED <<disposedEm, emitterOf>>
     /\ UNCHANGED <<created, received, owed>>

\* $postRendererMessage(editorId, r, message) from the main thread: the
\* entry's emitter fires to its listeners.  A listener subscribed to r is
\* owed the message.
PostRendererMessage(r) ==
  LET firing == IF emitterOf[r] = None THEN {} ELSE handlers[emitterOf[r]]
      subscribed == {s \in Subscribers : subOf[s] # None /\ subOf[s].renderer = r}
  IN /\ \A s \in subscribed : owed[s] < MaxPosts
     /\ received' = [s \in Subscribers |-> IF s \in firing THEN received[s] + 1 ELSE received[s]]
     /\ owed' = [s \in Subscribers |-> IF s \in subscribed THEN owed[s] + 1 ELSE owed[s]]
     /\ UNCHANGED <<emitterOf, handlers, disposedEm, created, subOf>>

Next ==
  \/ \E s \in Subscribers, r \in Renderers : Subscribe(s, r)
  \/ \E s \in Subscribers : Unsubscribe(s)
  \/ \E r \in Renderers : PostRendererMessage(r)

Spec == Init /\ [][Next]_msgVars

-----------------------------------------------------------------------------

TypeOK ==
  /\ emitterOf \in [Renderers -> Emitters \cup {None}]
  /\ handlers \in [Emitters -> SUBSET Subscribers]
  /\ disposedEm \subseteq Emitters
  /\ created \in 0..MaxEmitters
  /\ \A s \in Subscribers :
       subOf[s] = None \/ subOf[s] \in [renderer : Contributed, emitter : Emitters]
  /\ received \in [Subscribers -> 0..MaxPosts]
  /\ owed \in [Subscribers -> 0..MaxPosts]

\* Every listener of onDidReceiveMessage is called with exactly the
\* messages posted for its renderer while it is subscribed, however other
\* listeners of that renderer come and go: a listener that subscribes
\* after the last one left must get a live emitter, not the disposed one
\* whose entry onDidRemoveLastListener deleted.
EveryMessageReachesSubscribers ==
  \A s \in Subscribers : received[s] = owed[s]

=============================================================================
