----------------------- MODULE TerminalCapabilityEvents -----------------------
(***************************************************************************)
(* createInstanceCapabilityEventMultiplexer                               *)
(* (contrib/terminal/browser/terminalEvents.ts).                           *)
(*                                                                         *)
(* The multiplexer forwards an event of the capability with id             *)
(* capabilityId of every terminal instance.  It listens to the capability  *)
(* objects the instances have when it is created, and, through two        *)
(* DynamicListEventMultiplexers over the instance list, to the instances'  *)
(* onDidAddCapability / onDidRemoveCapability: an added capability with    *)
(* the id gets a listener stored in capabilityListeners under the          *)
(* capability object, a removed one has its listener deleted and          *)
(* disposed.  The dynamic multiplexers stop listening to an instance on    *)
(* onRemoveInstance.  dispose() disposes the whole store.                  *)
(*                                                                         *)
(* A capability object is <<instance, n>>: the n-th capability with the    *)
(* id the instance's capability store has been given; capabilities with    *)
(* other ids matter only through the id test, so one other id stands for   *)
(* them.                                                                   *)
(***************************************************************************)
EXTENDS Naturals, FiniteSets

CONSTANTS
  Instances,  \* terminal instances
  Target,     \* capabilityId
  Other,      \* any other capability id
  MaxAdds,    \* bound on capabilities with the id added to one instance
  None

Ids == {Target, Other}

VARIABLES
  life,       \* instance -> "new", "listed" (in the instance list) or "removed"
  caps,       \* instance -> id -> its capability object with that id, or None
  added,      \* instance -> capabilities with the id it has been given
  listeners,  \* capabilityListeners: capability -> instance of its listener
  disposed    \* the multiplexer's store is disposed

vars == <<life, caps, added, listeners, disposed>>

Listed == {i \in Instances : life[i] = "listed"}

\* addCapability: a listener mapping the capability's events to
\* { instance, data }, set in capabilityListeners (the map disposes a
\* listener already stored under the same capability).
addCapability(i, c) == listeners' = [k \in DOMAIN listeners \cup {c} |->
                                       IF k = c THEN i ELSE listeners[k]]

\* deleteAndDispose(capability).
deleteAndDispose(c) ==
  listeners' = [k \in DOMAIN listeners \ {c} |-> listeners[k]]

\* A new capability object with an id for instance i.
NewCap(i, id) == IF id = Target THEN <<i, added[i] + 1>> ELSE <<i, 0>>

-----------------------------------------------------------------------------

\* The instances given as currentInstances, some with the capability; the
\* loop over them adds a listener for each capability they have.
Init ==
  /\ \E L \in SUBSET Instances :
       /\ life = [i \in Instances |-> IF i \in L THEN "listed" ELSE "new"]
       /\ \E has \in [L -> BOOLEAN], other \in [L -> BOOLEAN] :
            /\ caps = [i \in Instances |->
                        [id \in Ids |->
                          IF i \in L /\ (IF id = Target THEN has[i] ELSE other[i])
                          THEN (IF id = Target THEN <<i, 1>> ELSE <<i, 0>>)
                          ELSE None]]
            /\ added = [i \in Instances |-> IF i \in L /\ has[i] THEN 1 ELSE 0]
  /\ listeners = [c \in {caps[i][Target] : i \in {j \in Instances : caps[j][Target] # None}}
                    |-> c[1]]
  /\ disposed = FALSE

\* onAddInstance: a new terminal joins the list, still without capabilities;
\* both dynamic multiplexers start listening to its capability store.
AddInstance(i) ==
  /\ life[i] = "new"
  /\ life' = [life EXCEPT ![i] = "listed"]
  /\ UNCHANGED <<caps, added, listeners, disposed>>

\* onRemoveInstance: the terminal leaves the list; the dynamic multiplexers
\* stop listening to its store.  Its capabilities stay as they are.
RemoveInstance(i) ==
  /\ life[i] = "listed"
  /\ life' = [life EXCEPT ![i] = "removed"]
  /\ UNCHANGED <<caps, added, listeners, disposed>>

(* The capability store of a listed or removed instance is given a         *)
(* capability (replacing the one it has with that id) and fires            *)
(* onDidAddCapability; the handler runs if the multiplexer still listens   *)
(* to the instance and checks the id.                                      *)

\* (mutant) the handler that does not store the listener.
onAddCapabilityUnstored(i, id) == UNCHANGED listeners

onAddCapability(i, id) ==
  IF life[i] = "listed" /\ ~disposed /\ id = Target
  THEN addCapability(i, NewCap(i, id))
  ELSE UNCHANGED listeners

AddCapability(i, id) ==
  /\ life[i] # "new"
  /\ id = Target => added[i] < MaxAdds
  /\ caps' = [caps EXCEPT ![i][id] = NewCap(i, id)]
  /\ added' = [added EXCEPT ![i] = IF id = Target THEN @ + 1 ELSE @]
  /\ onAddCapability(i, id)
  /\ UNCHANGED <<life, disposed>>

\* The store removes its capability with the id and fires
\* onDidRemoveCapability; the handler deletes the listener of that object.
onRemoveCapability(i, id) ==
  IF life[i] = "listed" /\ ~disposed /\ id = Target
  THEN deleteAndDispose(caps[i][id])
  ELSE UNCHANGED listeners

RemoveCapability(i, id) ==
  /\ life[i] # "new"
  /\ caps[i][id] # None
  /\ caps' = [caps EXCEPT ![i][id] = None]
  /\ onRemoveCapability(i, id)
  /\ UNCHANGED <<life, added, disposed>>

\* dispose(): the store disposes the multiplexers and every listener.
Dispose ==
  /\ ~disposed
  /\ disposed' = TRUE
  /\ listeners' = [c \in {} |-> None]
  /\ UNCHANGED <<life, caps, added>>

Next ==
  \/ \E i \in Instances :
       \/ AddInstance(i) \/ RemoveInstance(i)
       \/ \E id \in Ids : AddCapability(i, id) \/ RemoveCapability(i, id)
  \/ Dispose

Spec == Init /\ [][Next]_vars

-----------------------------------------------------------------------------
(* Properties                                                              *)

\* Until the multiplexer is disposed, the capability with the id of every
\* terminal in the list has a listener, which tags its events with that
\* terminal, however capabilities and terminals come and go, and whether
\* the capability existed when the multiplexer was created or came later.
ListedCapabilitiesForwarded ==
  ~disposed =>
    \A i \in Listed :
      caps[i][Target] # None =>
        /\ caps[i][Target] \in DOMAIN listeners
        /\ listeners[caps[i][Target]] = i

=============================================================================
