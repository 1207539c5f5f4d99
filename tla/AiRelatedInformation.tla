------------------------- MODULE AiRelatedInformation -------------------------
(***************************************************************************)
(* MainThreadAiRelatedInformation (api/browser/                            *)
(* mainThreadAiRelatedInformation.ts): the main thread's end of the AI     *)
(* related information providers an extension registers.                   *)
(*                                                                         *)
(* The extension host numbers each provider it registers with a fresh     *)
(* handle and sends $registerAiRelatedInformationProvider(handle, type);   *)
(* disposing the provider sends $unregisterAiRelatedInformationProvider    *)
(* once.  The RPC protocol delivers the calls in the order they were sent  *)
(* (chan).  The main thread keeps each handle's registration with the      *)
(* service in a DisposableMap: set disposes a value it replaces,           *)
(* deleteAndDispose disposes and deletes the entry of a handle, if any.    *)
(***************************************************************************)
EXTENDS Naturals, Sequences

CONSTANTS
  Types,       \* RelatedInformationType values
  MaxHandles,  \* bound on providers the extension registers
  None

Handles == 1..MaxHandles

VARIABLES
  nextHandle,     \* the extension host's handle pool
  extLive,        \* the extension's providers not yet disposed: [handle, type]
  chan,           \* RPC calls sent and not yet handled
  registrations,  \* _registrations: handle -> the type registered, or None
  service         \* providers registered with the service and not disposed

aiVars == <<nextHandle, extLive, chan, registrations, service>>

\* _registrations.deleteAndDispose(handle).
deleteAndDispose(h) ==
  /\ registrations' = [registrations EXCEPT ![h] = None]
  /\ service' = IF registrations[h] = None THEN service
                ELSE service \ {[handle |-> h, type |-> registrations[h]]}

\* $registerAiRelatedInformationProvider(handle, type): a provider that
\* forwards to the extension host is registered with the service, and
\* _registrations.set disposes the registration it replaces.
register(h, t) ==
  /\ registrations' = [registrations EXCEPT ![h] = t]
  /\ service' = (IF registrations[h] = None THEN service
                 ELSE service \ {[handle |-> h, type |-> registrations[h]]})
                \cup {[handle |-> h, type |-> t]}

-----------------------------------------------------------------------------

Init ==
  /\ nextHandle = 0
  /\ extLive = {}
  /\ chan = <<>>
  /\ registrations = [h \in Handles |-> None]
  /\ service = {}

\* The extension registers a provider of type t.
RegisterProvider(t) ==
  /\ nextHandle < MaxHandles
  /\ nextHandle' = nextHandle + 1
  /\ extLive' = extLive \cup {[handle |-> nextHandle + 1, type |-> t]}
  /\ chan' = Append(chan, [op |-> "register", handle |-> nextHandle + 1, type |-> t])
  /\ UNCHANGED <<registrations, service>>

\* The extension disposes a provider.
DisposeProvider(p) ==
  /\ p \in extLive
  /\ extLive' = extLive \ {p}
  /\ chan' = Append(chan, [op |-> "unregister", handle |-> p.handle, type |-> p.type])
  /\ UNCHANGED <<nextHandle, registrations, service>>

\* The main thread handles the next call.
Receive ==
  /\ chan # <<>>
  /\ chan' = Tail(chan)
  /\ LET m == Head(chan)
     IN IF m.op = "register" THEN register(m.handle, m.type)
        ELSE deleteAndDispose(m.handle)
  /\ UNCHANGED <<nextHandle, extLive>>

Next ==
  \/ \E t \in Types : RegisterProvider(t)
  \/ \E p \in extLive : DisposeProvider(p)
  \/ Receive

Spec == Init /\ [][Next]_aiVars

-----------------------------------------------------------------------------

AITypeOK ==
  /\ nextHandle \in 0..MaxHandles
  /\ extLive \subseteq [handle : Handles, type : Types]
  /\ registrations \in [Handles -> Types \cup {None}]
  /\ service \subseteq [handle : Handles, type : Types]

=============================================================================
