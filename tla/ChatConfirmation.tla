-------------------------- MODULE ChatConfirmation --------------------------
(* A confirmation in a chat response (ChatConfirmationContentPart in       *)
(* chat/browser/chatContentParts/chatConfirmationContentPart.ts).  Each    *)
(* render of the response builds a new part whose widget shows its buttons *)
(* unless confirmation.isUsed; a click sends a chat request carrying the   *)
(* answer, and when sendRequest resolves truthy the part marks the         *)
(* confirmation used and hides its buttons.                                *)
(*                                                                         *)
(* The chat service is outside this repository and is modelled by what    *)
(* the part relies on: sendRequest refuses (resolves undefined) while the  *)
(* session already has a request pending and otherwise starts one.  Its   *)
(* promise resolves as a microtask, so no render, click or completion    *)
(* comes between the call and the code after the await: the handler is    *)
(* one step.  Other requests of the session, typed by the user, start and  *)
(* complete too.                                                           *)
EXTENDS Naturals

CONSTANTS
  IsResponse,  \* isResponseVM(element) for the rendered element
  MaxRenders,  \* bound on renders of the response
  MaxOther     \* bound on requests the user sends in the same session

VARIABLES
  isUsed,      \* confirmation.isUsed (shared by every render)
  part,        \* the current render; earlier parts are disposed
  showButtons, \* the current part's widget shows its buttons
  busy,        \* the session has a request pending
  sent,        \* requests this confirmation's clicks have started
  others

ccVars == <<isUsed, part, showButtons, busy, sent, others>>

Init ==
  /\ isUsed = FALSE
  /\ part = 1
  /\ showButtons = ~isUsed
  /\ busy \in BOOLEAN
  /\ sent = 0
  /\ others = 0

\* (mutant) the constructor shows the buttons whatever isUsed says.
RenderIgnoringUsed ==
  /\ part < MaxRenders
  /\ part' = part + 1
  /\ showButtons' = TRUE
  /\ UNCHANGED <<isUsed, busy, sent, others>>

\* The list renders the response again: a new part, whose widget shows its
\* buttons unless the confirmation is used; the old part, with its click
\* listener, is disposed.
Render ==
  /\ part < MaxRenders
  /\ part' = part + 1
  /\ showButtons' = ~isUsed
  /\ UNCHANGED <<isUsed, busy, sent, others>>

\* onDidClick: sendRequest starts a request unless one is pending; on its
\* truthy result the handler marks the confirmation used and hides the
\* buttons (and fires the height event).  A refused request changes nothing.
Click ==
  /\ showButtons
  /\ IsResponse
  /\ IF busy
     THEN UNCHANGED <<isUsed, showButtons, busy, sent>>
     ELSE /\ busy' = TRUE
          /\ sent' = sent + 1
          /\ isUsed' = TRUE
          /\ showButtons' = FALSE
  /\ UNCHANGED <<part, others>>

\* The pending request completes.
Complete ==
  /\ busy
  /\ busy' = FALSE
  /\ UNCHANGED <<isUsed, part, showButtons, sent, others>>

\* The user sends a message of their own in the session.
OtherRequest ==
  /\ ~busy
  /\ others < MaxOther
  /\ busy' = TRUE
  /\ others' = others + 1
  /\ UNCHANGED <<isUsed, part, showButtons, sent>>

Next ==
  \/ Render
  \/ Click
  \/ Complete
  \/ OtherRequest

Spec == Init /\ [][Next]_ccVars

CCTypeOK ==
  /\ isUsed \in BOOLEAN
  /\ part \in 1..MaxRenders
  /\ showButtons \in BOOLEAN
  /\ busy \in BOOLEAN
  /\ sent \in Nat
  /\ others \in 0..MaxOther

\* A confirmation is answered by at most one chat request however the user
\* clicks, other requests come and go and the response re-renders: the
\* isUsed flag onDidClick sets is what a later render's constructor reads
\* to hide the buttons of the new part.
AnsweredOnce == sent <= 1

=============================================================================
