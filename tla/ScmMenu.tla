------------------------------- MODULE ScmMenu -------------------------------
(* connectPrimaryMenu in scm/browser/util.ts: a menu connected to a        *)
(* callback that receives its primary and secondary actions.  The closure  *)
(* caches the lists it last delivered (both [] at first); updateActions    *)
(* fills fresh lists from the menu and calls the callback unless both are *)
(* equal to the cached ones under compareActions.  It runs once on         *)
(* connect and then on every onDidChange of the menu, until the returned   *)
(* disposable removes the listener.                                        *)
(*                                                                         *)
(* What createAndFillInActionBarActions puts in the lists for the menu's   *)
(* current context is outside this repository; `filled` is that result, a *)
(* member of Fills.  An action is a record [id, enabled, hidden, checked,  *)
(* item], item saying it is a MenuItemAction.  The menu fires onDidChange  *)
(* after its context changes, not within the change: `pendingChange`.     *)
EXTENDS Naturals, Sequences, SequencesExt

CONSTANTS
  Fills,        \* the <<primary, secondary>> pairs the menu can fill
  None,
  MaxConnects   \* bound on connectPrimaryMenu calls

VARIABLES
  filled,       \* what the menu would fill in its current context
  pendingChange, \* an onDidChange of the menu is pending
  connected,    \* the onDidChange listener of the connection is live
  cachedPrimary,
  cachedSecondary,
  delivered,    \* the callback's arguments on this connection, or None
  connects

scmVars == <<filled, pendingChange, connected, cachedPrimary, cachedSecondary,
             delivered, connects>>

Init ==
  /\ filled \in Fills
  /\ pendingChange = FALSE
  /\ connected = FALSE
  /\ cachedPrimary = <<>>
  /\ cachedSecondary = <<>>
  /\ delivered = None
  /\ connects = 0

\* compareActions: id and enabled, and the hidden state when both are
\* MenuItemActions; the checked state is not compared.
compareActions(a, b) ==
  /\ a.id = b.id
  /\ a.enabled = b.enabled
  /\ (a.item /\ b.item) => a.hidden = b.hidden

\* equals from base/common/arrays with compareActions.
SameActions(s, t) ==
  /\ Len(s) = Len(t)
  /\ \A i \in 1..Len(s) : compareActions(s[i], t[i])

\* (mutant) only the primary lists are compared.
updateActionsPrimaryOnly(cp, cs, d, fill) ==
  IF SameActions(cp, fill[1])
  THEN /\ cachedPrimary' = cp /\ cachedSecondary' = cs /\ delivered' = d
  ELSE /\ cachedPrimary' = fill[1] /\ cachedSecondary' = fill[2]
       /\ delivered' = fill

\* updateActions of a closure whose caches are cp and cs and whose callback
\* last got d, on the lists the menu fills now.
updateActions(cp, cs, d, fill) ==
  IF SameActions(cp, fill[1]) /\ SameActions(cs, fill[2])
  THEN /\ cachedPrimary' = cp /\ cachedSecondary' = cs /\ delivered' = d
  ELSE /\ cachedPrimary' = fill[1] /\ cachedSecondary' = fill[2]
       /\ delivered' = fill

\* connectPrimaryMenu: a fresh closure with empty caches runs
\* updateActions once, then listens to onDidChange (an event still pending
\* reaches the new listener).
Connect ==
  /\ ~connected
  /\ connects < MaxConnects
  /\ connected' = TRUE
  /\ connects' = connects + 1
  /\ updateActions(<<>>, <<>>, None, filled)
  /\ UNCHANGED <<filled, pendingChange>>

\* The menu's context changes, so what it fills changes; its onDidChange
\* fires later.
ContextChange(f) ==
  /\ filled' = f
  /\ pendingChange' = TRUE
  /\ UNCHANGED <<connected, cachedPrimary, cachedSecondary, delivered, connects>>

\* The pending onDidChange fires: updateActions runs if the listener is
\* live.
OnDidChange ==
  /\ pendingChange
  /\ pendingChange' = FALSE
  /\ IF connected
     THEN updateActions(cachedPrimary, cachedSecondary, delivered, filled)
     ELSE UNCHANGED <<cachedPrimary, cachedSecondary, delivered>>
  /\ UNCHANGED <<filled, connected, connects>>

\* The disposable connectPrimaryMenu returned is disposed.
Dispose ==
  /\ connected
  /\ connected' = FALSE
  /\ UNCHANGED <<filled, pendingChange, cachedPrimary, cachedSecondary, delivered,
                 connects>>

Next ==
  \/ Connect
  \/ \E f \in Fills : ContextChange(f)
  \/ OnDidChange
  \/ Dispose

Spec == Init /\ [][Next]_scmVars

Actions == UNION {Range(f[1]) \cup Range(f[2]) : f \in Fills}

ScmTypeOK ==
  /\ filled \in Fills
  /\ pendingChange \in BOOLEAN
  /\ connected \in BOOLEAN
  /\ cachedPrimary \in Seq(Actions)
  /\ cachedSecondary \in Seq(Actions)
  /\ delivered \in Fills \cup {None}
  /\ connects \in 0..MaxConnects

\* What the callback holds on this connection: its last arguments, or the
\* empty lists it started from when it has not been called.
Held == IF delivered = None THEN <<<<>>, <<>>>> ELSE delivered

\* Once the menu's change events have been handled, the callback of a live
\* connection holds the menu's current primary and secondary actions up to
\* compareActions, whatever contexts the menu went through and whenever
\* it was connected: the equals checks against cachedPrimary and
\* cachedSecondary in updateActions skip only the deliveries that change
\* nothing.
DeliveredMatchesMenuWhenSettled ==
  (connected /\ ~pendingChange) =>
    /\ SameActions(Held[1], filled[1])
    /\ SameActions(Held[2], filled[2])

=============================================================================
