---------------------------- MODULE SyncConflicts ----------------------------
(***************************************************************************)
(* The settings sync conflicts view (UserDataSyncConflictsViewPane in      *)
(* contrib/userDataSync/browser/userDataSyncConflictsView.ts).             *)
(*                                                                         *)
(* The view refreshes on onDidChangeConflicts; a refresh re-reads          *)
(* userDataSyncService.conflicts, sorts the resource previews by profile   *)
(* (default profile first, then by name), groups adjacent previews of one  *)
(* profile under a root, and shows the previews flat when the default      *)
(* profile is the only one.  Each tree item carries its preview serialised *)
(* in its handle; Show Conflicts, Accept Remote and Accept Local parse the  *)
(* handle back.  Show Conflicts first checks the conflict still exists.    *)
(***************************************************************************)
EXTENDS Naturals, Sequences, SequencesExt

CONSTANTS
  Profiles,   \* user data profiles
  Default,    \* the default profile
  NameRank,   \* profile -> position of its name in localeCompare order
  ServiceRank,\* profile -> position of its conflicts in the service's array
  Files,      \* profile -> its conflicting resource previews, 1..n
  MaxPending, \* bound on accept calls pending for one preview
  MaxChanges  \* bound on sync runs that change the conflicts

ASSUME Default \in Profiles
\* Profile names are distinct (the profiles service names them uniquely).
ASSUME \A p, q \in Profiles : p # q => NameRank[p] # NameRank[q]

\* A conflicting resource preview of a profile.
Items == UNION {{p} \X Files[p] : p \in Profiles}

VARIABLES
  conflicts,  \* userDataSyncService.conflicts (as a set; order: Canonical)
  tree,       \* what the tree view shows: the last getTreeItems result
  rendered,   \* the conflicts that result was computed from
  refresh,    \* a treeView.refresh() is pending
  accepting,  \* preview -> accept calls made and not yet finished
  opened,     \* the conflicts opened in a merge editor
  changes     \* sync runs so far

vars == <<conflicts, tree, rendered, refresh, accepting, opened, changes>>

-----------------------------------------------------------------------------
(* getTreeItems as operators                                               *)

\* The service's own order of its conflicts: by profile, then by preview.
ServiceBefore(a, b) ==
  \/ ServiceRank[a[1]] < ServiceRank[b[1]]
  \/ ServiceRank[a[1]] = ServiceRank[b[1]] /\ a[2] < b[2]

RECURSIVE Canonical(_)
Canonical(cs) ==
  IF cs = {} THEN <<>>
  ELSE LET m == CHOOSE x \in cs : \A y \in cs \ {x} : ServiceBefore(x, y)
       IN <<m>> \o Canonical(cs \ {m})

\* (mutant) the comparator without the default profile's special case.
BeforeByNameOnly(a, b) ==
  /\ a[1] # b[1]
  /\ NameRank[a[1]] < NameRank[b[1]]

\* The sort comparator of getTreeItems, read as "a goes before b"; it
\* returns 0 for two previews of one profile.
Before(a, b) ==
  /\ a[1] # b[1]
  /\ \/ a[1] = Default
     \/ b[1] # Default /\ NameRank[a[1]] < NameRank[b[1]]

\* Array.prototype.sort is stable: an insertion sort with the comparator;
\* x, which came first, stays ahead of every element not strictly before it.
RECURSIVE InsertSorted(_, _)
InsertSorted(x, s) ==
  IF s = <<>> \/ ~Before(Head(s), x) THEN <<x>> \o s
  ELSE <<Head(s)>> \o InsertSorted(x, Tail(s))

RECURSIVE SortByProfile(_)
SortByProfile(s) ==
  IF s = <<>> THEN <<>>
  ELSE InsertSorted(Head(s), SortByProfile(Tail(s)))

\* (mutant) the preview compared with the first group, not the last.
RECURSIVE GroupAdjacentFirst(_, _)
GroupAdjacentFirst(groups, s) ==
  IF s = <<>> THEN groups
  ELSE LET x == Head(s) IN
       IF groups # <<>> /\ groups[1].profile = x[1]
       THEN GroupAdjacentFirst([groups EXCEPT ![1].items = Append(@, x)],
                               Tail(s))
       ELSE GroupAdjacentFirst(Append(groups, [profile |-> x[1], items |-> <<x>>]),
                               Tail(s))

\* The loop that starts a new group when the previous group's profile
\* differs (conflictResourcesByProfile).
RECURSIVE GroupAdjacent(_, _)
GroupAdjacent(groups, s) ==
  IF s = <<>> THEN groups
  ELSE LET x == Head(s) IN
       IF groups # <<>> /\ Last(groups).profile = x[1]
       THEN GroupAdjacent([groups EXCEPT ![Len(groups)].items = Append(@, x)],
                          Tail(s))
       ELSE GroupAdjacent(Append(groups, [profile |-> x[1], items |-> <<x>>]),
                          Tail(s))

\* getTreeItems: the roots, one per group, or the default profile's items
\* flat when it is the only group.
getTreeItems(cs) ==
  LET groups == GroupAdjacent(<<>>, SortByProfile(Canonical(cs)))
  IN IF Len(groups) = 1 /\ groups[1].profile = Default
     THEN [flat |-> TRUE, roots |-> groups]
     ELSE [flat |-> FALSE, roots |-> groups]

\* The previews a tree shows (each one's handle).
Shown(t) == UNION {ToSet(t.roots[i].items) : i \in DOMAIN t.roots}

-----------------------------------------------------------------------------

Init ==
  /\ conflicts \in SUBSET Items
  /\ tree = getTreeItems(conflicts)
  /\ rendered = conflicts
  /\ refresh = FALSE
  /\ accepting = [i \in Items |-> 0]
  /\ opened = {}
  /\ changes = 0

\* A sync run changes the conflicts; onDidChangeConflicts refreshes the view.
ChangeConflicts(cs) ==
  /\ cs # conflicts
  /\ changes < MaxChanges
  /\ changes' = changes + 1
  /\ conflicts' = cs
  /\ refresh' = TRUE
  /\ UNCHANGED <<tree, rendered, accepting, opened>>

\* The tree view asks for its children again.
Refresh ==
  /\ refresh
  /\ refresh' = FALSE
  /\ tree' = getTreeItems(conflicts)
  /\ rendered' = conflicts
  /\ UNCHANGED <<conflicts, accepting, opened, changes>>

\* Show Conflicts on item i: open() returns unless the conflict (compared by
\* its local resource) is still among the conflicts.
Open(i) ==
  /\ i \in Shown(tree)
  /\ i \in conflicts
  /\ opened' = opened \cup {i}
  /\ UNCHANGED <<conflicts, tree, rendered, refresh, accepting, changes>>

\* Accept Remote / Accept Local on item i: parse the handle and call
\* userDataSyncWorkbenchService.accept for it.
Accept(i) ==
  /\ i \in Shown(tree)
  /\ accepting[i] < MaxPending
  /\ accepting' = [accepting EXCEPT ![i] = @ + 1]
  /\ UNCHANGED <<conflicts, tree, rendered, refresh, opened, changes>>

\* The accept call finishes: the conflict is resolved and the service fires
\* onDidChangeConflicts.
AcceptDone(i) ==
  /\ accepting[i] > 0
  /\ accepting' = [accepting EXCEPT ![i] = @ - 1]
  /\ conflicts' = conflicts \ {i}
  /\ refresh' = TRUE
  /\ UNCHANGED <<tree, rendered, opened, changes>>

Next ==
  \/ \E cs \in SUBSET Items : ChangeConflicts(cs)
  \/ Refresh
  \/ \E i \in Items : Open(i) \/ Accept(i) \/ AcceptDone(i)

Spec == Init /\ [][Next]_vars

-----------------------------------------------------------------------------
(* Properties                                                              *)

\* What getTreeItems must produce from the conflicts it read: one root per
\* profile with conflicts, holding exactly that profile's previews in the
\* service's order; the default profile's root first and the others by
\* name; and the previews flat exactly when only the default profile has
\* conflicts.
TreeGroupsConflictsByProfile ==
  LET rs == tree.roots
      ps == {x[1] : x \in rendered}
  IN /\ {rs[i].profile : i \in DOMAIN rs} = ps
     /\ \A i, j \in DOMAIN rs : i < j =>
           /\ rs[j].profile # Default
           /\ rs[i].profile # Default => NameRank[rs[i].profile] < NameRank[rs[j].profile]
     /\ \A i \in DOMAIN rs :
           rs[i].items = SelectSeq(Canonical(rendered),
                                   LAMBDA x : x[1] = rs[i].profile)
     /\ tree.flat = (ps = {Default})

=============================================================================
