------------------------- MODULE CommentFormActions -------------------------
(* The button row under a comment input (CommentFormActions in            *)
(* comments/browser/commentFormActions.ts).  setActions replaces the      *)
(* buttons by one per action of the menu, group by group, the first one    *)
(* primary, and stops at maxActions buttons; it remembers the group it     *)
(* reached in _actions, whose first action triggerDefaultAction (the       *)
(* Submit keybinding) runs.  A click on a button, or the default action,  *)
(* hands the action to actionHandler.                                     *)
(*                                                                         *)
(* An action is a record [id, enabled]; a menu is the result of            *)
(* menu.getActions: a sequence of groups, each a sequence of actions.     *)
(* Titles, labels and keybinding lookups are layout and left out.  The    *)
(* Button widget (outside this repository) fires onDidClick only while    *)
(* enabled.                                                                *)
EXTENDS Naturals, Sequences, SequencesExt

CONSTANTS
  Menus,       \* the menus getActions may return
  MaxActions,  \* the maxActions constructor argument, or None when undefined
  None,
  MaxRuns      \* bound on actions handed to actionHandler

VARIABLES
  buttons,     \* _buttonElements with the action each one's onDidClick runs
  actions,     \* _actions
  listening,   \* the click listeners in _toDispose are not disposed
  menu,        \* the menu last passed to setActions (None before the first)
  only,        \* the hasOnlySecondaryActions argument of that call
  ran,         \* the action last handed to actionHandler
  runs

cfVars == <<buttons, actions, listening, menu, only, ran, runs>>

Init ==
  /\ buttons = <<>>
  /\ actions = <<>>
  /\ listening = TRUE
  /\ menu = None
  /\ only = FALSE
  /\ ran = None
  /\ runs = 0

\* The actions of a menu in the order the loop visits them.
MenuActions(m) == FlattenSeq(m)

\* The loop returns after the k-th button once k >= maxActions, so it
\* stops at the first k >= max(1, maxActions).
Stops(m) ==
  MaxActions # None /\ Len(MenuActions(m)) >= Max({1, MaxActions})

ButtonCount(m) ==
  IF Stops(m) THEN Max({1, MaxActions}) ELSE Len(MenuActions(m))

\* Index of the group holding the k-th action of the menu.
GroupOf(m, k) ==
  CHOOSE g \in 1..Len(m) :
    /\ Len(FlattenSeq(SubSeq(m, 1, g))) >= k
    /\ Len(FlattenSeq(SubSeq(m, 1, g - 1))) < k

\* _actions is set at the start of every group the loop enters: the group
\* of the last button when it returns early, else the last group; a menu
\* with no groups leaves it as it was.
ReachedGroup(m) ==
  IF Stops(m) THEN GroupOf(m, ButtonCount(m)) ELSE Len(m)

\* (mutant) the early return tested with > instead of >=.
SetActionsStopLate(m, secondaryOnly) ==
  LET n == IF MaxActions # None /\ Len(MenuActions(m)) > MaxActions
           THEN MaxActions + 1 ELSE Len(MenuActions(m))
  IN /\ buttons' = [i \in 1..n |->
                      [action |-> MenuActions(m)[i],
                       secondary |-> i > 1 \/ secondaryOnly]]
     /\ actions' = IF Len(m) = 0 THEN actions ELSE m[GroupOf(m, Max({n, 1}))]
     /\ listening' = TRUE
     /\ menu' = m
     /\ only' = secondaryOnly
     /\ UNCHANGED <<ran, runs>>

\* setActions(menu, hasOnlySecondaryActions).
SetActions(m, secondaryOnly) ==
  /\ buttons' = [i \in 1..ButtonCount(m) |->
                   [action |-> MenuActions(m)[i],
                    secondary |-> i > 1 \/ secondaryOnly]]
  /\ actions' = IF ReachedGroup(m) = 0 THEN actions ELSE m[ReachedGroup(m)]
  /\ listening' = TRUE
  /\ menu' = m
  /\ only' = secondaryOnly
  /\ UNCHANGED <<ran, runs>>

\* A click on an enabled button runs its onDidClick listener.
Click(i) ==
  /\ listening
  /\ i \in 1..Len(buttons)
  /\ buttons[i].action.enabled
  /\ runs < MaxRuns
  /\ ran' = buttons[i].action
  /\ runs' = runs + 1
  /\ UNCHANGED <<buttons, actions, listening, menu, only>>

\* triggerDefaultAction: the first action of _actions, if enabled.
TriggerDefaultAction ==
  /\ Len(actions) > 0
  /\ actions[1].enabled
  /\ runs < MaxRuns
  /\ ran' = actions[1]
  /\ runs' = runs + 1
  /\ UNCHANGED <<buttons, actions, listening, menu, only>>

\* dispose: the buttons and their listeners are disposed.
Dispose ==
  /\ listening' = FALSE
  /\ UNCHANGED <<buttons, actions, menu, only, ran, runs>>

Next ==
  \/ \E m \in Menus, s \in BOOLEAN : SetActions(m, s)
  \/ \E i \in 1..Len(buttons) : Click(i)
  \/ TriggerDefaultAction
  \/ Dispose

Spec == Init /\ [][Next]_cfVars

Actions == UNION {Range(MenuActions(m)) : m \in Menus}

TypeOK ==
  /\ buttons \in Seq([action : Actions, secondary : BOOLEAN])
  /\ actions \in Seq(Actions)
  /\ listening \in BOOLEAN
  /\ menu \in Menus \cup {None}
  /\ only \in BOOLEAN
  /\ ran \in Actions \cup {None}
  /\ runs \in 0..MaxRuns

\* The row shows the menu's actions in menu order across groups, cut at
\* maxActions buttons when the menu has more, with only the first button
\* primary (none when setActions was told the menu has only secondary
\* actions): the early return inside the per-action loop of setActions.
ButtonsFollowMenu ==
  menu # None =>
    /\ MaxActions # None => Len(buttons) <= MaxActions
    /\ \A i \in 1..Len(buttons) :
         /\ i <= Len(MenuActions(menu))
         /\ buttons[i].action = MenuActions(menu)[i]
         /\ buttons[i].secondary = (i > 1 \/ only)
    /\ Len(buttons) < Len(MenuActions(menu)) =>
         MaxActions # None /\ Len(buttons) >= MaxActions

\* Every action handed to actionHandler, by a click or by
\* triggerDefaultAction (the Submit keybinding), is the action of a button
\* currently on the row.
DefaultActionIsShown ==
  [][runs' = runs + 1 =>
       \E i \in 1..Len(buttons) : buttons[i].action = ran']_cfVars

=============================================================================
