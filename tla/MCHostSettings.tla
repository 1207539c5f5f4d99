--------------------------- MODULE MCHostSettings ---------------------------
(* Services of one window that answer the host and the user directly:     *)
(* the screen reader status entry and prompt (AccessibilityStatus) and the *)
(* host color scheme (HostColorScheme), which interleave with each other;  *)
(* the button row of a comment form (CommentFormActions); and a chat       *)
(* confirmation part (ChatConfirmation).                                   *)
(*                                                                         *)
(* The three groups share no state.  `turn`, chosen once, names the group  *)
(* whose steps a behaviour takes; the groups not taking steps stay in one  *)
(* initial state, so each group is checked under all of its own            *)
(* interleavings without multiplying its states by the others'.           *)
EXTENDS Naturals, Sequences, TLC

CONSTANTS None, Corrupt, MaxPrompts, MaxOSChanges, MaxReloads,
          A1, A2, A3, MaxActions, MaxRuns, IsResponse, MaxRenders, MaxOther

VARIABLES
  support, detected, prompted, timer, shown, open, current, entry,
  os, chan, asked, scheme, seen, stored, disk, osChanges, reloads,
  buttons, actions, listening, menu, only, ran, runs,
  isUsed, part, showButtons, busy, sent, others,
  turn

\* Three menu actions, the second disabled, and the menus a comment
\* thread's context can produce: none of its items visible, one group,
\* and two groups with more actions than maxActions.
Act(a, e) == [id |-> a, enabled |-> e]
MCMenus ==
  { <<>>,
    << <<Act(A1, TRUE), Act(A2, FALSE)>> >>,
    << <<Act(A2, FALSE)>>, <<Act(A3, TRUE), Act(A1, TRUE)>> >> }

Access == INSTANCE AccessibilityStatus
Color == INSTANCE HostColorScheme
Form == INSTANCE CommentFormActions WITH Menus <- MCMenus
Chat == INSTANCE ChatConfirmation

accessVars == <<support, detected, prompted, timer, shown, open, current, entry>>
colorVars == <<os, chan, asked, scheme, seen, stored, disk, osChanges, reloads>>
formVars == <<buttons, actions, listening, menu, only, ran, runs>>
chatVars == <<isUsed, part, showButtons, busy, sent, others>>
allVars == <<accessVars, colorVars, formVars, chatVars, turn>>

HostInit ==
  /\ turn \in 1..3
  /\ Access!Init /\ Color!Init /\ Form!Init /\ Chat!Init
  /\ turn # 1 => /\ support = "auto" /\ ~detected
                 /\ ~os.dark /\ ~os.highContrast /\ disk = None
  /\ turn # 3 => ~busy

HostNext ==
  /\ UNCHANGED turn
  /\ \/ turn = 1 /\ Access!Next
        /\ UNCHANGED <<colorVars, formVars, chatVars>>
     \/ turn = 1 /\ Color!Next
        /\ UNCHANGED <<accessVars, formVars, chatVars>>
     \/ turn = 2 /\ Form!Next
        /\ UNCHANGED <<accessVars, colorVars, chatVars>>
     \/ turn = 3 /\ Chat!Next
        /\ UNCHANGED <<accessVars, colorVars, formVars>>

Spec == HostInit /\ [][HostNext]_allVars

TypeOK == Access!TypeOK /\ Color!TypeOK /\ Form!TypeOK /\ Chat!CCTypeOK

\* See HostColorScheme: once the OS answer and events are handled, the
\* service, its listeners and the storage hold the OS color scheme.
SettlesOnOSScheme == Color!SettlesOnOSScheme

\* See CommentFormActions: setActions shows the menu's actions in order,
\* at most maxActions of them, the first one primary.
ButtonsFollowMenu == Form!ButtonsFollowMenu

\* See CommentFormActions: the Submit keybinding runs only an action that
\* is on a button of the row.
DefaultActionIsShown == Form!DefaultActionIsShown

\* See ChatConfirmation: a confirmation is answered by at most one request.
AnsweredOnce == Chat!AnsweredOnce

=============================================================================
