------------------------- MODULE MCEditorObservables -------------------------
EXTENDS EditorObservables

\* a takes the values of the engine's scenario: 1 -> 2 changes B and C but
\* not D, 0 <-> 1 changes C only, 0 <-> 2 changes B only.
MCAValues == 0..2

=============================================================================
