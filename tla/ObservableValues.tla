--------------------------- MODULE ObservableValues ---------------------------
(***************************************************************************)
(* What the observable engine promises its consumers, with no dependency   *)
(* graph, staleness or scheduling in it.  Every write, or batch of writes  *)
(* in one outermost transaction, is one atomic Settle step: afterwards     *)
(* each live reaction has seen the values its compute function reads under *)
(* the new cell values, and it ran exactly once in that step if those      *)
(* values differ from the ones it saw before, and not at all otherwise     *)
(* (glitch freedom, no-op suppression, transaction batching).              *)
(*                                                                         *)
(* A compute function is given by what it reads: NextRead(n, reads) is the *)
(* next observable node n reads after the <<node, value>> pairs reads, or  *)
(* Done; Compute(n, reads) is a derived node's value from its reads.  The  *)
(* reference evaluator below runs them with every read answered by the     *)
(* value that follows from the cells alone.                                *)
(***************************************************************************)
EXTENDS Naturals, Sequences

CONSTANTS
  Cells,        \* value cells
  Deriveds,     \* derived nodes
  Reactions,    \* autoruns
  Done,         \* NextRead's answer when the compute function returns
  NextRead(_, _),
  Compute(_, _),
  CellValues,   \* cell -> the values it can be set to
  InitCells     \* the cells' initial values

VARIABLES
  cells,  \* the cells' values after the last settled transaction
  shown,  \* reaction -> the <<node, value>> reads of its last run
  ran,    \* reaction -> how often it ran in the last settled transaction
  live    \* the reactions not disposed

absVars == <<cells, shown, ran, live>>

-----------------------------------------------------------------------------
(* The reference evaluator                                                 *)

RECURSIVE RefReads(_, _, _), RefValue(_, _)

\* The reads n's compute function makes, after the reads f, when every
\* read is answered from the cell values cs.
RefReads(n, f, cs) ==
  LET q == NextRead(n, f)
  IN IF q = Done THEN f
     ELSE RefReads(n, Append(f, <<q, RefValue(q, cs)>>), cs)

\* The value of a node under the cell values cs.
RefValue(q, cs) ==
  IF q \in Cells THEN cs[q] ELSE Compute(q, RefReads(q, <<>>, cs))

\* What a run of reaction r sees under the cell values cs.
Sees(r, cs) == RefReads(r, <<>>, cs)

\* cs gives every cell one of the values it can be set to.
IsCellState(cs) == DOMAIN cs = Cells /\ \A c \in Cells : cs[c] \in CellValues[c]

-----------------------------------------------------------------------------

\* Every reaction has had its first run, at its creation.
Init ==
  /\ cells = InitCells
  /\ shown = [r \in Reactions |-> Sees(r, InitCells)]
  /\ ran = [r \in Reactions |-> 1]
  /\ live = Reactions

\* A transaction (or a write outside one) settles with the cells at cs.
Settle(cs) ==
  LET sees == [r \in Reactions |-> IF r \in live THEN Sees(r, cs) ELSE <<>>]
  IN /\ cells' = cs
     /\ shown' = sees
     /\ ran' = [r \in Reactions |-> IF sees[r] # shown[r] THEN 1 ELSE 0]
     /\ UNCHANGED live

\* A reaction is disposed: it never runs again.
Dispose(r) ==
  /\ r \in live
  /\ live' = live \ {r}
  /\ shown' = [shown EXCEPT ![r] = <<>>]
  /\ ran' = [ran EXCEPT ![r] = 0]
  /\ UNCHANGED cells

Next ==
  \/ IsCellState(cells') /\ Settle(cells')
  \/ \E r \in live : Dispose(r)

Spec == Init /\ [][Next]_absVars

=============================================================================
