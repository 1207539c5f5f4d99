--------------------------- MODULE ObservableEngine ---------------------------
(***************************************************************************)
(* The observable engine's push-pull algorithm (base/common/observable,    *)
(* described by the specification's sections 4.1-4.5; the engine itself   *)
(* is not part of this repository's sources).                             *)
(*                                                                         *)
(* set() on a cell stores an unequal value and marks every transitive      *)
(* observer PossiblyStale (push); reactions reached are scheduled.  When   *)
(* the outermost transaction commits, each scheduled reaction is resolved  *)
(* by walking its recorded dependencies in read order, first bringing a    *)
(* derived dependency up to date (pull), and comparing each dependency's   *)
(* value with the one last observed: equal all through, the node is still *)
(* valid; one differs, it is recomputed.  An evaluation records its reads  *)
(* afresh and replaces the node's dependency edges with them.             *)
(*                                                                         *)
(* The synchronous call stack of this walk is the sequence `stack`: each   *)
(* frame is a node being verified or evaluated.  Nothing else runs while   *)
(* it is non-empty (the engine is single-threaded and does not yield).    *)
(***************************************************************************)
EXTENDS Naturals, Sequences, FiniteSets

CONSTANTS
  Cells, Deriveds, Reactions, Done, NextRead(_, _), Compute(_, _),
  CellValues, InitCells,
  None,
  MaxDepth,   \* bound on transaction nesting
  MaxSets     \* bound on set() calls

Nodes == Cells \cup Deriveds \cup Reactions
Consumers == Deriveds \cup Reactions

VARIABLES
  value,      \* cell or derived -> its current (cached) value
  state,      \* consumer -> "notEvaluated", "upToDate", "possiblyStale", "disposed"
  seen,       \* consumer -> the <<producer, value>> reads of its last evaluation
  depth,      \* transaction nesting depth
  queue,      \* reactions scheduled for the outermost commit
  stack,      \* the frames of the synchronous verify / evaluate walk
  recomputes, \* derived -> recomputations since the outermost transaction began
  runs,       \* reaction -> runs since the outermost transaction began
  sets,       \* set() calls so far
  snap        \* (history) the promised view when the transaction began

engineVars == <<value, state, seen, depth, queue, stack, recomputes, runs, sets, snap>>

\* The producers a consumer depends on: its observer edges.
Producers(n) == {seen[n][i][1] : i \in DOMAIN seen[n]}

Observers(p) == {n \in Consumers : state[n] # "disposed" /\ p \in Producers(n)}

\* Every node that observes one of S, directly or through derived nodes.
RECURSIVE Downstream(_)
Downstream(S) ==
  LET S2 == S \cup UNION {Observers(p) : p \in S}
  IN IF S2 = S THEN S ELSE Downstream(S2)

Quiescent == depth = 0 /\ queue = {} /\ stack = <<>>

\* What the engine has promised so far, as ObservableValues states it.
View ==
  [cells |-> [c \in Cells |-> value[c]],
   shown |-> [r \in Reactions |-> IF state[r] = "disposed" THEN <<>> ELSE seen[r]],
   ran   |-> [r \in Reactions |-> IF state[r] = "disposed" THEN 0 ELSE runs[r]],
   live  |-> {r \in Reactions : state[r] # "disposed"}]

\* The refinement mapping: while a transaction is open or its commit is
\* still running, the promised state is the one the transaction began in.
Abs == IF Quiescent THEN View ELSE snap

A == INSTANCE ObservableValues WITH cells <- Abs.cells, shown <- Abs.shown,
                                    ran <- Abs.ran, live <- Abs.live

Frame(n) ==
  IF state[n] = "possiblyStale"
  THEN [node |-> n, mode |-> "verify", pos |-> 1, reads |-> <<>>]
  ELSE [node |-> n, mode |-> "evaluate", pos |-> 0, reads |-> <<>>]

Top == stack[Len(stack)]
Pop == SubSeq(stack, 1, Len(stack) - 1)
SetTop(f) == [stack EXCEPT ![Len(stack)] = f]

\* The outermost transaction begins (explicit, or the implicit one of a
\* set() outside any transaction).
beginOutermost ==
  /\ snap' = View
  /\ recomputes' = [n \in Deriveds |-> 0]
  /\ runs' = [r \in Reactions |-> 0]

\* (mutant) set() that notifies only the cell's direct observers.
markDirectOnly(c) ==
  LET marked == {n \in Observers(c) : state[n] = "upToDate"}
  IN /\ state' = [n \in Consumers |-> IF n \in marked THEN "possiblyStale" ELSE state[n]]
     /\ queue' = queue \cup (marked \cap Reactions)

\* set(): every up-to-date observer, transitively, becomes PossiblyStale;
\* the reactions among them are scheduled.
markPossiblyStale(c) ==
  LET marked == {n \in Downstream({c}) \ {c} : state[n] = "upToDate"}
  IN /\ state' = [n \in Consumers |-> IF n \in marked THEN "possiblyStale" ELSE state[n]]
     /\ queue' = queue \cup (marked \cap Reactions)

-----------------------------------------------------------------------------

\* The consumers are created: derived nodes unevaluated, and every autorun
\* scheduled for its first run.
Init ==
  /\ value = [n \in Cells \cup Deriveds |-> IF n \in Cells THEN InitCells[n] ELSE None]
  /\ state = [n \in Consumers |-> "notEvaluated"]
  /\ seen = [n \in Consumers |-> <<>>]
  /\ depth = 0
  /\ queue = Reactions
  /\ stack = <<>>
  /\ recomputes = [n \in Deriveds |-> 0]
  /\ runs = [r \in Reactions |-> 0]
  /\ sets = 0
  /\ snap = [cells |-> InitCells,
             shown |-> [r \in Reactions |-> A!Sees(r, InitCells)],
             ran |-> [r \in Reactions |-> 1], live |-> Reactions]

\* transaction(): a nested start only increments the depth.
Begin ==
  /\ queue = {} /\ stack = <<>>
  /\ depth < MaxDepth
  /\ depth' = depth + 1
  /\ IF depth = 0 THEN beginOutermost ELSE UNCHANGED <<snap, recomputes, runs>>
  /\ UNCHANGED <<value, state, seen, queue, stack, sets>>

\* (mutant) a commit without a matching start.
CommitUnguarded ==
  /\ depth' = depth - 1
  /\ UNCHANGED <<value, state, seen, queue, stack, recomputes, runs, sets, snap>>

\* The end of transaction(); only the outermost one lets the scheduled
\* reactions run.
Commit ==
  /\ depth > 0
  /\ depth' = depth - 1
  /\ UNCHANGED <<value, state, seen, queue, stack, recomputes, runs, sets, snap>>

\* cell.set(v): an equal value (strictEquals or the cell's comparer) is
\* ignored; outside a transaction the write is its own transaction.
Set(c, v) ==
  /\ stack = <<>> /\ (depth > 0 \/ queue = {})
  /\ sets < MaxSets
  /\ sets' = sets + 1
  /\ IF v = value[c]
     THEN UNCHANGED <<value, state, queue>>
     ELSE /\ value' = [value EXCEPT ![c] = v]
          /\ markPossiblyStale(c)
  /\ IF depth = 0 THEN beginOutermost ELSE UNCHANGED <<snap, recomputes, runs>>
  /\ UNCHANGED <<seen, depth, stack>>

\* The commit takes the next scheduled reaction and resolves it.
Schedule(r) ==
  /\ depth = 0 /\ stack = <<>>
  /\ r \in queue
  /\ queue' = queue \ {r}
  /\ stack' = <<Frame(r)>>
  /\ UNCHANGED <<value, state, seen, depth, recomputes, runs, sets, snap>>

-----------------------------------------------------------------------------
(* Resolving a PossiblyStale node: its dependencies in read order          *)

\* Every dependency matched: the node is still valid.
VerifyValid ==
  /\ stack # <<>> /\ Top.mode = "verify"
  /\ Top.pos > Len(seen[Top.node])
  /\ state' = [state EXCEPT ![Top.node] = "upToDate"]
  /\ stack' = Pop
  /\ UNCHANGED <<value, seen, depth, queue, recomputes, runs, sets, snap>>

\* The next dependency is a derived node not up to date: resolve it first.
VerifyPull ==
  /\ stack # <<>> /\ Top.mode = "verify"
  /\ Top.pos <= Len(seen[Top.node])
  /\ LET p == seen[Top.node][Top.pos][1]
     IN /\ p \in Deriveds /\ state[p] # "upToDate"
        /\ stack' = Append(stack, Frame(p))
  /\ UNCHANGED <<value, state, seen, depth, queue, recomputes, runs, sets, snap>>

\* The next dependency is up to date: an equal value moves on, a changed
\* one makes the node evaluate.
VerifyCompare ==
  /\ stack # <<>> /\ Top.mode = "verify"
  /\ Top.pos <= Len(seen[Top.node])
  /\ LET p == seen[Top.node][Top.pos][1]
         v == seen[Top.node][Top.pos][2]
     IN /\ p \in Cells \/ (p \in Deriveds /\ state[p] = "upToDate")
        /\ stack' = SetTop(IF value[p] = v
                           THEN [Top EXCEPT !.pos = @ + 1]
                           ELSE [Top EXCEPT !.mode = "evaluate", !.reads = <<>>])
  /\ UNCHANGED <<value, state, seen, depth, queue, recomputes, runs, sets, snap>>

-----------------------------------------------------------------------------
(* Evaluating: the compute function runs with a fresh reader              *)

\* (mutant) every read of a derived node recomputes it.
EvalPullAlways ==
  /\ stack # <<>> /\ Top.mode = "evaluate"
  /\ LET q == NextRead(Top.node, Top.reads)
     IN /\ q \in Deriveds
        /\ stack' = Append(stack, [node |-> q, mode |-> "evaluate", pos |-> 0, reads |-> <<>>])
  /\ UNCHANGED <<value, state, seen, depth, queue, recomputes, runs, sets, snap>>

\* It reads a derived node not up to date: that node is brought up to date
\* before the read returns.
EvalPull ==
  /\ stack # <<>> /\ Top.mode = "evaluate"
  /\ LET q == NextRead(Top.node, Top.reads)
     IN /\ q \in Deriveds /\ state[q] # "upToDate"
        /\ stack' = Append(stack, Frame(q))
  /\ UNCHANGED <<value, state, seen, depth, queue, recomputes, runs, sets, snap>>

\* It reads a cell or an up-to-date derived node: the read is recorded.
EvalRead ==
  /\ stack # <<>> /\ Top.mode = "evaluate"
  /\ LET q == NextRead(Top.node, Top.reads)
     IN /\ q # Done
        /\ q \in Cells \/ (q \in Deriveds /\ state[q] = "upToDate")
        /\ stack' = SetTop([Top EXCEPT !.reads = Append(@, <<q, value[q]>>)])
  /\ UNCHANGED <<value, state, seen, depth, queue, recomputes, runs, sets, snap>>

\* (mutant) the new reads added to the old edges instead of replacing them.
keepEdges(n, reads) ==
  seen' = [seen EXCEPT ![n] = seen[n] \o SelectSeq(reads, LAMBDA e : e[1] \notin Producers(n))]

\* The reads replace the node's dependency edges wholesale.
replaceEdges(n, reads) == seen' = [seen EXCEPT ![n] = reads]

\* A derived node's compute function returns: the value is cached.
EvalDerivedDone ==
  /\ stack # <<>> /\ Top.mode = "evaluate"
  /\ Top.node \in Deriveds
  /\ NextRead(Top.node, Top.reads) = Done
  /\ value' = [value EXCEPT ![Top.node] = Compute(Top.node, Top.reads)]
  /\ state' = [state EXCEPT ![Top.node] = "upToDate"]
  /\ replaceEdges(Top.node, Top.reads)
  /\ recomputes' = [recomputes EXCEPT ![Top.node] = @ + 1]
  /\ stack' = Pop
  /\ UNCHANGED <<depth, queue, runs, sets, snap>>

\* An autorun's function returns (its side effects are the consumer's).
EvalReactionDone ==
  /\ stack # <<>> /\ Top.mode = "evaluate"
  /\ Top.node \in Reactions
  /\ NextRead(Top.node, Top.reads) = Done
  /\ state' = [state EXCEPT ![Top.node] = "upToDate"]
  /\ replaceEdges(Top.node, Top.reads)
  /\ runs' = [runs EXCEPT ![Top.node] = @ + 1]
  /\ stack' = Pop
  /\ UNCHANGED <<value, depth, queue, recomputes, sets, snap>>

\* autorun.dispose(): its edges are dropped; it never runs again.
Dispose(r) ==
  /\ Quiescent
  /\ state[r] # "disposed"
  /\ state' = [state EXCEPT ![r] = "disposed"]
  /\ seen' = [seen EXCEPT ![r] = <<>>]
  /\ UNCHANGED <<value, depth, queue, stack, recomputes, runs, sets, snap>>

Step ==
  \/ VerifyValid \/ VerifyPull \/ VerifyCompare
  \/ EvalPull \/ EvalRead \/ EvalDerivedDone

Next ==
  \/ Begin \/ Commit \/ Step \/ EvalReactionDone
  \/ \E c \in Cells : \E v \in CellValues[c] : Set(c, v)
  \/ \E r \in Reactions : Schedule(r) \/ Dispose(r)

Spec == Init /\ [][Next]_engineVars

-----------------------------------------------------------------------------
(* Properties                                                              *)

TypeOK ==
  /\ state \in [Consumers -> {"notEvaluated", "upToDate", "possiblyStale", "disposed"}]
  /\ depth \in 0..MaxDepth
  /\ queue \subseteq Reactions
  /\ \A i \in DOMAIN stack : stack[i].node \in Consumers
  /\ recomputes \in [Deriveds -> Nat] /\ runs \in [Reactions -> Nat]
  /\ sets \in 0..MaxSets

CurrentCells == [c \in Cells |-> value[c]]

\* A derived node the engine holds up to date has the value its compute
\* function gives on the current cells: set()'s marking reached every node
\* a write can affect, however deep, so no read of a cached value returns
\* a value from before the write.
UpToDateIsCurrent ==
  \A n \in Deriveds :
    state[n] = "upToDate" => value[n] = A!RefValue(n, CurrentCells)

\* Glitch freedom for derived nodes: within one outermost transaction a
\* derived node is recomputed at most once, however many consumers (a
\* reaction and another derived node of a diamond) pull it.
RecomputedAtMostOncePerTransaction ==
  \A n \in Deriveds : recomputes[n] <= 1

\* The engine implements ObservableValues: when a transaction has settled,
\* every live reaction has seen exactly the values its compute function
\* reads under the new cells, and it ran once if those differ from what it
\* saw before and not at all if they do not (a write of an equal value, a
\* write undone in the same transaction, a change its dynamic reads no
\* longer depend on, or a change that a derived node absorbs).
ImplementsObservableValues == A!Spec

=============================================================================
