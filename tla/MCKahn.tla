------------------------------- MODULE MCKahn -------------------------------
(***************************************************************************)
(* KahnSort on every graph of N nodes, self-loops included, and compared   *)
(* with the operators of DepGraph that Supervisor uses for the same code.  *)
(***************************************************************************)
EXTENDS KahnSort, SequencesExt

\* The service files that give this graph: every edge from an after-list.
AfterLists == [j \in Nodes |-> SetToSeq(Pred(j))]

D == INSTANCE DepGraph WITH Names <- Nodes, After <- AfterLists,
                            Before <- [j \in Nodes |-> << >>]

\* KahnOrder, HasCycle and TopoSort of DepGraph, which Supervisor uses in place
\* of this loop, give its queue and its answer.
OperatorsAgree ==
  pc = "done" => LET t == [i \in Nodes |-> i]
                 IN  /\ queue = D!KahnOrder(t)
                     /\ D!HasCycle(t) <=> ~Complete
                     /\ Complete => queue = D!TopoSort(t)
=============================================================================
