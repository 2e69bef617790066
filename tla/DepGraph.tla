------------------------------ MODULE DepGraph ------------------------------
(***************************************************************************)
(* The dependency graph of luna-init (depgraph.c) as pure operators over a *)
(* service table.  A table is the sequence of service names held by        *)
(* g_services[0 .. g_service_count-1]; the C index i is position i + 1.    *)
(***************************************************************************)
EXTENDS Integers, Sequences, FiniteSets

CONSTANTS
  Names,   \* every service name a service file may carry
  After,   \* After[n]: the names listed in [service.depends] after, in order
  Before   \* Before[n]: the names listed in [service.depends] before, in order

ASSUME DependsAssumption ==
  /\ After  \in [Names -> Seq(Names)]
  /\ Before \in [Names -> Seq(Names)]

\* The names in a table: what service_find can find.
Loaded(t) == {t[i] : i \in 1..Len(t)}

\* A table without duplicate names, as service_load_all leaves it.
Tables == {t \in Seq(Names) : \A i, j \in 1..Len(t) : t[i] = t[j] => i = j}

\* References of the service at position i in the order depgraph_build
\* resolves them: all of after[], then all of before[].
Refs(t, i) == After[t[i]] \o Before[t[i]]

\* depgraph_build returns -1 at the first reference that names no service;
\* every reference before that one, in table order, has been entered.
Missing(t, i, j) == Refs(t, i)[j] \notin Loaded(t)

Resolved(t) ==
  {r \in UNION {{i} \X (1..Len(Refs(t, i))) : i \in 1..Len(t)} :
     \A k \in 1..r[1] : \A l \in 1..Len(Refs(t, k)) :
        (k < r[1] \/ l <= r[2]) => ~Missing(t, k, l)}

AllResolved(t) ==
  \A i \in 1..Len(t) : \A j \in 1..Len(Refs(t, i)) : ~Missing(t, i, j)

\* dep_indices of service n: the resolved entries of its after[] list only.
Deps(t, n) ==
  {Refs(t, r[1])[r[2]] :
     r \in {q \in Resolved(t) : t[q[1]] = n /\ q[2] <= Len(After[n])}}

\* g_edge: <<a, b>> when a must start before b.  An after entry gives an edge
\* into the service, a before entry an edge out of it.
Edges(t) ==
  {IF r[2] <= Len(After[t[r[1]]])
     THEN <<Refs(t, r[1])[r[2]], t[r[1]]>>
     ELSE <<t[r[1]], Refs(t, r[1])[r[2]]>> : r \in Resolved(t)}

\* g_indegree: an edge already present is not counted again.
Indegree(t, n) == Cardinality({a \in Loaded(t) : <<a, n>> \in Edges(t)})

\* Mutant of KahnStep: the in-degree is tested before it is decremented.
KahnStepLate(t, k) ==
  IF k.head > Len(k.queue) THEN k
  ELSE LET node == k.queue[k.head]
           succ == {n \in Loaded(t) : <<node, n>> \in Edges(t)}
       IN  [head  |-> k.head + 1,
            indeg |-> [n \in Loaded(t) |->
                         IF n \in succ THEN k.indeg[n] - 1 ELSE k.indeg[n]],
            queue |-> k.queue \o
                      SelectSeq(t, LAMBDA n : n \in succ /\ k.indeg[n] = 0)]

\* One turn of the while loop of Kahn's algorithm: take the node at the head
\* of the queue, decrement its successors in index order and append the ones
\* that reach zero.
KahnStep(t, k) ==
  IF k.head > Len(k.queue) THEN k
  ELSE LET node == k.queue[k.head]
           succ == {n \in Loaded(t) : <<node, n>> \in Edges(t)}
       IN  [head  |-> k.head + 1,
            indeg |-> [n \in Loaded(t) |->
                         IF n \in succ THEN k.indeg[n] - 1 ELSE k.indeg[n]],
            queue |-> k.queue \o
                      SelectSeq(t, LAMBDA n : n \in succ /\ k.indeg[n] = 1)]

KahnInit(t) ==
  [head  |-> 1,
   indeg |-> [n \in Loaded(t) |-> Indegree(t, n)],
   queue |-> SelectSeq(t, LAMBDA n : Indegree(t, n) = 0)]

\* The nodes in the order the loop emits them.
KahnOrder(t) ==
  LET run[k \in 0..Len(t)] ==
        IF k = 0 THEN KahnInit(t) ELSE KahnStep(t, run[k - 1])
  IN  run[Len(t)].queue

\* depgraph_has_cycle: some node is never emitted.
HasCycle(t) == Len(KahnOrder(t)) # Len(t)

\* depgraph_topo_sort: the order, or none when it returns -1.
TopoSort(t) == IF HasCycle(t) THEN << >> ELSE KahnOrder(t)

\* depgraph_build returns 0.
BuildOk(t) == AllResolved(t) /\ ~HasCycle(t)
=============================================================================
