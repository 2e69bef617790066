------------------------------ MODULE KahnSort ------------------------------
(***************************************************************************)
(* The loop that depgraph_has_cycle and depgraph_topo_sort share, one      *)
(* turn of a C loop per step: seed the queue with the nodes of in-degree   *)
(* zero, take nodes off it, and decrement the in-degree of every successor *)
(* of the node taken.  The C index i is node i + 1.                        *)
(***************************************************************************)
EXTENDS Integers, Sequences, FiniteSets

CONSTANT N   \* g_service_count

ASSUME CountAssumption == N \in Nat

Nodes == 1..N

VARIABLES
  edge,       \* g_edge: <<i, j>> when i must start before j
  indegree,   \* the local copy of g_indegree
  queue,      \* queue[0 .. q_tail - 1]; its taken part is out_order
  head,       \* q_head + 1
  scan,       \* the loop variable of the inner for
  pc          \* "seed", "take", "relax" or "done"

vars == <<edge, indegree, queue, head, scan, pc>>

Pred(j) == {i \in Nodes : <<i, j>> \in edge}
InQueue == {queue[k] : k \in 1..Len(queue)}
Node    == queue[head - 1]

\* Any graph depgraph_build can leave: an edge is counted once.
Init ==
  /\ edge \in SUBSET (Nodes \X Nodes)
  /\ indegree = [j \in Nodes |-> Cardinality({i \in Nodes : <<i, j>> \in edge})]
  /\ queue = << >> /\ head = 1 /\ scan = 1 /\ pc = "seed"

\* if (indegree[i] == 0) queue[q_tail++] = i
Seed ==
  /\ pc = "seed" /\ scan <= N
  /\ queue' = IF indegree[scan] = 0 THEN Append(queue, scan) ELSE queue
  /\ scan' = scan + 1
  /\ UNCHANGED <<edge, indegree, head, pc>>

Seeded ==
  /\ pc = "seed" /\ scan > N
  /\ pc' = "take"
  /\ UNCHANGED <<edge, indegree, queue, head, scan>>

\* while (q_head < q_tail): the next node is emitted.
Take ==
  /\ pc = "take" /\ head <= Len(queue)
  /\ head' = head + 1 /\ scan' = 1 /\ pc' = "relax"
  /\ UNCHANGED <<edge, indegree, queue>>

\* Mutant of Relax: a successor is queued as soon as one predecessor is out.
RelaxTooSoon ==
  /\ pc = "relax" /\ scan <= N
  /\ IF <<Node, scan>> \in edge
       THEN /\ indegree' = [indegree EXCEPT ![scan] = @ - 1]
            /\ queue' = IF indegree[scan] > 0 /\ scan \notin InQueue
                          THEN Append(queue, scan) ELSE queue
       ELSE UNCHANGED <<indegree, queue>>
  /\ scan' = scan + 1
  /\ UNCHANGED <<edge, head, pc>>

\* if (--indegree[j] == 0) queue[q_tail++] = j, for the successors j.
Relax ==
  /\ pc = "relax" /\ scan <= N
  /\ IF <<Node, scan>> \in edge
       THEN /\ indegree' = [indegree EXCEPT ![scan] = @ - 1]
            /\ queue' = IF indegree[scan] = 1 THEN Append(queue, scan) ELSE queue
       ELSE UNCHANGED <<indegree, queue>>
  /\ scan' = scan + 1
  /\ UNCHANGED <<edge, head, pc>>

Relaxed ==
  /\ pc = "relax" /\ scan > N
  /\ pc' = "take"
  /\ UNCHANGED <<edge, indegree, queue, head, scan>>

\* Mutant of Finish: the loop is left as soon as every node is in the queue.
FinishEarly ==
  /\ pc = "take" /\ (head > Len(queue) \/ (head = N /\ Len(queue) = N))
  /\ pc' = "done"
  /\ UNCHANGED <<edge, indegree, queue, head, scan>>

\* q_head == q_tail: the loop is left.
Finish ==
  /\ pc = "take" /\ head > Len(queue)
  /\ pc' = "done"
  /\ UNCHANGED <<edge, indegree, queue, head, scan>>

Done == pc = "done" /\ UNCHANGED vars

Next == Seed \/ Seeded \/ Take \/ Relax \/ Relaxed \/ Finish \/ Done

Spec == Init /\ [][Next]_vars

\* out_count == g_service_count: depgraph_has_cycle answers false and
\* depgraph_topo_sort does not return -1.
Complete == head = N + 1

-----------------------------------------------------------------------------
\* The local variables stay in their ranges; in particular q_tail never
\* passes SERVICE_MAX_COUNT, the size of the C queue array.
TypeOK ==
  /\ edge \subseteq Nodes \X Nodes
  /\ indegree \in [Nodes -> 0..N]
  /\ queue \in Seq(Nodes) /\ Len(queue) <= N
  /\ head \in 1..(Len(queue) + 1)
  /\ scan \in 1..(N + 1)
  /\ pc \in {"seed", "take", "relax", "done"}
  /\ pc = "relax" => head > 1

\* Every node in the queue stands behind all its predecessors, and no node
\* stands there twice: what has been emitted so far is a valid start order.
OrderIsTopological ==
  \A k \in 1..Len(queue) :
     /\ \A i \in Pred(queue[k]) : \E l \in 1..(k - 1) : queue[l] = i
     /\ \A l \in 1..Len(queue) : queue[l] = queue[k] => l = k

\* A set of nodes each of which waits for another of the set (or itself).
Knot(S) == S # {} /\ \A j \in S : \E i \in S : <<i, j>> \in edge

\* The answer is right: when the loop ends short of g_service_count there is a
\* set of services that wait for each other for ever, and only then.
AnswerIsRight ==
  pc = "done" => (~Complete <=> \E S \in SUBSET Nodes : Knot(S))

=============================================================================
