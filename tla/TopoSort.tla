------------------------------ MODULE TopoSort ------------------------------
(***************************************************************************)
(* topological_sort of dag/engine.py: Kahn's algorithm over the lists      *)
(* parent_node_ids of the nodes of one DAG.                                *)
(*                                                                         *)
(* A parent list may name a node of another DAG (a child DAG's Coding      *)
(* nodes name the Plan that spawned them) and may name a node twice (a     *)
(* ChildDAGSpec may repeat an edge).  An edge <<p, n, k>> stands for the   *)
(* k-th occurrence of p in the list of n.                                  *)
(***************************************************************************)
EXTENDS Integers, Sequences, FiniteSets

CONSTANTS Ids,        \* node ids; their order is the one sorted() uses
          MaxCopies   \* occurrences of one parent in one list

ASSUME TopoAssumption ==
    /\ Ids \subseteq Int
    /\ IsFiniteSet(Ids)
    /\ MaxCopies \in Nat \ {0}

VARIABLES nodes,    \* the nodes to sort
          edges,    \* their parent lists
          inDegree, queue, result,   \* the locals of the function
          pc

vars == <<nodes, edges, inDegree, queue, result, pc>>

Elems(s) == {s[i] : i \in DOMAIN s}

\* sorted(S)
Sorted(S) == {s \in [1 .. Cardinality(S) -> S] :
                /\ Elems(s) = S
                /\ \A i, j \in DOMAIN s : i < j => s[i] < s[j]}

\* Mutant of Known: parents of another DAG count too.
KnownAll == edges

\* The occurrences that count: of parents present in the input.
Known == {e \in edges : e[1] \in nodes}
From(p) == {e \in Known : e[1] = p}
Into(n) == {e \in Known : e[2] = n}

\* The parent lists in which p occurs m[<<p, n>>] times in the list of n.
Lists(m, N) == {e \in Ids \X N \X (1 .. MaxCopies) : e[3] <= m[<<e[1], e[2]>>]}

\* Mutant of Count: a parent named twice counts once.
CountDistinct ==
    /\ pc = "count"
    /\ inDegree' = [n \in nodes |-> Cardinality({e[1] : e \in Into(n)})]
    /\ queue' \in Sorted({n \in nodes : inDegree'[n] = 0})
    /\ pc' = "kahn"
    /\ UNCHANGED <<nodes, edges, result>>

\* The in-degrees, and the queue seeded with the nodes that have none.
Count ==
    /\ pc = "count"
    /\ inDegree' = [n \in nodes |-> Cardinality(Into(n))]
    /\ queue' \in Sorted({n \in nodes : inDegree'[n] = 0})
    /\ pc' = "kahn"
    /\ UNCHANGED <<nodes, edges, result>>

\* One turn of the while loop, with the for loop over the successors in it.
Pop ==
    /\ pc = "kahn"
    /\ queue # <<>>
    /\ LET p == Head(queue)
           freed == {n \in nodes : inDegree[n] > 0 /\ inDegree'[n] = 0}
       IN  /\ result' = Append(result, p)
           /\ inDegree' = [n \in nodes |->
                             inDegree[n] - Cardinality(From(p) \intersect Into(n))]
           /\ \E s \in Sorted(freed) : queue' = Tail(queue) \o s
    /\ UNCHANGED <<nodes, edges, pc>>

Finish ==
    /\ pc = "kahn"
    /\ queue = <<>>
    /\ pc' = IF Len(result) = Cardinality(nodes) THEN "returned" ELSE "raised"
    /\ UNCHANGED <<nodes, edges, inDegree, queue, result>>

-----------------------------------------------------------------------------

\* At every moment what has been sorted is closed under parents, each parent
\* before its children and nothing twice, whatever occurs twice in a list.
LinearExtension ==
    /\ \A i, j \in DOMAIN result : result[i] = result[j] => i = j
    /\ \A i \in DOMAIN result : \A e \in Into(result[i]) :
          \E j \in 1 .. i - 1 : result[j] = e[1]

=============================================================================
