------------------------------ MODULE ChildDag ------------------------------
(***************************************************************************)
(* From the ChildDAGSpec of a Plan to the order its nodes run in:          *)
(* validate_child_dag_spec (agents/plan.py), _build_child_dag_nodes, the   *)
(* INSERTs of _spawn_child_dag (dag/executor.py) and topological_sort,     *)
(* which is TopoSort.  It bears out what Executor says of a child DAG with *)
(* `valid', `dup' and Cyclic.                                              *)
(*                                                                         *)
(* Node ids are numbered in the order sorted() gives the ids of the code:  *)
(* the Coding nodes, the terminal Plan, the Review nodes.                  *)
(***************************************************************************)
EXTENDS TopoSort, SequencesExt

CONSTANTS Width,            \* composite ids are 1 .. Width
          MaxComposites,    \* 7 in the code
          MaxUnjustified    \* 5 in the code: more need a justification

ASSUME ChildDagAssumption ==
    /\ Width \in Nat \ {0}
    /\ MaxComposites \in Nat \ {0}
    /\ MaxUnjustified \in 0 .. MaxComposites
    /\ Ids = 0 .. 2 * Width + 1

Comp == 1 .. Width
ParentPlan == 0
CodingOf(c) == c
Terminal == Width + 1
ReviewOf(c) == Width + 1 + c

VARIABLES
    child,   \* the ChildDAGSpec: composites, sequential_edges with the times
             \* each occurs, whether branch_suffix is unique, justification
    step,    \* of _spawn_child_dag
    rows     \* ids of the child's rows in dag_nodes, in the order of the INSERTs

childVars == <<child, step, rows>>

ChildDAGSpec ==
    [composites : UNION {[1 .. n -> Comp] : n \in 0 .. MaxComposites + 1},
     edges : [Comp \X Comp -> 0 .. MaxCopies],
     distinctSuffixes : BOOLEAN, justification : BOOLEAN]

SpawnInit ==
    /\ child \in ChildDAGSpec
    /\ step = "validate"
    /\ rows = <<>>
    /\ nodes = {} /\ edges = {} /\ inDegree = <<>> /\ queue = <<>> /\ result = <<>>
    /\ pc = "count"

CompIds == Elems(child.composites)

\* validate_child_dag_spec.  Neither ids nor cycles are looked at.
Valid ==
    LET n == Len(child.composites) IN
    /\ n \in 1 .. MaxComposites
    /\ n > MaxUnjustified => child.justification
    /\ child.distinctSuffixes
    /\ \A e \in DOMAIN child.edges : child.edges[e] > 0 => {e[1], e[2]} \subseteq CompIds

Validate ==
    /\ step = "validate"
    /\ step' = IF Valid THEN "build" ELSE "raised"
    /\ UNCHANGED <<vars, child, rows>>

\* Mutant of ParentsOf: an edge makes the Coding node wait for a Coding node.
ParentsOfCoding(n) ==
    [p \in Ids |->
        CASE n \in Comp ->
                IF p = ParentPlan THEN 1
                ELSE IF p \in CompIds THEN child.edges[<<p, n>>] ELSE 0
          [] n = Terminal -> IF \E c \in CompIds : p = ReviewOf(c) THEN 1 ELSE 0
          [] OTHER -> IF n = ReviewOf(p) THEN 1 ELSE 0]

\* parent_node_ids: how often p occurs in the list of n.
ParentsOf(n) ==
    [p \in Ids |->
        CASE n \in Comp ->
                IF p = ParentPlan THEN 1
                ELSE IF p > Terminal THEN child.edges[<<p - Terminal, n>>] ELSE 0
          [] n = Terminal -> IF \E c \in CompIds : p = ReviewOf(c) THEN 1 ELSE 0
          [] OTHER -> IF n = ReviewOf(p) THEN 1 ELSE 0]

\* Mutant of NodeIds: the parent Plan is one of the child's nodes.
NodeIdsAndParent == {ParentPlan, Terminal} \union
    {CodingOf(c) : c \in CompIds} \union {ReviewOf(c) : c \in CompIds}

NodeIds == {CodingOf(c) : c \in CompIds} \union {ReviewOf(c) : c \in CompIds} \union {Terminal}

\* _build_child_dag_nodes.
Build ==
    /\ step = "build"
    /\ nodes' = NodeIds
    /\ edges' = Lists([e \in Ids \X NodeIds |-> ParentsOf(e[2])[e[1]]], NodeIds)
    /\ step' = "persist"
    /\ UNCHANGED <<child, rows, inDegree, queue, result, pc>>

\* Mutant of Built: the terminal Plan is appended in the loop.
BuiltPerComposite ==
    FlattenSeq([i \in DOMAIN child.composites |->
                  <<CodingOf(child.composites[i]), ReviewOf(child.composites[i]), Terminal>>])

\* The nodes in the order they are built in.
Built ==
    FlattenSeq([i \in DOMAIN child.composites |->
                  <<CodingOf(child.composites[i]), ReviewOf(child.composites[i])>>])
    \o <<Terminal>>

\* Mutant of Insert: INSERT OR REPLACE.
InsertOrReplace ==
    /\ step = "persist"
    /\ rows' = Append(rows, Built[Len(rows) + 1])
    /\ step' = IF Len(rows') = Len(Built) THEN "sort" ELSE "persist"
    /\ UNCHANGED <<vars, child>>

\* create_dag_node; the id is the primary key.
Insert ==
    /\ step = "persist"
    /\ LET id == Built[Len(rows) + 1]
       IN  IF id \in Elems(rows)
           THEN step' = "raised" /\ UNCHANGED rows
           ELSE /\ rows' = Append(rows, id)
                /\ step' = IF Len(rows') = Len(Built) THEN "sort" ELSE "persist"
    /\ UNCHANGED <<vars, child>>

Sort ==
    /\ step = "sort"
    /\ Count \/ Pop \/ Finish
    /\ UNCHANGED childVars

Spawned ==
    /\ step = "raised" \/ pc \in {"returned", "raised"}
    /\ UNCHANGED <<vars, childVars>>

ChildNext == Validate \/ Build \/ Insert \/ Sort \/ Spawned

ChildSpec == SpawnInit /\ [][ChildNext]_<<vars, childVars>>

-----------------------------------------------------------------------------
ChildTypeOK ==
    /\ child \in ChildDAGSpec
    /\ step \in {"validate", "build", "persist", "sort", "raised"}
    /\ rows \in Seq(Ids)
    /\ nodes \subseteq Ids \ {ParentPlan}
    /\ edges \subseteq Ids \X nodes \X (1 .. MaxCopies)

\* Composites some of which wait for one another (Executor's Cyclic).
CyclicComposites ==
    \E S \in SUBSET CompIds : S # {} /\ \A c \in S : \E b \in S : child.edges[<<b, c>>] > 0

\* The sort of a child DAG fails just when sequential_edges has a cycle: the
\* Review, the terminal Plan and the parent Plan add none and hide none.
SortFailsOnlyOnCycle ==
    /\ pc = "raised" => CyclicComposites
    /\ pc = "returned" => ~CyclicComposites

\* Every row that is there when the loop begins will be run and nothing else:
\* the order has each row once.
OrderIsTheRows ==
    pc = "returned" => Elems(result) = Elems(rows) /\ Len(result) = Len(rows)

\* P1.5, P1.6: in that order each Coding node comes before its Review, a composite
\* that waits for another comes after the other's Review, and the Plan is last.
StandardOrder ==
    pc = "returned" =>
        LET at(n) == CHOOSE i \in DOMAIN result : result[i] = n
        IN  /\ \A c \in CompIds : at(CodingOf(c)) < at(ReviewOf(c))
            /\ \A b, c \in CompIds : child.edges[<<b, c>>] > 0 =>
                  at(ReviewOf(b)) < at(CodingOf(c))
            /\ at(Terminal) = Len(result)

\* A spec that repeats a composite id is found out only by the primary key, when
\* some of its nodes are in dag_nodes already; no other spec fails there.
DuplicateIsLate ==
    step = "raised" /\ rows # <<>> <=>
        step = "raised" /\ Valid /\ Cardinality(CompIds) < Len(child.composites)

=============================================================================
