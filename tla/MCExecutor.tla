----------------------------- MODULE MCExecutor -----------------------------
(***************************************************************************)
(* Instances of Executor for TLC: the child DAGs a Plan may ask for.       *)
(***************************************************************************)
EXTENDS Executor

CONSTANTS a, b

Child(comps, edges) == [comps |-> comps, edges |-> edges, valid |-> TRUE, dup |-> FALSE]

One == Child({a}, {})
Parallel == Child({a, b}, {})
InOrder == Child({a, b}, {<<a, b>>})
Cycle == Child({a, b}, {<<a, b>>, <<b, a>>})
Invalid == [One EXCEPT !.valid = FALSE]
Duplicate == [Parallel EXCEPT !.dup = TRUE]

\* Two composites, one level of children.
WideSpecs == {One, Parallel, InOrder, Cycle, Invalid, Duplicate}
\* Only what the planner is asked for.
PlainSpecs == {One}
=============================================================================
