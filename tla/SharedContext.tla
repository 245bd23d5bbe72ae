---------------------------- MODULE SharedContext ----------------------------
(***************************************************************************)
(* The discoveries of a run: append_discoveries (context/shared.py), the   *)
(* view a node gets (_build_shared_view, context/provider.py) and what of  *)
(* it reaches the prompt (serialize_node_context, agents/base.py).         *)
(*                                                                         *)
(* A discovery is its category, numbered in the order of the lists of      *)
(* SharedContext, and its size, in the money its bytes cost.               *)
(***************************************************************************)
EXTENDS Integers, FiniteSets, FiniteSetsExt, Sequences

CONSTANTS
    Categories,     \* number of categories (5 in the code)
    Opening,        \* those that make the prompt have a Shared Context section
    Sizes,          \* of a record
    Outputs,        \* the lists of discoveries a node may return
    Capped          \* usd_per_byte # 0

Discovery == [cat : 1 .. Categories, size : Sizes]

ASSUME ContextAssumption ==
    /\ Categories \in Nat
    /\ Opening \subseteq 1 .. Categories
    /\ Sizes \subseteq Nat
    /\ Outputs \subseteq Seq(Discovery)
    /\ Capped \in BOOLEAN

VARIABLES
    memory,     \* the records of SharedContext's lists
    rows,       \* those in the table shared_context
    unseen,     \* records _build_shared_view has not come to
    view,       \* records of the SharedContextView
    bytes       \* bytes_used

context == <<memory, rows, unseen, view, bytes>>

ContextInit ==
    /\ memory = {} /\ rows = {}
    /\ unseen = {} /\ view = {} /\ bytes = 0

\* The record of the i-th discovery of node `by'.  All records of a node have
\* one timestamp, later than those of the nodes before.
Record(by, i, d) == [by |-> by, pos |-> i, cat |-> d.cat, size |-> d.size]

\* Of one node: by category, and then as they were found.
Listed(r, s) == r.cat < s.cat \/ (r.cat = s.cat /\ r.pos < s.pos)

\* Mutant of Before: oldest first.
OldestFirst(r, s) == r.by < s.by \/ (r.by = s.by /\ Listed(r, s))

\* The order of all_records after its sort, which is stable: newest first.
Before(r, s) == r.by > s.by \/ (r.by = s.by /\ Listed(r, s))

\* _build_shared_view begins, and is done at once where no cap is enforced.
StartView ==
    /\ unseen' = IF Capped THEN memory ELSE {}
    /\ view' = IF Capped THEN {} ELSE memory
    /\ bytes' = 0
    /\ UNCHANGED <<memory, rows>>

\* The next record of the loop is taken if it fits, or dropped.
TakeNext(limit) ==
    \E r \in unseen :
        /\ \A s \in unseen \ {r} : Before(r, s)
        /\ unseen' = unseen \ {r}
        /\ IF bytes + r.size <= limit
           THEN view' = view \union {r} /\ bytes' = bytes + r.size
           ELSE UNCHANGED <<view, bytes>>
        /\ UNCHANGED <<memory, rows>>

\* append_discoveries: into memory, then, awaited, into the database.
Remember(r) ==
    /\ memory' = memory \union {r}
    /\ UNCHANGED <<rows, unseen, view, bytes>>

\* Mutant of Commit: one row per node.
CommitPerNode(r) ==
    /\ rows' = {s \in rows : s.by # r.by} \union {r}
    /\ UNCHANGED <<memory, unseen, view, bytes>>

Commit(r) ==
    /\ rows' = rows \union {r}
    /\ UNCHANGED <<memory, unseen, view, bytes>>

\* The records serialize_node_context writes: all of them, or none when the view
\* has neither a file mapping nor a root cause (nothing sets a summary or plan).
Prompt == IF \E r \in view : r.cat \in Opening THEN view ELSE {}

SizeOf(records) == MapThenSumSet(LAMBDA r : r.size, records)
=============================================================================
