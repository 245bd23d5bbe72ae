------------------------------- MODULE DagRun -------------------------------
(***************************************************************************)
(* What a DAG run promises to whoever reads its rows: dag_runs.status,     *)
(* dag_nodes.status and parent_node_ids.  It says nothing of frames,       *)
(* retries, branches or budgets.  Executor implements it, and StatusServer *)
(* reads the rows of anything that does.                                   *)
(*                                                                         *)
(* There is no liveness: an exception raised by _spawn_child_dag leaves    *)
(* the run RUNNING for ever.                                               *)
(***************************************************************************)
CONSTANT Nodes    \* every node that could ever be persisted

VARIABLES
    run,      \* dag_runs.status
    status,   \* dag_nodes.status, "absent" when there is no row
    needs     \* parent_node_ids

runVars == <<run, status, needs>>

Stopped == {"paused", "failed", "escalated"}

With(s) == {n \in Nodes : status[n] = s}
Rows == Nodes \ With("absent")

\* Between two nodes, and none has failed.
Idle == run = "running" /\ With("running") = {} /\ With("failed") = {}

RunInit ==
    /\ run = "pending"
    /\ status \in [Nodes -> {"absent", "pending"}]
    /\ needs \in [Nodes -> SUBSET Nodes]

Begin == run = "pending" /\ run' = "running" /\ UNCHANGED <<status, needs>>

\* A child DAG is laid out: rows that exist keep their parents.
LayOut ==
    /\ Idle
    /\ needs' \in [Nodes -> SUBSET Nodes]
    /\ \A n \in Rows : needs'[n] = needs[n]
    /\ UNCHANGED <<run, status>>

\* Rows are added before the run begins and when a child DAG has been laid out.
Create(n) ==
    /\ Idle \/ run = "pending"
    /\ status[n] = "absent"
    /\ status' = [status EXCEPT ![n] = "pending"]
    /\ UNCHANGED <<run, needs>>

\* One node at a time, after the nodes it needs, and never after a failure.
StartNode(n) ==
    /\ Idle
    /\ status[n] = "pending"
    /\ needs[n] \subseteq With("completed")
    /\ status' = [status EXCEPT ![n] = "running"]
    /\ UNCHANGED <<run, needs>>

Succeed(n) ==
    /\ run = "running"
    /\ status[n] = "running"
    /\ status' = [status EXCEPT ![n] = "completed"]
    /\ UNCHANGED <<run, needs>>

\* A running node gives up, or the review gate blocks a pending one.
Fail(n) ==
    /\ status[n] = "running" \/ (Idle /\ status[n] = "pending")
    /\ run = "running"
    /\ status' = [status EXCEPT ![n] = "failed"]
    /\ UNCHANGED <<run, needs>>

\* Mutant of Halt: the run's row is written before the node's.
HaltFirst ==
    /\ run \in {"running"} \union Stopped
    /\ run' \in Stopped
    /\ UNCHANGED <<status, needs>>

\* FAILED and ESCALATED need a failed node.  PAUSED does not, but the pause
\* check of an outer frame may also write it over ESCALATED or FAILED.
Halt ==
    /\ run \in {"running"} \union Stopped
    /\ With("running") = {}
    /\ run' \in (IF With("failed") = {} THEN {"paused"} ELSE Stopped)
    /\ UNCHANGED <<status, needs>>

\* Mutant of Conclude: not every row has been dealt with.
ConcludeEarly ==
    /\ Idle
    /\ run' = "completed"
    /\ UNCHANGED <<status, needs>>

Conclude ==
    /\ Idle
    /\ Rows = With("completed")
    /\ run' = "completed"
    /\ UNCHANGED <<status, needs>>

NodeStep(n) == Create(n) \/ StartNode(n) \/ Succeed(n) \/ Fail(n)

RunNext ==
    \/ Begin \/ LayOut \/ Halt \/ Conclude
    \/ \E n \in Nodes : NodeStep(n)

RunSpec == RunInit /\ [][RunNext]_runVars
=============================================================================
