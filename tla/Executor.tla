------------------------------ MODULE Executor ------------------------------
(***************************************************************************)
(* The DAG executor of agent_agent (dag/executor.py) together with the     *)
(* budget it keeps (budget.py) and the rows of the state store it writes   *)
(* (state.py).                                                             *)
(*                                                                         *)
(* execute() walks a DAG of Plan, Coding and Review nodes in topological   *)
(* order.  A Plan whose output names a child DAG makes the executor        *)
(* recurse (_spawn_child_dag) before it goes on, so the call stack is a    *)
(* stack of frames, one per nesting level.  Every write to the state store *)
(* is a commit of its own, and every commit is a step of its own here (the *)
(* budget events of one drain are a single step): the states between two   *)
(* of them are what the status server can read and what a crash leaves     *)
(* behind.                                                                 *)
(*                                                                         *)
(* Abstractions: an agent's work is one step with an arbitrary outcome;    *)
(* USD is an integer; the topological order is any linear extension of the *)
(* parent relation (TopoSort shows that the sort computes one); a push     *)
(* that is disabled is one that goes well, as in _push_branch; an agent    *)
(* function asks for no child DAG of its own, as the stub one does not,    *)
(* although _dispatch_node would spawn it; a failing SQLite write, but for *)
(* the primary key of dag_nodes, is left out.                              *)
(***************************************************************************)
EXTENDS Integers, FiniteSets

CONSTANTS
    Comps,                  \* composite ids a ChildDAGSpec may use
    Term,                   \* composite id of a Plan node
    MaxLevel,               \* deepest level _spawn_child_dag accepts (4 in the code)
    MaxTransientAttempts,   \* attempts per invocation (3 in the code)
    MaxReruns,              \* re-invocations per node (1 in the code)
    UseComposites,          \* real composites, or an agent function on the stub DAG
    ChildSpecs,             \* the child DAGs a Plan may ask for
    Costs,                  \* what a successful node may cost
    Total,                  \* total_budget_usd
    MinNode                 \* MIN_NODE_BUDGET_USD

Levels == 0 .. MaxLevel

SpecType == [comps : SUBSET Comps, edges : SUBSET (Comps \X Comps),
             valid : BOOLEAN, dup : BOOLEAN]

\* child_dag = None
NoSpec == [comps |-> {}, edges |-> {}, valid |-> FALSE, dup |-> FALSE]

ASSUME ConstantsAssumption ==
    /\ Term \notin Comps
    /\ MaxLevel \in Nat \ {0}
    /\ MaxTransientAttempts \in Nat \ {0}
    /\ MaxReruns \in Nat
    /\ UseComposites \in BOOLEAN
    /\ ChildSpecs \subseteq SpecType \ {NoSpec}
    /\ \A s \in ChildSpecs : IsFiniteSet(s.comps)
    /\ \A s \in ChildSpecs : s.valid => s.edges \subseteq s.comps \X s.comps
    /\ ~UseComposites => Comps # {} /\ ChildSpecs = {}
    /\ Costs \subseteq Nat
    /\ Total \in Nat \ {0}
    /\ MinNode \in Nat \ {0}

-----------------------------------------------------------------------------
(* Nodes and the shape of a DAG.                                           *)

Node == [level : Levels, kind : {"plan", "coding", "review"},
         comp : Comps \union {Term}]

Plan(l) == [level |-> l, kind |-> "plan", comp |-> Term]
Coding(l, c) == [level |-> l, kind |-> "coding", comp |-> c]
Review(l, c) == [level |-> l, kind |-> "review", comp |-> c]

\* A Coding and a Review node per composite, and the terminal Plan node.
ChildNodes(l, s) == {Plan(l)} \union {Coding(l, c) : c \in s.comps}
                              \union {Review(l, c) : c \in s.comps}

\* The four-node DAG of build_stub_dag, or the lone Plan node of build_l0_dag.
StubSpec == [comps |-> {CHOOSE c \in Comps : TRUE}, edges |-> {},
             valid |-> TRUE, dup |-> FALSE]
TopNodes == IF UseComposites THEN {Plan(0)} ELSE {Plan(0)} \union ChildNodes(1, StubSpec)

\* topological_sort raises ValueError exactly when the graph has a cycle:
\* some nonempty set in which every composite waits for one of the set.
Cyclic(s) == \E S \in SUBSET s.comps :
                /\ S # {}
                /\ \A c \in S : \E b \in S : <<b, c>> \in s.edges

\* What an invocation that succeeds returns: its cost, the branch a Coding
\* node reports and the child DAG a Plan node asks for.
Outcomes(n) ==
    [cost   : Costs,
     branch : IF n.kind = "coding" THEN {"none", "reported"} ELSE {"none"},
     child  : IF n.kind = "plan" THEN ChildSpecs \union {NoSpec} ELSE {NoSpec}]
NoOutcome == [cost |-> 0, branch |-> "none", child |-> NoSpec]

NoRetry == {"resource_exhaustion", "deterministic", "safety_violation"}
\* "transient" is a TransientError that exhausted its attempts, which
\* _run_with_transient_retry returns under the category AGENT_ERROR.
Retryable == {"agent_error", "unknown", "transient"}

-----------------------------------------------------------------------------
(* The budget (budget.py).                                                 *)

Remaining(u) == Total - u
ShouldPause(u) == Remaining(u) * 20 <= Total
TooSmall(u, k) == Remaining(u) < MinNode * k

-----------------------------------------------------------------------------
VARIABLES
    (* control *)
    pc,         \* what the executor does next
    depth,      \* nesting level of the running frame
    todo,       \* per frame: nodes its loop has not reached
    cur,        \* per frame: the node its loop is at
    tries,      \* attempts of the current invocation that failed transiently
    reruns,     \* reruns_used of the current node
    failure,    \* category of the failure being handled
    out,        \* result being processed
    (* state store *)
    run,        \* dag_runs.status
    spec,       \* per level: what the rows of dag_nodes say of its edges
    status,     \* dag_nodes.status, "absent" when there is no row
    branch,     \* dag_nodes.branch_name: "none", or the branch of the last
                \* worktree ("local", and "pushed" once _push_branch is through),
                \* or the name a Coding node's result "reported" after that,
                \* which need not be that of the branch pushed
    results,    \* nodes with a node_results row
    shared,     \* nodes whose discoveries are in the shared context
    escalated,  \* nodes with an OPEN escalation record
    usageEvents,\* sum of the USAGE budget events
    pauses,     \* number of PAUSE budget events
    usdUsed,    \* dag_runs.usd_used
    (* BudgetManager *)
    allocated,  \* the keys of _used
    used,       \* sum of the values of _used
    pendUsage,  \* USAGE amount among the undrained events
    pendPause,  \* PAUSE events among the undrained events
    delta       \* usage_delta of _drain_and_flush

control == <<depth, todo, cur>>
attempt == <<tries, reruns, failure, out>>
rows == <<run, spec, status, branch, results, shared, escalated>>
ledger == <<usageEvents, pauses, usdUsed>>
budget == <<allocated, used, pendUsage, pendPause, delta>>
vars == <<pc, control, attempt, rows, ledger, budget>>

Halted == {"paused", "failed", "escalated"}
Here == cur[depth]

Parents(n) ==
    CASE n.kind = "review" -> {Coding(n.level, n.comp)}
      [] n.kind = "plan"   -> {Review(n.level, c) : c \in spec[n.level].comps}
      [] n.kind = "coding" -> {Plan(n.level - 1)} \union
            {Review(n.level, b) : b \in {b \in Comps : <<b, n.comp>> \in spec[n.level].edges}}

Persisted == {n \in Node : status[n] # "absent"}

\* The rows as DagRun sees them.
Lifecycle == INSTANCE DagRun WITH
    Nodes <- Node, needs <- [n \in Node |-> Parents(n) \intersect Node]

Init ==
    /\ pc = "start"
    /\ depth = 0
    /\ todo = [l \in Levels |-> {}]
    /\ cur = [l \in Levels |-> Plan(0)]
    /\ tries = 0 /\ reruns = 0 /\ failure = "none" /\ out = NoOutcome
    /\ run = "pending"
    /\ spec = [l \in Levels |-> IF l = 1 /\ ~UseComposites THEN StubSpec ELSE NoSpec]
    /\ status = [n \in Node |-> IF n \in TopNodes THEN "pending" ELSE "absent"]
    /\ branch = [n \in Node |-> "none"]
    /\ results = {} /\ shared = {} /\ escalated = {}
    /\ usageEvents = 0 /\ pauses = 0 /\ usdUsed = 0
    /\ allocated = {} /\ used = 0 /\ pendUsage = 0 /\ pendPause = 0 /\ delta = 0

-----------------------------------------------------------------------------
(* The dispatch loop: the same in execute() and in _spawn_child_dag.       *)

\* Mutant of Return: the parent's loop goes on without a drain.
ReturnSkipsDrain ==
    IF depth = 0 THEN pc' = "returned" /\ depth' = 0
                 ELSE pc' = "check" /\ depth' = depth - 1

\* A `return` of the loop ends execute() in the top frame.  In a child frame
\* it ends _spawn_child_dag, whose caller _dispatch_node then returns True:
\* the parent's loop goes on with its _drain_and_flush.
Return ==
    IF depth = 0 THEN pc' = "returned" /\ depth' = 0
                 ELSE pc' = "drain" /\ depth' = depth - 1

\* execute(): allocate the budget, sort, set the run RUNNING.
Start ==
    /\ pc = "start"
    /\ allocated' = TopNodes
    /\ todo' = [todo EXCEPT ![0] = TopNodes]
    /\ run' = "running"
    /\ pc' = "loop"
    /\ UNCHANGED <<depth, cur, attempt, spec, status, branch, results, shared,
                   escalated, ledger, used, pendUsage, pendPause, delta>>

\* Mutant of NextNode: iterates the nodes in any order instead of `ordered'.
NextNodeUnordered ==
    /\ pc = "loop"
    /\ run \notin Halted
    /\ \E n \in todo[depth] :
          /\ cur' = [cur EXCEPT ![depth] = n]
          /\ todo' = [todo EXCEPT ![depth] = @ \ {n}]
    /\ pc' = "gate"
    /\ UNCHANGED <<depth, attempt, rows, ledger, budget>>

\* The next node of the order, the run's status having been re-read.
NextNode ==
    /\ pc = "loop"
    /\ run \notin Halted
    /\ \E n \in todo[depth] :
          /\ Parents(n) \intersect todo[depth] = {}
          /\ cur' = [cur EXCEPT ![depth] = n]
          /\ todo' = [todo EXCEPT ![depth] = @ \ {n}]
    /\ pc' = "gate"
    /\ UNCHANGED <<depth, attempt, rows, ledger, budget>>

\* The loop is over: no node left, or `break` on a halted run.
LoopEnd ==
    /\ pc = "loop"
    /\ todo[depth] = {} \/ run \in Halted
    /\ IF depth = 0 THEN pc' = "finish" /\ UNCHANGED depth
                    ELSE pc' = "drain" /\ depth' = depth - 1
    /\ UNCHANGED <<todo, cur, attempt, rows, ledger, budget>>

\* Mutants of Finish: the status is not looked at, or a stale copy of it is.
FinishAlways ==
    /\ pc = "finish"
    /\ run' = "completed"
    /\ pc' = "returned"
    /\ UNCHANGED <<control, attempt, spec, status, branch, results, shared,
                   escalated, ledger, budget>>
FinishStale ==
    /\ pc = "finish"
    /\ pc' = "returned"
    /\ UNCHANGED <<control, attempt, rows, ledger, budget>>

\* execute() after its loop: COMPLETED unless the run was halted.
Finish ==
    /\ pc = "finish"
    /\ run' = IF run = "running" THEN "completed" ELSE run
    /\ pc' = "returned"
    /\ UNCHANGED <<control, attempt, spec, status, branch, results, shared,
                   escalated, ledger, budget>>

\* _can_dispatch: a Review waits for the branch of its Coding node.
CanDispatch(n) ==
    n.kind = "review" => branch[Coding(n.level, n.comp)] # "none"

\* Each attempt at a Coding composite first gets a fresh worktree.
AttemptAt(n) == IF UseComposites /\ n.kind = "coding" THEN "worktree" ELSE "invoke"

GateBlocked ==
    /\ pc = "gate"
    /\ ~CanDispatch(Here)
    /\ status' = [status EXCEPT ![Here] = "failed"]
    /\ pc' = "gateFail"
    /\ UNCHANGED <<control, attempt, run, spec, branch, results, shared,
                   escalated, ledger, budget>>

GateFail ==
    /\ pc = "gateFail"
    /\ run' = "failed"
    /\ Return
    /\ UNCHANGED <<todo, cur, attempt, spec, status, branch, results, shared,
                   escalated, ledger, budget>>

-----------------------------------------------------------------------------
(* _dispatch_node and _run_with_transient_retry.                           *)

Dispatch ==
    /\ pc = "gate"
    /\ CanDispatch(Here)
    /\ status' = [status EXCEPT ![Here] = "running"]
    /\ pc' = AttemptAt(Here)
    /\ UNCHANGED <<control, attempt, run, spec, branch, results, shared,
                   escalated, ledger, budget>>

\* _dispatch_coding: the worktree's new branch goes to the node's row before
\* anything has been committed to it, let alone pushed.
CreateWorktree ==
    /\ pc = "worktree"
    /\ branch' = [branch EXCEPT ![Here] = "local"]
    /\ pc' = "invoke"
    /\ UNCHANGED <<control, attempt, run, spec, status, results, shared,
                   escalated, ledger, budget>>

\* Mutant of PushOnExit: a failed push leaves the row alone.
PushOnExitKeepsRow(exits) ==
    IF pc = "invoke" /\ branch[Here] = "local"
    THEN \E b \in exits : branch' = [branch EXCEPT ![Here] = IF b = "none" THEN @ ELSE b]
    ELSE UNCHANGED branch

\* A Coding composite pushes on its way out (_push_branch), and clears the row
\* when the push fails.  `exits' are the values the row can be left with.
PushOnExit(exits) ==
    IF pc = "invoke" /\ branch[Here] = "local"
    THEN \E b \in exits : branch' = [branch EXCEPT ![Here] = b]
    ELSE UNCHANGED branch

\* A composite can also raise before it comes to the push.
ExitsOfFailure == {"local", "pushed", "none"}

TransientFailure ==
    /\ pc = "invoke"
    /\ IF tries + 1 < MaxTransientAttempts
       THEN /\ tries' = tries + 1
            /\ pc' = AttemptAt(Here)
            /\ UNCHANGED failure
       ELSE /\ tries' = 0
            /\ pc' = "failed"
            /\ failure' = "transient"
    /\ PushOnExit(ExitsOfFailure)
    /\ UNCHANGED <<control, reruns, out, run, spec, status, results, shared,
                   escalated, ledger, budget>>

\* A worktree that cannot be made is a WorktreeError, which nobody classifies.
InvocationFails ==
    /\ pc \in {"worktree", "invoke"}
    /\ failure' \in {"unknown"} \union
          (IF pc = "invoke" THEN NoRetry \union {"agent_error"} ELSE {})
    /\ tries' = 0
    /\ pc' = "failed"
    /\ PushOnExit(ExitsOfFailure)
    /\ UNCHANGED <<control, reruns, out, run, spec, status, results, shared,
                   escalated, ledger, budget>>

\* A Coding composite whose push failed reports no branch.
InvocationSucceeds ==
    /\ pc = "invoke"
    /\ UseComposites => CanDispatch(Here)
    /\ out' \in Outcomes(Here)
    /\ PushOnExit({"pushed"} \union (IF out'.branch = "none" THEN {"none"} ELSE {}))
    /\ tries' = 0
    /\ pc' = "save"
    /\ UNCHANGED <<control, reruns, failure, run, spec, status, results, shared,
                   escalated, ledger, budget>>

SaveResult ==
    /\ pc = "save"
    /\ results' = results \union {Here}
    /\ pc' = "complete"
    /\ UNCHANGED <<control, attempt, run, spec, status, branch, shared,
                   escalated, ledger, budget>>

\* Node COMPLETED, branch_name = COALESCE(reported, stored), then record_usage,
\* which raises KeyError for a node the budget has never seen.
Complete ==
    /\ pc = "complete"
    /\ status' = [status EXCEPT ![Here] = "completed"]
    /\ branch' = [branch EXCEPT ![Here] = IF out.branch = "none" THEN @ ELSE out.branch]
    /\ IF out.cost > 0 /\ Here \notin allocated
       THEN pc' = "raised" /\ UNCHANGED <<used, pendUsage>>
       ELSE /\ pc' = "discover"
            /\ used' = used + out.cost
            /\ pendUsage' = pendUsage + out.cost
    /\ UNCHANGED <<control, attempt, run, spec, results, shared, escalated,
                   ledger, allocated, pendPause, delta>>

Discover ==
    /\ pc = "discover"
    /\ shared' = shared \union {Here}
    /\ reruns' = 0
    /\ pc' = IF out.child = NoSpec THEN "drain" ELSE "spawn"
    /\ UNCHANGED <<control, tries, failure, out, run, spec, status, branch, results,
                   escalated, ledger, budget>>

\* Mutants of Rerun: no cap on the reruns, or none of them counted.
RerunUncapped ==
    /\ pc = "failed"
    /\ failure \in Retryable
    /\ reruns' = reruns + 1
    /\ failure' = "none"
    /\ pc' = AttemptAt(Here)
    /\ UNCHANGED <<control, tries, out, rows, ledger, budget>>
RerunForever ==
    /\ pc = "failed"
    /\ failure \in Retryable
    /\ reruns < MaxReruns
    /\ failure' = "none"
    /\ pc' = AttemptAt(Here)
    /\ UNCHANGED <<control, tries, reruns, out, rows, ledger, budget>>

Rerun ==
    /\ pc = "failed"
    /\ failure \in Retryable
    /\ reruns < MaxReruns
    /\ reruns' = reruns + 1
    /\ failure' = "none"
    /\ pc' = AttemptAt(Here)
    /\ UNCHANGED <<control, tries, out, rows, ledger, budget>>

\* Mutant of Escalate: no record when the rerun is used up.
EscalateNoRetryOnly ==
    /\ pc = "failed"
    /\ failure \in NoRetry \/ reruns >= MaxReruns
    /\ escalated' = IF failure \in NoRetry THEN escalated \union {Here} ELSE escalated
    /\ pc' = "escalateNode"
    /\ UNCHANGED <<control, attempt, run, spec, status, branch, results, shared,
                   ledger, budget>>

\* _escalate, one commit after the other: the record, the node, the run.
Escalate ==
    /\ pc = "failed"
    /\ failure \in NoRetry \/ reruns >= MaxReruns
    /\ escalated' = escalated \union {Here}
    /\ pc' = "escalateNode"
    /\ UNCHANGED <<control, attempt, run, spec, status, branch, results, shared,
                   ledger, budget>>

EscalateNode ==
    /\ pc = "escalateNode"
    /\ status' = [status EXCEPT ![Here] = "failed"]
    /\ pc' = "escalateRun"
    /\ UNCHANGED <<control, attempt, run, spec, branch, results, shared,
                   escalated, ledger, budget>>

\* Mutant of EscalateRun: `return False' is missing, the retry loop goes on.
EscalateRunFallsThrough ==
    /\ pc = "escalateRun"
    /\ run' = "escalated"
    /\ failure' = "none"
    /\ pc' = AttemptAt(Here)
    /\ UNCHANGED <<control, tries, reruns, out, spec, status, branch, results, shared,
                   escalated, ledger, budget>>

EscalateRun ==
    /\ pc = "escalateRun"
    /\ run' = "escalated"
    /\ reruns' = 0
    /\ failure' = "none"
    /\ Return
    /\ UNCHANGED <<todo, cur, tries, out, spec, status, branch, results, shared,
                   escalated, ledger, budget>>

-----------------------------------------------------------------------------
(* _spawn_child_dag.                                                       *)

\* An exception here is caught by nobody: it leaves execute() itself.
Spawn ==
    /\ pc = "spawn"
    /\ IF out.child.valid /\ depth < MaxLevel
       THEN /\ spec' = [spec EXCEPT ![depth + 1] = out.child]
            /\ pc' = "persist"
       ELSE pc' = "raised" /\ UNCHANGED spec
    /\ UNCHANGED <<control, attempt, run, status, branch, results, shared,
                   escalated, ledger, budget>>

\* create_dag_node, in the order of _build_child_dag_nodes: composite by
\* composite, Coding before Review, the terminal Plan node last.
Ready(l, n) ==
    LET c == spec[l].comps IN
    CASE n.kind = "coding" -> \A b \in c : status[Coding(l, b)] = status[Review(l, b)]
      [] n.kind = "review" -> status[Coding(l, n.comp)] # "absent"
      [] n.kind = "plan"   -> \A b \in c : status[Review(l, b)] # "absent"

Persist ==
    /\ pc = "persist"
    /\ \E n \in ChildNodes(depth + 1, spec[depth + 1]) :
          /\ status[n] = "absent"
          /\ Ready(depth + 1, n)
          /\ n.kind = "plan" => ~spec[depth + 1].dup
          /\ status' = [status EXCEPT ![n] = "pending"]
          /\ pc' = IF n.kind = "plan" THEN "allocate" ELSE "persist"
    /\ UNCHANGED <<control, attempt, run, spec, branch, results, shared,
                   escalated, ledger, budget>>

\* Two composites with one id are two rows with one primary key: the second
\* INSERT raises IntegrityError.
PersistDuplicate ==
    /\ pc = "persist"
    /\ spec[depth + 1].dup
    /\ \E c \in spec[depth + 1].comps : status[Coding(depth + 1, c)] # "absent"
    /\ \A c \in spec[depth + 1].comps :
          status[Coding(depth + 1, c)] = status[Review(depth + 1, c)]
    /\ pc' = "raised"
    /\ UNCHANGED <<control, attempt, rows, ledger, budget>>

\* allocate_child, which returns without allocating when nothing remains and
\* raises when a node's share is too small; then topological_sort, and the
\* child's loop begins.
EnterChild ==
    LET child == ChildNodes(depth + 1, spec[depth + 1])
        share == Remaining(used) > 0
        poor  == share /\ TooSmall(used, Cardinality(child))
    IN  /\ pc = "allocate"
        /\ allocated' = IF share /\ ~poor THEN allocated \union child ELSE allocated
        /\ out' = NoOutcome
        /\ IF poor \/ Cyclic(spec[depth + 1])
           THEN pc' = "raised" /\ UNCHANGED <<depth, todo>>
           ELSE /\ pc' = "loop"
                /\ depth' = depth + 1
                /\ todo' = [todo EXCEPT ![depth + 1] = child]
        /\ UNCHANGED <<cur, tries, reruns, failure, rows, ledger, used, pendUsage,
                       pendPause, delta>>

-----------------------------------------------------------------------------
(* _drain_and_flush and the pause check.                                   *)

\* The events' commits, then (Increment) the one of dag_runs.usd_used.
Drain(from, to) ==
    /\ pc = from
    /\ usageEvents' = usageEvents + pendUsage
    /\ pauses' = pauses + pendPause
    /\ delta' = pendUsage
    /\ pendUsage' = 0
    /\ pendPause' = 0
    /\ out' = NoOutcome
    /\ pc' = to
    /\ UNCHANGED <<control, tries, reruns, failure, rows, usdUsed, allocated, used>>

Increment(from, to) ==
    /\ pc = from
    /\ usdUsed' = usdUsed + delta
    /\ delta' = 0
    /\ pc' = to
    /\ UNCHANGED <<control, attempt, rows, usageEvents, pauses, allocated, used,
                   pendUsage, pendPause>>

\* Mutant of CheckPause: a child DAG is not interrupted.
CheckPauseOnTop ==
    /\ pc = "check"
    /\ IF depth = 0 /\ ShouldPause(used)
       THEN pendPause' = pendPause + 1 /\ pc' = "drainPause"
       ELSE pc' = "loop" /\ UNCHANGED pendPause
    /\ UNCHANGED <<control, attempt, rows, ledger, allocated, used, pendUsage, delta>>

CheckPause ==
    /\ pc = "check"
    /\ IF ShouldPause(used)
       THEN pendPause' = pendPause + 1 /\ pc' = "drainPause"
       ELSE pc' = "loop" /\ UNCHANGED pendPause
    /\ UNCHANGED <<control, attempt, rows, ledger, allocated, used, pendUsage, delta>>

Pause ==
    /\ pc = "pause"
    /\ run' = "paused"
    /\ Return
    /\ UNCHANGED <<todo, cur, attempt, spec, status, branch, results, shared,
                   escalated, ledger, budget>>

\* execute() has returned or raised: the run is over.
Ended ==
    /\ pc \in {"returned", "raised"}
    /\ UNCHANGED vars

DrainNode == Drain("drain", "increment") \/ Increment("increment", "check")
DrainPause == Drain("drainPause", "incrementPause") \/ Increment("incrementPause", "pause")

Next ==
    \/ Start \/ NextNode \/ LoopEnd \/ Finish
    \/ GateBlocked \/ GateFail
    \/ Dispatch \/ CreateWorktree
    \/ TransientFailure \/ InvocationFails \/ InvocationSucceeds
    \/ SaveResult \/ Complete \/ Discover
    \/ Rerun \/ Escalate \/ EscalateNode \/ EscalateRun
    \/ Spawn \/ Persist \/ PersistDuplicate \/ EnterChild
    \/ DrainNode \/ CheckPause \/ DrainPause \/ Pause
    \/ Ended

\* One task runs the executor and every agent invocation it awaits ends.
Spec == Init /\ [][Next]_vars /\ WF_vars(Next)
-----------------------------------------------------------------------------
(* Properties.                                                             *)

\* Every variable keeps its type; in particular the retry counters stay below
\* the caps of executor.py:64-65 and the frames within the nesting cap.
TypeOK ==
    /\ pc \in {"start", "loop", "finish", "gate", "gateFail", "worktree", "invoke",
               "save", "complete", "discover", "failed", "escalateNode", "escalateRun",
               "spawn", "persist", "allocate", "drain", "increment", "check",
               "drainPause", "incrementPause", "pause", "returned", "raised"}
    /\ depth \in Levels
    /\ todo \in [Levels -> SUBSET Node]
    /\ cur \in [Levels -> Node]
    /\ tries \in 0 .. MaxTransientAttempts - 1
    /\ reruns \in 0 .. MaxReruns
    /\ failure \in NoRetry \union Retryable \union {"none"}
    /\ out \in [cost : Nat, branch : {"none", "reported"}, child : SpecType]
    /\ run \in {"pending", "running", "completed"} \union Halted
    /\ spec \in [Levels -> SpecType]
    /\ status \in [Node -> {"absent", "pending", "running", "completed", "failed"}]
    /\ branch \in [Node -> {"none", "local", "pushed", "reported"}]
    /\ results \subseteq Node
    /\ shared \subseteq Node
    /\ escalated \subseteq Node
    /\ allocated \subseteq Node
    /\ {usageEvents, pauses, usdUsed, used, pendUsage, pendPause, delta} \subseteq Nat

\* A run is marked COMPLETED only when every node ever persisted for it, in
\* child DAGs too, is COMPLETED and its result is stored.  The decision is made
\* in the top frame from dag_runs.status alone (executor.py:231-233): a child
\* frame that stopped early is seen only through the status it left behind.
CompletedMeansAllDone ==
    run = "completed" => \A n \in Persisted : status[n] = "completed" /\ n \in results

\* A node's row says COMPLETED only when its node_results row is there, so a
\* reader, or a restart after a crash, finds the output of every node reported
\* complete (the order of the commits in executor.py:282-293).
CompletedHasResult ==
    \A n \in Node : status[n] = "completed" => n \in results

\* build_context silently leaves a parent without a stored result out of
\* parent_outputs (context/provider.py:65-69).  It never has to: whenever an
\* agent is invoked, every parent's result and discoveries are there.
ContextComplete ==
    pc \in {"worktree", "invoke"} => Parents(Here) \subseteq results \intersect shared

\* A Review runs only when the push with which the last attempt at its Coding
\* node ended went well.  The row's branch_name is set when the worktree is made,
\* long before that push (executor.py:514), so the gate's "branch_name is not
\* None" is not enough by itself.  This is about the attempt, not the name: that
\* the row then names the branch which was pushed is not said, for the result may
\* have reported another (BranchIsPushed of CodingComposite).
ReviewFollowsPush ==
    \A n \in Node : n.kind = "review" /\ status[n] = "running" =>
        branch[Coding(n.level, n.comp)] \in {"pushed", "reported"}

\* Once execute() returns, dag_runs.usd_used and the USAGE events agree with
\* what the BudgetManager has counted: no path skips the last flush.
UsageFlushed ==
    pc = "returned" => usdUsed = used /\ usageEvents = used

\* In every state, so also after a crash in any of them, usd_used lags behind
\* the persisted USAGE events and these behind the true usage, and the lag is
\* exactly what _drain_and_flush still has in its hands.
LedgerLag ==
    /\ usageEvents + pendUsage = used
    /\ usdUsed + delta = usageEvents

\* execute() never returns leaving the run PENDING or RUNNING, or a node RUNNING.
ReturnedIsSettled ==
    pc = "returned" =>
        /\ run \in {"completed"} \union Halted
        /\ \A n \in Node : status[n] # "running"

\* A node that gave up has an escalation record, unless it is a Review the gate
\* blocked; and a run is ESCALATED only with such a record (executor.py:753-790).
FailureIsRecorded ==
    /\ \A n \in Node : status[n] = "failed" /\ n \notin escalated =>
          n.kind = "review" /\ branch[Coding(n.level, n.comp)] = "none"
    /\ run = "escalated" => \E n \in escalated : status[n] = "failed"

\* Once the run is halted, by whatever frame, no node is dispatched and nothing
\* more is spawned, however many frames are still on the stack.
HaltedIsQuiet ==
    [][\A n \in Node : run \in Halted /\ status'[n] # status[n]
                          => status[n] # "absent" /\ status'[n] # "running"]_vars

\* The pause check of a Plan waits for the child DAG it spawned (executor.py:320),
\* so a node can start although no more than 5 % is left.  It is then the first
\* of its child DAG, and no other of that DAG ever starts after it.
LateDispatch ==
    [][\A n \in Node :
          status[n] = "pending" /\ status'[n] = "running" /\ ShouldPause(used) =>
             /\ depth > 0
             /\ \A m \in Node : m.level = n.level => status[m] \in {"absent", "pending"}]_vars

\* The executor keeps what DagRun promises to the readers of its rows: nodes run
\* one at a time and after their parents, none starts once one has failed, the
\* parents of a row never change, a run is FAILED or ESCALATED only after a node
\* has failed and COMPLETED only when every row is.
ImplementsDagRun == Lifecycle!RunSpec

\* One Coding node as CodingNode sees it.
PhaseOf(n) ==
    CASE status[n] \in {"absent", "pending"} -> "worktree"
      [] status[n] = "running" -> IF pc \in {"worktree", "invoke"} THEN pc
                                  ELSE IF pc \in {"save", "complete"} THEN "answered" ELSE "failed"
      [] status[n] = "completed" -> "completed"
      [] status[n] = "failed" -> "gaveUp"

Contract(n) == INSTANCE CodingNode WITH
    phase <- PhaseOf(n), row <- branch[n],
    answer <- IF status[n] = "running" /\ pc \in {"save", "complete"} THEN out.branch ELSE "none"

\* Each Coding node gets from the executor the calls and the writes to its row
\* that its composite is written for, and no others.
ImplementsContracts ==
    UseComposites => \A n \in Node : n.kind = "coding" => Contract(n)!NodeSpec

\* execute() ends: retries, reruns and nesting are bounded, and no frame waits.
Termination == <>(pc \in {"returned", "raised"})

-----------------------------------------------------------------------------
(* Inductive strengthenings.                                               *)

\* Where the loop's current node has not been dealt with yet.
AtNode == {"gate", "gateFail", "worktree", "invoke", "save", "complete", "failed",
           "escalateNode", "escalateRun"}

\* A frame of the stack still has to deal with n.
Outstanding(n) ==
    \/ \E d \in 0 .. depth : n \in todo[d]
    \/ pc \in AtNode /\ n = Here
    \/ pc \in {"persist", "allocate"} /\ n \in ChildNodes(depth + 1, spec[depth + 1])

\* As long as the run is RUNNING, each node that is persisted is COMPLETED or in
\* the hands of some frame; when the last frame is about to decide, none is left.
Coverage ==
    /\ pc = "start" => depth = 0 /\ Persisted \subseteq TopNodes
    /\ pc = "start" <=> run = "pending"
    /\ run = "running" /\ pc # "raised" =>
          \A n \in Persisted : status[n] = "completed" \/ Outstanding(n)
    /\ pc = "finish" => depth = 0 /\ (run = "running" => todo[0] = {})
    /\ run = "completed" =>
          pc = "returned" /\ \A n \in Persisted : status[n] = "completed"

\* Frames nest within the cap: only a Plan above the deepest level spawns.
SpawnDepth == pc \in {"persist", "allocate"} => depth < MaxLevel

\* The result is stored before the row says COMPLETED.
ResultFirst == CompletedHasResult /\ (pc = "complete" => Here \in results)

\* Where usage can be waiting to be flushed: anywhere in a child frame, whose
\* parent Plan's own cost waits for the child to end, but in the top frame only
\* between record_usage and the drain.
FlushInv ==
    /\ LedgerLag
    /\ pc # "increment" => delta = 0
    /\ pc \in {"increment", "check", "drainPause", "incrementPause", "pause"} => pendUsage = 0
    /\ depth = 0 /\ pc \notin {"discover", "spawn", "persist", "allocate", "drain", "raised"}
          => pendUsage = 0
    /\ pc \in {"finish", "returned"} => depth = 0

\* A halted run is only ever left: no frame is inside _dispatch_node.
QuietInv ==
    run \in Halted => pc \in {"loop", "finish", "drain", "increment", "check",
                              "drainPause", "incrementPause", "pause", "returned"}

\* With TypeOK the five together are inductive; they carry the proofs of
\* CompletedMeansAllDone, CompletedHasResult, UsageFlushed, LedgerLag and
\* HaltedIsQuiet.
IInv == SpawnDepth /\ Coverage /\ ResultFirst /\ FlushInv /\ QuietInv

-----------------------------------------------------------------------------
(* The call stack, for the properties about the order of execution.        *)

\* What the loop of a frame was given, and where a node is being dealt with.
FrameNodes(d) == IF d = 0 THEN TopNodes ELSE ChildNodes(d, spec[d])
Spawning == {"spawn", "persist", "allocate"}
Running == {"worktree", "invoke", "save", "complete", "failed", "escalateNode"}
InNode == AtNode \union Spawning \union {"discover"}

\* Only a Plan spawns, only a DAG of composites has Plans that do, and the edges
\* of a level join its composites.
SpecInv ==
    /\ out.child \in ChildSpecs \union {NoSpec}
    /\ out.child # NoSpec =>
          /\ pc \in Spawning \union {"save", "complete", "discover", "raised"}
          /\ Here.kind = "plan"
    /\ pc \in Spawning => out.child # NoSpec
    /\ \A l \in Levels : spec[l].edges \subseteq spec[l].comps \X spec[l].comps
    /\ spec[0] = NoSpec
    /\ ~UseComposites => depth = 0 /\ spec[1] = StubSpec

\* Frames are nested: each one but the last waits at its Plan, and what a loop
\* has not reached is PENDING.
StackInv ==
    /\ \A d \in 0 .. depth :
          /\ todo[d] \subseteq FrameNodes(d)
          /\ FrameNodes(d) \subseteq Persisted
          /\ \A n \in todo[d] : status[n] = "pending"
    /\ \A d \in 0 .. depth - 1 :
          cur[d] = Plan(d) /\ Plan(d) \notin todo[d] /\ status[Plan(d)] = "completed"
    /\ pc \in InNode => Here \in FrameNodes(depth) /\ Here \notin todo[depth]
    /\ pc = "start" => depth = 0 /\ \A n \in TopNodes : status[n] = "pending"
    /\ \A l \in Levels, c \in Comps :
          status[Coding(l, c)] = "absent" => status[Review(l, c)] = "absent"
    /\ pc = "allocate" => ChildNodes(depth + 1, spec[depth + 1]) \subseteq Persisted

\* One node at a time is RUNNING, the current one, and after a failure only the
\* run's row is left to be written.
CurrentInv ==
    /\ pc = "gate" => status[Here] = "pending"
    /\ pc \in Running => status[Here] = "running"
    /\ pc \in Spawning \union {"discover"} => status[Here] = "completed"
    /\ pc \in {"gateFail", "escalateRun"} => status[Here] = "failed"
    /\ \A n \in Node : status[n] = "running" => pc \in Running /\ n = Here
    /\ \A n \in Node : status[n] = "failed" => pc \in {"gateFail", "escalateRun"} \/ run \in Halted

\* As long as a level's terminal Plan has not spawned, no deeper level exists.
FreshInv ==
    UseComposites =>
       /\ (\/ pc \in InNode \ {"persist", "allocate"} /\ Here = Plan(depth)
           \/ Plan(depth) \in todo[depth]
           \/ pc = "start") =>
             \A n \in Node : n.level > depth => status[n] = "absent"
       /\ pc \in {"persist", "allocate"} =>
             \A n \in Node :
                /\ n.level > depth + 1 => status[n] = "absent"
                /\ n.level = depth + 1 => status[n] \in {"absent", "pending"}

\* A completed node's discoveries are shared at once, and the current node's
\* parents are all completed.
ContextInv ==
    /\ \A n \in Node : status[n] = "completed" =>
          n \in shared \/ (pc \in {"discover", "raised"} /\ n = Here)
    /\ pc \in {"gate", "worktree", "invoke", "failed"} =>
          \A p \in Parents(Here) : status[p] = "completed" /\ p \in shared

\* A branch that exists only locally belongs to a node still at work.
BranchInv ==
    /\ \A n \in Node :
          status[n] = "completed" \/ (pc \in {"save", "complete"} /\ n = Here) => branch[n] # "local"
    /\ ReviewFollowsPush

\* The escalation record comes before the two rows.
RecordInv ==
    /\ FailureIsRecorded
    /\ pc \in {"escalateNode", "escalateRun"} => Here \in escalated

\* The threshold is reached between two nodes only where a child DAG begins.
LateInv ==
    /\ pc = "start" => used = 0
    /\ pc \in {"loop", "gate"} /\ ShouldPause(used) =>
          /\ depth > 0
          /\ \A n \in Node : n.level = depth => status[n] \in {"absent", "pending"}

-----------------------------------------------------------------------------
(* What the documents say and the code does not do.                        *)

\* P6.1f, P6.1g and executor.py:7: a malformed child DAG, the depth limit and
\* an exhausted budget escalate.  Raised by _spawn_child_dag they do not:
\* nobody catches them and the run stays RUNNING.
RunIsSettled ==
    pc \in {"returned", "raised"} => run \notin {"pending", "running"}

=============================================================================
