# A TLA+ model of agent_agent

agent_agent takes a GitHub issue and has a tree of agents resolve it: a Plan
node decomposes the work into composites, each of which is a Coding node and a
Review node, and a terminal Plan node may ask for another round, one nesting
level deeper.  One asyncio process runs everything; its state is in one SQLite
file.

This directory holds TLA+ modules that are read next to the code, the instances
TLC checks, and proofs for TLAPS.  Paths below are relative to
`src/agent_agent/` of the repository, P-numbers are the policies under
`docs/policies/`.

## 1. Inventory

| part | state it keeps | operations | hard behaviour |
|---|---|---|---|
| DAG executor (`dag/executor.py`) | the call stack: one loop per nesting level, current node, retry counters | `execute`, `_can_dispatch`, `_dispatch_node`, `_run_with_transient_retry`, `_dispatch_*`, `_spawn_child_dag`, `_escalate`, `_drain_and_flush` | decisions in outer frames on what inner frames left in the database; many small commits; exceptions that leave the recursion |
| DAG construction and sort (`dag/engine.py`, `agents/plan.py`) | none | `build_stub_dag`, `build_l0_dag`, `topological_sort`, `validate_child_dag_spec` | edges written by an agent: cycles, repetitions, parents outside the DAG |
| Budget manager (`budget.py`) | allocations, usage, undrained events | `allocate`, `allocate_child`, `record_usage`, `should_pause`, `shared_context_cap`, `record_pause`, `drain_events` | two copies of the truth (memory, database), and a third it never sees (what the SDK charges); a child DAG laid out with nothing left |
| Coding composite (`agents/coding.py`) | persisted sub-agent outputs, git branches, `dag_nodes.branch_name` | up to three cycles of Programmer, Tester, Debugger; resume; push on exit | resuming in a new attempt on a new branch; failures inside `finally` |
| Review composite (`agents/review.py`, `agents/policy_review.py`) | worktree, two running agents | run both, merge the verdicts | real concurrency; the survivor of a failed gather |
| Worktree manager (`worktree.py`) | git worktrees | create, remove | removal may fail, and a branch can be checked out once |
| State store (`state.py`) | runs, nodes, results, shared context, budget events, escalations | one commit per call | what is visible between two commits |
| Orchestrator (`orchestrator.py`) | run id, server, results | `run`, `_start_server`, `_extract_results`, `_create_pr` | exceptions and crashes at any await; a server task nobody awaits; which branch is published |
| Status server, CLI (`server.py`, `cli.py`) | the injected store | `get_dag_status`, `run`, `status` | two reads, one writer; a port tested and bound later; a store closed under a request |
| Context provider, shared context (`context/`) | discoveries, in memory and in the database | `build_context`, `append_discoveries` | silently missing parents, truncation, a view the prompt leaves out |
| SDK wrapper (`agents/base.py`) | none | `invoke_agent`, `compute_sdk_backstop`, `serialize_node_context` | classification of failures; a limit per session computed from a share per node |
| tools, prompts, config, observability, GitHub client, scripts | none of interest | | |

How they interact: the orchestrator creates the run's rows, calls `execute()`
and reads the rows back; the executor calls the composites, which call the SDK
wrapper; executor and composites write the state store; the status server reads
it at any moment.  There is one writer task, except inside a Review node.

What makes the parts correct, in short: nothing runs before what it needs or
after a halt; a run that is said to be complete is; what the database says is
never ahead of what has been stored; every failure ends in a state someone can
see; retries repeat nothing that is done; money recorded is money accounted for,
and money that is not recorded is bounded; a client is never told something that
is later taken back.

The hazards, each at its line with the properties that look for it, are listed
in `PROJECT.json`.

## 2. Modules

| module | models | extends or uses |
|---|---|---|
| `Executor` | the executor with its budget and its rows | `DagRun` (as `Lifecycle`), `CodingNode` (as `Contract`) |
| `DagRun` | abstract: what a run's rows promise to a reader | |
| `CodingNode` | abstract: what the executor and a Coding composite expect of each other | |
| `Dispatch` | the invocation of a node, opened: context, SDK sessions, charges, discoveries | `NodeBudget`, `SharedContext` |
| `NodeBudget` | shares, backstops, what is charged | |
| `SharedContext` | discoveries, the truncated view, the prompt | |
| `CodingComposite` | one Coding node over all its attempts | `CodingNode` (as `Contract`) |
| `ReviewComposite` | one Review node over all its attempts | |
| `TopoSort`, `ChildDag` | `topological_sort`; from a `ChildDAGSpec` to rows and their order | |
| `StatusServer` | polling clients of any `DagRun` | `DagRun` |
| `Orchestrator` | the life of one process, with its server and its clients | `StatusServer` |
| `MCExecutor`, `MCDispatch`, `MCOrchestrator` | instances for TLC | |
| `ExecutorProofs`, `ExecutorOrderProofs`, `DispatchProofs`, `StatusServerProofs`, `OrchestratorProofs`, `CodingProofs`, `ReviewProofs`, `ChildDagProofs` | theorems | the module of the name |

They hang together like this.  `Executor` is the centre.  It treats an agent's
work as one step with any outcome: `CodingComposite` and `ReviewComposite` say
what can happen inside that step and what it leaves in the rows, `Dispatch` what
it is given, what it costs and what it leaves to later nodes.  `CodingNode` is
that for a Coding node as a contract, which both sides implement: `Executor`
makes no other calls and writes than the composite is written for, and
`CodingComposite` comes to no end that the executor's step does not have.  A
Review leaves nothing in the rows that the executor has not written itself, so
there is no such module for it.  `Executor` takes any
linear extension of the parents for the order of a loop and describes a child
DAG by `valid`, `dup` and `Cyclic`: `TopoSort` and `ChildDag` show that the
sort computes such an order and that those three are all that matters.  Upwards,
`Executor` implements `DagRun`, of which `StatusServer` reads the rows, and
`Orchestrator` takes the steps of `DagRun` while a process starts, runs, is
killed or ends, and implements `StatusServer` in turn.

### Executor

`pc` is the point of the code the running frame is at, `depth` its nesting
level; `todo` and `cur` are the rest of the loop and the current node of each
frame on the stack.  `Return` is the one place where a frame is left: in the top
frame `execute()` returns, in a child frame the parent's loop continues with its
drain, because `_dispatch_node` returns True after `_spawn_child_dag` whatever
happened in it.  Each commit is a step.  A drain commits its events one by one;
that is a single step here, since only their sum is looked at.

| action | code |
|---|---|
| `Start` | `execute` up to RUNNING |
| `NextNode`, `LoopEnd`, `Finish` | the loop, its `break`, what follows it |
| `GateBlocked`, `GateFail` | `_can_dispatch` false: node, then run, FAILED |
| `Dispatch`, `CreateWorktree` | node RUNNING; `_dispatch_coding`'s worktree and branch |
| `TransientFailure`, `InvocationFails`, `InvocationSucceeds` | one attempt of `_run_with_transient_retry`, with the push a Coding composite makes on its way out |
| `SaveResult`, `Complete`, `Discover` | the success path of `_dispatch_node`, commit by commit |
| `Rerun`, `Escalate`, `EscalateNode`, `EscalateRun` | its failure path |
| `Spawn`, `Persist`, `PersistDuplicate`, `EnterChild` | `_spawn_child_dag` up to its loop |
| `Drain`, `Increment`, `CheckPause`, `Pause` | `_drain_and_flush` and the pause check |

An exception of `_spawn_child_dag` (or of `record_usage`) is `pc = "raised"`:
nothing in the executor catches it.

USD is an integer; `Total = 20` makes the 5 % threshold one unit.  A node is its
level, kind and composite: `_build_child_dag_nodes` makes ids of just these, and
at most one Plan per level asks for children, so a level is laid out once.
`branch` tells apart what the Review gate does not: a branch that exists only
locally, one that was pushed, and a name taken from an agent's report.
`ReviewFollowsPush` is about the first of these: no Review runs while the branch
of its row is one whose push is still to come or has failed.  Whether a reported
name is the pushed branch is a question for `CodingComposite`, and the answer is
no (`BranchIsPushed`, section 4).

### DagRun and StatusServer

`DagRun` has the rows only.  Its steps are those a reader may see; its one
surprise is that a halted run may be written PAUSED, which the code does (an
outer frame's pause check overwrites the status of an inner one).  It has no
liveness because the executor can raise and leave the run RUNNING.
`StatusServer` puts a client next to it that asks again and again; each answer
takes two reads, and a request may be lost between them.

### Dispatch, NodeBudget and SharedContext

`Dispatch` is the invocation that `Executor` takes as one step, for one node
after the other.  The rows of the nodes, the gate and the frames below a Plan are
left to `Executor`: nothing is left to run in a frame whose Plan has spawned, so a
run is a row of frames, one Plan node first and then, per frame, n Coding nodes,
n Review nodes and a Plan.

| action | code |
|---|---|
| `NextNode`, `AfterNode` | the loop and its pause check |
| `BuildContext`, `TakeRecord`, `ContextReady` | `build_context` and the loop of `_build_shared_view` |
| `SessionAnswers`, `SessionFails` | one `invoke_agent`, with `Category` for its `except` clauses and checks |
| `WorktreeFails` | the exceptions around a composite that nobody classifies |
| `Rerun`, `Escalate` | the failure path of `_dispatch_node` |
| `Succeed`, `RecordUsageRaises` | `record_usage` |
| `AppendDiscovery`, `CommitDiscovery` | `append_discoveries`, memory and then database |
| `Spawn`, `SpawnRaises` | `_spawn_child_dag` with `allocate_child` |

`paid` and `spent` are what the sessions of the node, and of the run, have
really charged.  No variable of the code holds them.  A session may charge
anything up to its backstop and, as the SDK looks at the limit after a turn,
that turn's price beyond it (`Overshoot`).  A Coding node resumes: `done` survives
a failed attempt.  A Review starts again, and the agent it abandons goes on
charging.

A discovery is its category and its size.  A record adds the node and position
it comes from, which decide its place in the sort: all discoveries of a node have
one timestamp and the sort is stable.

### TopoSort and ChildDag

`TopoSort` has the steps of Kahn's algorithm on parent lists with repetitions
and with foreign parents; it has no initial state of its own.  `ChildDag` starts
from any `ChildDAGSpec`, validates it, builds and INSERTs the nodes and runs the
sort on them.

### CodingComposite

`attempt` is both the number of the executor's attempt and the branch made for
it; `code` and `test` are the persisted outputs, `work` the commits on each
branch, `dbBranch` the row's branch_name.  `WorktreeFails` is an attempt that ends
before it has a branch; `SubAgentFails` may strike at any sub-agent, with or
without commits made; `Push` and `Cleanup` may fail.  Whether a failed attempt is
retried is left open.

The records and the commits are kept apart, and so are the properties.
`OutputMatchesVerdict` compares records: the output returned is the Programmer's
of the cycle judged last.  That the Tester had this code before it is what
`WorkIsVisible` asks, and it is false: a resumed Tester may pass judgement on a
worktree without the commit, and the node completes all the same.  In the same way
`FailedPushBlocksReview` is about the attempt that completed the node, and
`BranchIsPushed` about the name it leaves.

### ReviewComposite

Agents belong to an attempt and go on after it.  `CreateWorktree` models git's
refusal to check a branch out twice; this part of git is external to the
repository and modelled from the use the code makes of it.

### Orchestrator

One start of `agent-agent run`.  `Execute` takes the steps of `DagRun` that
`Executor` can take, row by row: a level is laid out once its Plan has completed
(`NextRow` is the order of the INSERTs), starts when it is all there, and the gate
fails the Review of a row without a branch.  A Coding node that succeeds `Leaves`
an output with a name, with an empty name, or with None for want of a push:
`_extract_results` passes over the second and cannot read the third.  With
composites the row keeps its branch in the second case and loses it in the third;
without them (`UseComposites` FALSE, the stub DAG of `cli.py`) the row has only
what the output says.  Which branch a name is of is left to `CodingComposite`.
`ExecuteRaises` is the
exception of `_spawn_child_dag` or `record_usage`.  Around it, `StartServer` makes
the task that binds the port later (`Bind`, or `PortConflict`, which ends the
process), `Shutdown` only asks it to stop (`ServerEnds` is when it has), and
`CloseStore` comes whether it has or not.  `Crash` may come at any await.

The client asks over HTTP, or with `agent-agent status` from a process of its
own, also after the other is gone.  A request in flight when the process ends is
dropped; one that finds the store closed is refused.  What uvicorn does is
external and modelled from its use.

## 3. Runs

Every run checks deadlock; each module has an explicit step for having ended.

| run | instance | states | what it shows |
|---|---|---|---|
| `executor_wide` | two composites, two levels, two transient attempts in each of two reruns; parallel, ordered, cyclic, invalid and duplicate specs | 235 000 | consistency of rows, order, gate, budget; `Executor` implements `DagRun`; it ends |
| `child_dag` | up to four composites with two names, edges up to twice | 26 000 | the sort is right; the order is the one asked for; where bad specs are found |
| `coding` | three attempts of two cycles, agents report wrong branches | 1 430 000 | resuming; the output returned is the one the last verdict is on; the gate after a failed push; the contract with the executor; the node ends |
| `review` | three attempts | 12 000 | verdicts, worktrees, what a stuck worktree does |
| `dispatch` | L0 and one child DAG of one composite; two attempts, two cycles | 1 500 000 | what is charged unseen; what is dropped from a view; discoveries survive |
| `orchestrator` | L0 and two levels of one composite, which may name no branch or fail to push it | 428 000 | answers are coherent through crashes, refusals and restarts; what is published |

Bounds.  Two composites are the least with which order, parallel branches,
cycles and duplicates exist.  Two levels of children are enough for what happens
between parent and child frames and between siblings above and below them, and
the nesting cap is met at the second.  `MaxTransientAttempts = 2` has one attempt
that is retried and one that is the last, in the first run of a node and in its
rerun, so `Termination` covers the nesting of the two loops; costs are chosen so
that a node can stay under, reach or overshoot the threshold, alone or with
another.  The executor makes at most six attempts at a node; three are enough for
an attempt that resumes from one that itself resumed, and a third review attempt
is the first that can meet two survivors.  Two cycles are one that has a Debugger
and the last, which has none; the code's third is like the first
(`coding_work_visible` has three).  A child DAG of two composites has five nodes:
a cycle, nodes outside it and a foreign parent can coexist.  In `dispatch` the
charges let a frame be funded, underfunded and unfunded, and a child node's view
has room for three units of two kinds of records, so that one is dropped and an
older one still taken.  In `orchestrator` the second of two levels can leave its
name empty, so that the last branch is of the first and the last summary of the
second; the order of composites within a level, and the stub DAG, are covered by
the theorems, which hold for any widths and either value of `UseComposites`.
`MaxComposites`
is 7 and `MaxLevel` 4 in the code.  All state spaces are finite without state
constraints; only constants bound them.

Fairness.  `Spec` of Executor and of CodingComposite assume weak fairness of the
whole next-state relation: one task runs them, and every await ends because SDK
sessions are bounded by `max_turns`, git and SQLite calls return.
ReviewComposite assumes it of the node's task and of each agent, which asyncio
schedules independently.  Nothing is assumed of which outcome a step has.
`Dispatch`, `StatusServer` and `Orchestrator` have safety properties only and
state no fairness.

Each passing property is shown to depend on the code by a mutant next to the
definition it changes: the same module with that definition replaced violates
the property.

## 4. Where code and documents disagree

Six runs have one property each that restates a line of a document or comment
and that TLC violates; `PROJECT.json` quotes the lines.

- `run_settled` (`dag/executor.py:606`): an exception of `_spawn_child_dag`
  leaves `execute()` with the run RUNNING and nothing escalated.
- `coding_work_visible` (`agents/coding.py:127`): a resumed Tester or Debugger
  works in a worktree without the code it is given.
- `branch_pushed` (`agents/coding.py:209`): an attempt that finds every cycle done
  skips the loop, and with it both places that put the worktree's branch into the
  output (:251, :277).  It pushes its own branch and returns the name an earlier
  attempt reported; if that attempt's push failed, the row, the Review and the pull
  request get a branch that was never on the remote.  The docstring (:166) has
  branch_name be the worktree's after a successful push.  (A claim of tests_passed
  spared at :277 does the same in an attempt that runs its last cycle.)
- `review_worktree` (`agents/review.py:81`): an agent works on after its
  worktree has been removed.
- `results_read` (`orchestrator.py:310`): a stored output without a branch_name
  cannot be read back, and `run()` raises although `execute()` has returned.
- `view_in_prompt` (`agents/base.py:132`): a view of constraints, design
  decisions and negative findings alone never reaches the agent.

The models show the following as well.  They are behaviours of the actions as
translated, and no run is spent on them.

- P7.6 has a paused run "frozen at a clean node boundary" and escalated to a
  human.  `execute` (`dag/executor.py:218`) creates no escalation record, and an
  outer frame's pause check writes PAUSED over ESCALATED (:221).
- `dag/executor.py:11-14` dispatches nothing once the threshold is reached.  It
  is not looked at between a Plan and the first node of its child DAG (:320);
  `LateDispatch` says that it is never more than that node.
- `budget.py:67` raises when the per-node share is too small, but with nothing
  left `allocate_child` returns first (:72).  The children run without an
  allocation, and `record_usage` raises for the first that costs something.
- P1.10 has four levels, L0 to L3; the test `child_level > 4`
  (`dag/executor.py:611`) lets a fifth, L4, be persisted.
- P10.8 reclassifies an exhausted transient failure as Deterministic;
  `dag/executor.py:424` returns AGENT_ERROR, which has a rerun left.
- `orchestrator.py:314` passes over an output whose branch_name is empty, and :321
  takes the last summary all the same: the pull request of a COMPLETED run can have
  the branch of one composite and the summary of another.
  `CompletedResultsMatch` says when.
- `agents/coding.py:276`: exhausted cycles set tests_passed to False.  An output
  that claims success is spared; and where P10.5 has the composite fail, it
  returns and the node is COMPLETED.
- P10.5: sub-agents that have completed are not executed again.  A retried
  Review runs both of its agents (`agents/review.py:79`), and what the dropped
  answer has cost is never charged (P7.7).
- `docs/policies/12-worker-management.md:30`: pull requests are opened after
  successful execution.  `run()` opens one whenever some node left a branch
  (`orchestrator.py:218`), reviewed or not.
- `agents/base.py:69` calls `record_usage` the real enforcement.  What a failed
  attempt charges is never recorded (`dag/executor.py:442`), and each session of a
  Coding node is limited as if the node's share were its own (:64): a node may
  spend `Sessions(kind)` times its limit (`NodeSpendIsBounded`).
- `docs/architecture/implementation-plan.md:197` gives the backstop as twice the total budget;
  `compute_sdk_backstop` takes twice the node's share, or 2.5 % of the total more.
- `docs/architecture/policy-reviewer-decisions.md:31` puts the worst case of a
  Review at twice its allocation.  Each of its two backstops may be twice the
  allocation, and each of six attempts opens both.
- `budget.py:112`: P7's cap of a quarter of a node's budget becomes a quarter of
  the run's for a node without an allocation.  `usd_per_byte` is 0 unless it is
  set, and the cap then not enforced at all (`context/provider.py:106`).
- `cli.py:4` has a port conflict end with a clear error.  `_check_port` (:90) tests
  the port and releases it; if it is taken before the server's task binds it,
  uvicorn exits from that task and the process ends inside `execute()`, the run
  PENDING or RUNNING for ever.
- `server.py:7`: the server lives as long as the run.  `run()` does not wait for it
  to stop (`orchestrator.py:212`), the store is closed (`cli.py:131`), and a late
  request is answered 500; `RefusedIsFinal` says that it has missed nothing that
  `agent-agent status` does not show.
- The server reads through the connection the executor writes with.  It can see an
  UPDATE before its commit, and a crash between the two takes back what a client
  has been told.  The models commit in the step that writes, so
  `PollsMoveForward` does not cover that moment.
- P1.8: a restarted orchestrator resumes from the last completed node.  Every
  `run()` is a new run with new ids (`orchestrator.py:130`).

## 5. Proofs

Each theorem holds for every value of the constants its module's assumptions
allow: any composites, levels, caps, costs and specs (a spec has finitely many
composites), any list of discoveries, any set of nodes.  The listed ones:

| module | theorems |
|---|---|
| `ExecutorProofs` | `TypeCorrect`, `ResultsAreDurable`, `HaltedRunIsQuiet`, `UsageIsFlushed`, `CompletedRunIsDone` |
| `ExecutorOrderProofs` | `OrderHolds`, `ContextIsComplete`, `ReviewsFollowPush`, `FailuresAreRecorded`, `ReturnSettles`, `LateDispatchIsFirst`, `Implementation`, `ContractsAreKept` |
| `DispatchProofs` | `TypeCorrect`, `DiscoveriesDurable`, `NewestRecordsWin`, `NodeSpendBounded`, `RealSpendBounded` |
| `StatusServerProofs` | `CompletedAnswers`, `HaltAnswers`, `PollsGoForward`, `ServerTyped` |
| `OrchestratorProofs` | `Serves`, `OrchestratorCompletedAnswers`, `OrchestratorHaltAnswers`, `RefusalsAreFinal`, `OrchestratorTyped`, `ResultsMatch` |
| `CodingProofs` | `CodingTypes`, `RowsStayPrefix`, `NothingIsRepeated`, `InputsStayFresh`, `FailedPushBlocks`, `OutputsMatchVerdicts`, `ContractIsKept`, `CodingRunsDown` |
| `ReviewProofs` | `ReviewTypes`, `VerdictsAreOfBoth`, `WorktreesAreSingle`, `StuckStaysStuck`, `ReviewRunsDown` |
| `ChildDagProofs` | `SortExtends`, `SortFailsIffCyclic`, `OrderIsStandard`, `RowsInvHolds`, `ChildTyped`, `OrderOfTheRows`, `DuplicatesAreLate` |

None of the properties is inductive.  What they are strengthened with:

`ExecutorProofs`: the conjuncts of `IInv` in `Executor`, on top of the types.

- `SpawnDepth`: only a frame above the deepest level spawns, so that a child
  frame's level exists.
- `ResultFirst`: at `pc = "complete"` the result is already stored.
- `QuietInv`: once the run is halted the executor is only in the parts that
  leave frames.  This is what re-reading the status before each node achieves.
- `FlushInv`: where usage can be waiting: in a child frame anywhere (the parent
  Plan's own cost waits for the child to end), in the top frame only between
  `record_usage` and the drain.  At `return` nothing waits.
- `Coverage`: while the run is RUNNING every persisted node is COMPLETED or
  still `Outstanding`, that is in the loop of some frame, at hand, or just being
  laid out.  At the end of the top loop nothing is outstanding.

`ExecutorOrderProofs`: the call stack.  `StackInv` says that every frame but the
last waits at its Plan and that loops hold PENDING nodes, `FreshInv` that a level
does not exist before its Plan spawns it, `SpecInv` that edges join composites of
one level.  From these `ContextInv` follows (the parents of the node at hand are
done and their discoveries shared), and `BranchInv`, `RecordInv` and `LateInv`
step by step.  `Implementation` then needs no more than the invariants: each
action is a step of `DagRun` or changes no row it knows.  It is the theorem the
rest of the tree hangs on, since everything below is about any `DagRun`.
`ContractsAreKept` has one step of `CodingNode` for each action on the Coding
node at hand and a stutter for every other node; that an action touches no row
but the one at hand is what the stack invariants give.

`StatusServerProofs`: what the run's rows say of each other (`RunInv`), what the
row in hand says of the rows now (`FirstInv`), and what the last answer does
(`AnswerInv`); a status only `Leads` to a later one.

`OrchestratorProofs`: `Serves` is a refinement without a mapping, as the
variables of `StatusServer` are those of `Orchestrator`: whatever the process
does is a step of a run, a step of a client, or neither.  The two corollaries
cite the theorems of `StatusServerProofs`.  `RefusalsAreFinal` needs that the
store is closed only after `execute()`.  `ResultsMatch` needs that a level is
there as a whole before any of it is at work (`LevelsInv`), and that results are
extracted only with no branch unpushed and are the last summary and the last branch
with a name in the order the rows are read in (`ResultsInv`); there is a last one
because a finite set that is not empty has a greatest element.

`DispatchProofs`: `MemoryInv` (memory and table differ at most in the record being
committed) for the discoveries.  `PaidInv` counts the sessions opened by the
attempts that have failed: a Coding node has opened one per failure and one per
answer, which is where resuming matters.  `SpentInv` is a potential: what has been
spent, and what the nodes left in the frame can still spend, is within the bounds
of the frames entered so far.  A child DAG's share is what remains of the
recorded budget, at most `Total`, divided among its nodes, so a frame's bound does
not depend on what was spent unseen before it.  `ViewInv` is the state of the loop
over the sorted records: what has been looked at is newer than what has not, and
whatever was dropped had no room.  The sizes are sums over sets, by a recursive
function; that a sum takes in its elements in any order follows from a
smallest set for which it does not.

`CodingProofs`: `RowsArePrefix` is preserved only because the loop stands where
the rows end (`Position`) with the last of them in hand (`InHand`); a resumed
attempt gets there again because `ResumeCycle`, a CHOOSE, is the first cycle that
is not closed.  That there is one is the least element of a set of naturals
(`Least`, from the library's well-foundedness of `<`), so no induction is needed.
`PushInv` carries a failed push through cleanup and the executor's COALESCE.
`TestedInv` tags each persisted output with its cycle and role, and says that
every cycle before the loop's has failed tests, so that an attempt which resumes
past the last cycle still returns the output the last verdict is on.  It says
nothing of the commits: those are in `git`, which `WorkIsVisible` looks at.
`ContractIsKept` adds `RemoteInv`: the branch in the row is this attempt's until
a push of it fails, and new to the remote until then.  It holds with pushing
disabled as well, where `_push_branch` returns True without a push; "pushed" in
`CodingNode` and in `Executor` means no more than that, and what is then on the
remote is left to `FailedPushBlocks`, whose statement has `PushEnabled`.

`ReviewProofs`: while an attempt runs, its own worktree is the one that is there
(`WorktreeInv`), so removing it leaves none; a verdict in hand is the merge of
what both agents of this attempt found (`ResultInv`), and no later step of an
agent, of this attempt or of an older one, changes a finding.

`CodingRunsDown` and `ReviewRunsDown` are the safety half of liveness: a number
that every step lowers, weighted by the attempts that are left.  It is what bounds
the number of steps; that the next step is taken is fairness and stays with TLC.
`StuckStaysStuck` is the safety half of `StuckWorktreeIsFatal`.

`ChildDagProofs`: `KahnInv` says of the sort, for any graph, that each in-degree
counts the occurrences of parents still to be sorted and that the queue holds the
nodes with none left.  When the queue runs dry either all nodes are sorted or those
left wait for one another; `WhoWaits` translates that into the composites of the
spec, and `OrderIsAcyclic` excludes a cycle in a complete order by its first
member.  `RowsInv` says that the rows persisted are the first of those built.
What is built is a concatenation defined by recursion (`FlattenSeq`): the proof
writes down the sequence it should be, and the first place at which the two differ
contradicts the recursion.

Only model-checked: liveness, which the prover does not reach: `Termination`,
`CodingEnds`, `StuckWorktreeIsFatal`.  `ImplementsContracts` is the other way
round, proved and in no run: TLC takes no specification under a quantifier over
nodes as a property.  `TypeOK` of `CodingComposite` (`CodingTypes`) is proved and
in no run either.  The six properties of section 4 are false.

## 6. Not modelled

Tool permissions, prompts, configuration, observability, the GitHub client and
the fixture scripts hold no state or only talk to the outside.  Of the modelled
parts: failing SQLite writes other than a duplicate primary key, the moment
between a statement and its commit, conflict detection among discoveries (it only
logs), how JSON is found in an agent's text, names and paths of worktrees, the
checks of `agent-agent run` before it starts.  Without composites `Executor` has
agent functions that ask for no child DAG, although `dag/executor.py:319` would spawn
one for them too (its `ConstantsAssumption`).

## 7. Plan

What is left:

1. A measure for `Executor` like those of the two composites, the safety half of
   `Termination`.
2. A step between statement and commit for the connection the server shares with
   the executor.
