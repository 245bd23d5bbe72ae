------------------------------ MODULE Dispatch ------------------------------
(***************************************************************************)
(* What Executor takes as one step: the invocation of a node, with the     *)
(* context it is given, the SDK sessions its composite opens, what they    *)
(* charge and how their failures are classified, and with the discoveries  *)
(* it leaves for the nodes after it.                                       *)
(*                                                                         *)
(* Nodes run one after the other, and nothing is left to run in a frame    *)
(* whose Plan node has spawned a child DAG (Executor): a run is a row of   *)
(* frames, of one Plan node first and then of n Coding nodes, n Review     *)
(* nodes and a Plan node.  The gate and the rows of the nodes are left to  *)
(* Executor, what passes between the sessions of a node to the composites. *)
(***************************************************************************)
EXTENDS NodeBudget, SharedContext

CONSTANTS
    MaxTransientAttempts,   \* attempts per invocation (3 in the code)
    MaxReruns,              \* re-invocations per node (1 in the code)
    MaxCycles,              \* of a Coding composite (3 in the code)
    MaxLevel,               \* deepest level of a child DAG (4 in the code)
    MaxComposites           \* of a child DAG (7 in the code)

ASSUME DispatchAssumption ==
    /\ MaxTransientAttempts \in Nat \ {0}
    /\ MaxReruns \in Nat
    /\ MaxCycles \in Nat \ {0}
    /\ MaxLevel \in Nat
    /\ MaxComposites \in Nat \ {0}

VARIABLES
    pc,
    turn,       \* number of the running node
    kind,       \* its type
    rest,       \* [coding, review]: what the frame has left before its Plan
    level,      \* of the frame
    done,       \* sessions of the composite that have answered
    over,       \* the composite needs no further session
    cost,       \* total cost of this attempt
    tries,      \* attempts of the invocation that failed transiently
    reruns,     \* reruns_used
    failure,    \* category of the failure being handled
    found,      \* discoveries of the node's output
    at          \* the one append_discoveries is at

place == <<turn, kind, rest, level>>
sessions == <<done, over, cost>>
retries == <<tries, reruns, failure>>
output == <<found, at>>
vars == <<pc, place, sessions, retries, output, money, context>>

Nothing == [coding |-> 0, review |-> 0]

Init ==
    /\ pc = "build"
    /\ turn = 1 /\ kind = "plan" /\ rest = Nothing /\ level = 0
    /\ done = 0 /\ over = FALSE /\ cost = 0
    /\ tries = 0 /\ reruns = 0 /\ failure = "none"
    /\ found = <<>> /\ at = 1
    /\ BudgetInit
    /\ ContextInit

-----------------------------------------------------------------------------
\* The loop of the frame comes to its next node.
NextNode ==
    /\ pc = "next"
    /\ \/ rest.coding > 0 /\ kind' = "coding" /\ rest' = [rest EXCEPT !.coding = @ - 1]
       \/ rest.review > rest.coding /\ kind' = "review" /\ rest' = [rest EXCEPT !.review = @ - 1]
       \/ rest = Nothing /\ kind' = "plan" /\ UNCHANGED rest
    /\ turn' = turn + 1
    /\ done' = 0 /\ over' = FALSE /\ cost' = 0
    /\ tries' = 0 /\ reruns' = 0
    /\ paid' = 0
    /\ pc' = "build"
    /\ UNCHANGED <<level, failure, output, share, funded, used, spent, context>>

\* build_context, once per invocation: transient attempts share it.
BuildContext ==
    /\ pc = "build"
    /\ StartView
    /\ pc' = "view"
    /\ UNCHANGED <<place, sessions, retries, output, money>>

TakeRecord ==
    /\ pc = "view"
    /\ TakeNext(SharedContextCap)
    /\ UNCHANGED <<pc, place, sessions, retries, output, money>>

ContextReady ==
    /\ pc = "view"
    /\ unseen = {}
    /\ pc' = "invoke"
    /\ UNCHANGED <<place, sessions, retries, output, money, context>>

-----------------------------------------------------------------------------
(* invoke_agent.                                                           *)

\* Sessions of a Coding node that goes through all its cycles: the last has no
\* Debugger.
MaxCalls == 3 * MaxCycles - 1

\* The n-th answer is the composite's last: a Review needs both of its agents,
\* a Coding composite may end with its Tester's.
Last(n) ==
    CASE kind = "plan"   -> {TRUE}
      [] kind = "review" -> {n = 2}
      [] kind = "coding" -> IF n = MaxCalls THEN {TRUE}
                            ELSE IF n % 3 = 2 THEN BOOLEAN ELSE {FALSE}

SessionAnswers ==
    /\ pc = "invoke" /\ ~over
    /\ done' = done + 1
    /\ over' \in Last(done')
    /\ \E usd \in Bill(1) : Charge(usd) /\ cost' = cost + usd
    /\ UNCHANGED <<pc, place, retries, output, context>>

\* How a session can fail, and the category invoke_agent makes of it.
Category == [
    CLIConnectionError   |-> "deterministic",
    ProcessError         |-> "transient",
    ProcessErrorAuth     |-> "deterministic",
    CLIJSONDecodeError   |-> "unknown",
    no_messages          |-> "agent_error",
    error_max_budget_usd |-> "resource_exhaustion",
    error_subtype        |-> "agent_error",
    no_output            |-> "resource_exhaustion",
    not_json             |-> "agent_error",
    ValidationError      |-> "agent_error"]

\* Mutants of Fails: an attempt too many; a Coding node that starts again.
FailsOnceMore(category) ==
    /\ IF category = "transient" /\ tries < MaxTransientAttempts
       THEN tries' = tries + 1 /\ UNCHANGED <<pc, failure>>
       ELSE /\ pc' = "failed"
            /\ failure' = IF category = "transient" THEN "agent_error" ELSE category
            /\ UNCHANGED tries
    /\ cost' = 0
    /\ IF kind = "coding" THEN UNCHANGED <<done, over>> ELSE done' = 0 /\ over' = FALSE
FailsForgetting(category) ==
    /\ IF category = "transient" /\ tries + 1 < MaxTransientAttempts
       THEN tries' = tries + 1 /\ UNCHANGED <<pc, failure>>
       ELSE /\ pc' = "failed"
            /\ failure' = IF category = "transient" THEN "agent_error" ELSE category
            /\ UNCHANGED tries
    /\ cost' = 0
    /\ done' = 0 /\ over' = FALSE

\* The executor takes a failure that is not transient, or the last transient
\* one, out of the invocation; a new attempt at a Coding node resumes.
Fails(category) ==
    /\ IF category = "transient" /\ tries + 1 < MaxTransientAttempts
       THEN tries' = tries + 1 /\ UNCHANGED <<pc, failure>>
       ELSE /\ pc' = "failed"
            /\ failure' = IF category = "transient" THEN "agent_error" ELSE category
            /\ UNCHANGED tries
    /\ cost' = 0
    /\ IF kind = "coding" THEN UNCHANGED <<done, over>> ELSE done' = 0 /\ over' = FALSE

\* A failed session has charged all the same, and so does the other agent of a
\* Review, which nobody waits for any more.
Abandoned == IF kind = "review" THEN 2 - done ELSE 1

SessionFails ==
    /\ pc = "invoke" /\ ~over
    /\ \E e \in DOMAIN Category, usd \in Bill(Abandoned) :
          /\ e = "error_max_budget_usd" => usd >= Backstop
          /\ Charge(usd)
          /\ Fails(Category[e])
    /\ UNCHANGED <<place, reruns, output, context>>

\* Making, checking and removing the worktree can fail, also when all sessions
\* have answered.  Nobody classifies these exceptions.
WorktreeFails ==
    /\ pc = "invoke"
    /\ kind # "plan"
    /\ Fails("unknown")
    /\ UNCHANGED <<place, reruns, output, money, context>>

Rerun ==
    /\ pc = "failed"
    /\ failure \in {"agent_error", "unknown"}
    /\ reruns < MaxReruns
    /\ reruns' = reruns + 1
    /\ tries' = 0
    /\ failure' = "none"
    /\ pc' = "build"
    /\ UNCHANGED <<place, sessions, output, money, context>>

Escalate ==
    /\ pc = "failed"
    /\ failure \notin {"agent_error", "unknown"} \/ reruns >= MaxReruns
    /\ pc' = "ended"
    /\ UNCHANGED <<place, sessions, retries, output, money, context>>

-----------------------------------------------------------------------------
(* The success path of _dispatch_node.                                     *)

Succeed ==
    /\ pc = "invoke" /\ over
    /\ \E o \in Outputs : found' = o
    /\ at' = 1
    /\ RecordUsage(cost)
    /\ pc' = "append"
    /\ UNCHANGED <<place, sessions, retries, context>>

\* record_usage: KeyError for a node that was never allocated.
RecordUsageRaises ==
    /\ pc = "invoke" /\ over
    /\ ~funded /\ cost > 0
    /\ pc' = "raised"
    /\ UNCHANGED <<place, sessions, retries, output, money, context>>

AppendDiscovery ==
    /\ pc = "append" /\ at <= Len(found)
    /\ Remember(Record(turn, at, found[at]))
    /\ pc' = "commit"
    /\ UNCHANGED <<place, sessions, retries, output, money>>

CommitDiscovery ==
    /\ pc = "commit"
    /\ Commit(Record(turn, at, found[at]))
    /\ at' = at + 1
    /\ pc' = "append"
    /\ UNCHANGED <<place, sessions, retries, found, money>>

Appended == pc = "append" /\ at > Len(found)

\* _spawn_child_dag with n composites: its loop begins before the pause check.
Spawn(n) ==
    /\ Appended /\ kind = "plan"
    /\ level < MaxLevel
    /\ AllocateChild(2 * n + 1)
    /\ level' = level + 1
    /\ rest' = [coding |-> n, review |-> n]
    /\ pc' = "next"
    /\ UNCHANGED <<turn, kind, sessions, retries, output, context>>

SpawnRaises(n) ==
    /\ Appended /\ kind = "plan"
    /\ level >= MaxLevel \/ TooSmall(2 * n + 1)
    /\ pc' = "raised"
    /\ UNCHANGED <<place, sessions, retries, output, money, context>>

\* The pause check; with the frame's Plan, which spawns nothing, all loops end.
AfterNode ==
    /\ Appended
    /\ pc' = IF kind = "plan" \/ ShouldPause THEN "ended" ELSE "next"
    /\ UNCHANGED <<place, sessions, retries, output, money, context>>

Ended == pc \in {"ended", "raised"} /\ UNCHANGED vars

Next ==
    \/ NextNode \/ BuildContext \/ TakeRecord \/ ContextReady
    \/ SessionAnswers \/ SessionFails \/ WorktreeFails \/ Rerun \/ Escalate
    \/ Succeed \/ RecordUsageRaises \/ AppendDiscovery \/ CommitDiscovery
    \/ \E n \in 1 .. MaxComposites : Spawn(n) \/ SpawnRaises(n)
    \/ AfterNode \/ Ended

Spec == Init /\ [][Next]_vars

-----------------------------------------------------------------------------
(* Properties.                                                             *)

TypeOK ==
    /\ pc \in {"next", "build", "view", "invoke", "failed", "append", "commit",
               "ended", "raised"}
    /\ turn \in Nat \ {0}
    /\ kind \in {"plan", "coding", "review"}
    /\ rest \in [coding : 0 .. MaxComposites, review : 0 .. MaxComposites]
    /\ rest.coding <= rest.review
    /\ level \in 0 .. MaxLevel
    /\ done \in 0 .. MaxCalls
    /\ over \in BOOLEAN
    /\ cost \in Nat
    /\ tries \in 0 .. MaxTransientAttempts - 1
    /\ reruns \in 0 .. MaxReruns
    /\ failure \in {"none", "agent_error", "unknown", "deterministic", "resource_exhaustion"}
    /\ found \in Seq(Discovery)
    /\ at \in Nat \ {0}
    /\ share \in Nat /\ funded \in BOOLEAN /\ {used, paid, spent} \subseteq Nat
    /\ bytes \in Nat

\* P5.8: a record is dropped only where newer records left no room for it.
\* (Older ones that are small enough may be taken after it.)
Newer(s, r) == s.by > r.by \/ (s.by = r.by /\ Listed(s, r))
NewestWin ==
    pc = "invoke" /\ Capped =>
        /\ SizeOf(view) <= SharedContextCap
        /\ \A r \in memory \ view :
              SizeOf({s \in view : Newer(s, r)}) + r.size > SharedContextCap

\* What an agent is shown was found by a node that is done, is in the database
\* and does not change while the node is retried or rerun; the database is never
\* more than one record behind the memory (context/shared.py:77-79).
DiscoveriesAreDurable ==
    /\ rows \subseteq memory
    /\ pc \in {"build", "view", "invoke", "failed"} =>
          rows = memory /\ \A r \in memory : r.by < turn
    /\ pc \in {"view", "invoke"} => view \union unseen \subseteq rows
    /\ pc = "invoke" /\ ~Capped => view = memory
    /\ \A r, s \in memory \ rows : r = s

\* The sessions that open in all the attempts at a node: a Coding node resumes,
\* so that each call answers once and every attempt has one that fails; a Review
\* repeats both of its agents.
Attempts == MaxTransientAttempts * (MaxReruns + 1)
Sessions(k) ==
    CASE k = "plan"   -> Attempts
      [] k = "review" -> 2 * Attempts
      [] k = "coding" -> MaxCalls + Attempts

\* How far a node can overrun: each of its sessions is limited as if it were the
\* only one, because remaining_node is what is left when the node starts
\* (base.py:64, coding.py:335).  Without resuming it would be Attempts * MaxCalls.
NodeSpendIsBounded == pc # "next" => paid <= Sessions(kind) * Limit

\* How far a run can: the budget manager hands out what the failed attempts
\* before have charged again (executor.py:442), but there are at most MaxLevel + 1
\* allocations, and each node gets its share and 2.5 % of the budget.
MaxSessions == MaxCalls + 2 * Attempts
Over == Total \div 40 + Overshoot
FrameBound == MaxSessions * (Total + (2 * MaxComposites + 1) * Over)
RealSpendIsBounded ==
    /\ used <= spent
    /\ spent <= (level + 1) * FrameBound

-----------------------------------------------------------------------------
(* What the documents say and the code does not do.                        *)

\* P5.7: agents receive the view of the shared context.  A view of constraints,
\* design decisions or negative findings alone does not reach the prompt.
ViewReachesPrompt == pc = "invoke" => Prompt = view
=============================================================================
