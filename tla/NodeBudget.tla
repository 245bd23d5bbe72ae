----------------------------- MODULE NodeBudget -----------------------------
(***************************************************************************)
(* The money of a run by nodes: BudgetManager's allocations (budget.py)    *)
(* and the limit each SDK session gets (compute_sdk_backstop, base.py).    *)
(*                                                                         *)
(* The nodes of a DAG get equal shares, so the running frame's is enough.  *)
(* What a session charges is external; the SDK ends it after the turn that *)
(* reaches its limit.                                                      *)
(* USD is an integer.                                                      *)
(***************************************************************************)
EXTENDS Integers

CONSTANTS
    Total,      \* total_budget_usd
    MinNode,    \* MIN_NODE_BUDGET_USD
    Charges,    \* what sessions may charge, short of their limit
    Overshoot   \* what the turn that reaches the limit may add

ASSUME BudgetAssumption ==
    /\ Total \in Nat \ {0}
    /\ MinNode \in Nat \ {0}
    /\ Charges \subseteq Nat
    /\ Overshoot \in Nat

VARIABLES
    share,      \* _allocations of each node of the frame
    funded,     \* FALSE when allocate_child returned without allocating
    used,       \* sum of _used
    paid,       \* what the running node's sessions have charged so far
    spent       \* what all sessions have: these two nobody computes

charged == <<paid, spent>>
money == <<share, funded, used, charged>>

BudgetInit ==
    /\ share = Total
    /\ funded = TRUE
    /\ used = 0
    /\ paid = 0 /\ spent = 0

Remaining == Total - used
ShouldPause == Remaining * 20 <= Total

\* allocate_child for k nodes: nothing is allocated when nothing remains.
AllocateChild(k) ==
    /\ Remaining <= 0 \/ Remaining >= MinNode * k
    /\ funded' = (Remaining > 0)
    /\ share' = IF Remaining > 0 THEN Remaining \div k ELSE 0
    /\ UNCHANGED <<used, charged>>

\* ... and where it raises ResourceExhaustionError instead.
TooSmall(k) == Remaining > 0 /\ Remaining < MinNode * k

\* Mutant of Backstop: twice the run's budget, as the implementation plan had it.
BackstopOfRun == 2 * Total

\* compute_sdk_backstop(remaining_node, total): a node's usage is recorded when
\* it completes, so each session of the node finds the whole share remaining.
Backstop == IF 40 * share <= Total THEN 2 * share ELSE share + Total \div 40

\* What n sessions together may charge.
Limit == Backstop + Overshoot
Bill(n) == {c \in Charges : c <= n * Limit} \union {n * Limit}

\* shared_context_cap, which falls back to the whole budget for a node without
\* an allocation.
SharedContextCap == (IF funded THEN share ELSE Total) \div 4

\* record_usage, for a node that _used knows or a cost of zero.
RecordUsage(cost) ==
    /\ funded \/ cost = 0
    /\ used' = used + cost
    /\ UNCHANGED <<share, funded, charged>>

\* An SDK session charges, which nothing here sees until its node completes.
Charge(usd) ==
    /\ paid' = paid + usd /\ spent' = spent + usd
    /\ UNCHANGED <<share, funded, used>>
=============================================================================
