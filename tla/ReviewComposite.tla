-------------------------- MODULE ReviewComposite ---------------------------
(***************************************************************************)
(* One Review node (agents/review.py, agents/policy_review.py) over all    *)
(* the attempts the executor makes at it (_dispatch_review).  Each attempt *)
(* checks the Coding branch out into a worktree of its own and runs the    *)
(* Reviewer and the PolicyReviewer under asyncio.gather.  The first        *)
(* exception ends the gather; the other agent is not cancelled and works   *)
(* on, while the worktree is removed under it and the node is tried again. *)
(***************************************************************************)
EXTENDS Integers

CONSTANT MaxAttempts   \* attempts of the executor: 6 in the code

ASSUME ReviewAssumption == MaxAttempts \in Nat \ {0}

Attempts == 1 .. MaxAttempts
Agents == {"reviewer", "policy"}

\* What each agent may find: ReviewVerdict, and PolicyReviewOutput's approved
\* and skipped.
Verdicts == {"approved", "needs_rework", "rejected"}
Findings == [reviewer |-> Verdicts, policy |-> {"approved", "violated", "skipped"}]

VARIABLES
    attempt,   \* attempts begun
    pc,        \* of the task that runs the node
    agent,     \* per attempt and agent: "off", "working", "raised", or its finding
    worktree,  \* per attempt: "none", "present" or "removed"
    result     \* the verdict to return, "none" if an exception is on its way

vars == <<attempt, pc, agent, worktree, result>>

Found(k, a) == agent[k][a] \in Findings[a]

Init ==
    /\ attempt = 0
    /\ pc = "idle"
    /\ agent = [k \in Attempts |-> [a \in Agents |-> "off"]]
    /\ worktree = [k \in Attempts |-> "none"]
    /\ result = "none"

\* Mutant of CreateWorktree: git worktree add --force.
CreateWorktreeForced ==
    /\ pc = "idle"
    /\ attempt' = attempt + 1
    /\ worktree' = [worktree EXCEPT ![attempt'] = "present"]
    /\ agent' = [agent EXCEPT ![attempt'] = [a \in Agents |-> "working"]]
    /\ pc' = "gather"
    /\ UNCHANGED result

\* create_review_worktree.  Git refuses a branch that is checked out in another
\* worktree, which it still is if the last one could not be removed.
CreateWorktree ==
    /\ pc = "idle"
    /\ attempt' = attempt + 1
    /\ \/ /\ \A k \in Attempts : worktree[k] # "present"
          /\ worktree' = [worktree EXCEPT ![attempt'] = "present"]
          /\ agent' = [agent EXCEPT ![attempt'] = [a \in Agents |-> "working"]]
          /\ pc' = "gather"
       \/ /\ pc' = "failed"
          /\ UNCHANGED <<worktree, agent>>
    /\ UNCHANGED result

\* invoke_agent returns, to the gather or, after it, to nobody.
Answer(k, a) ==
    /\ agent[k][a] = "working"
    /\ \E f \in Findings[a] : agent' = [agent EXCEPT ![k][a] = f]
    /\ UNCHANGED <<attempt, pc, worktree, result>>

\* An agent raises; the gather raises if it is still waiting.
Raise(k, a) ==
    /\ agent[k][a] = "working"
    /\ agent' = [agent EXCEPT ![k][a] = "raised"]
    /\ pc' = IF k = attempt /\ pc = "gather" THEN "remove" ELSE pc
    /\ UNCHANGED <<attempt, worktree, result>>

\* Mutant of MergeVerdict: only an approval is overruled.
MergeVerdictApprovedOnly(verdict, policy) ==
    IF policy = "violated" /\ verdict = "approved" THEN "needs_rework" ELSE verdict

\* _merge_verdict: a policy violation rejects whatever the Reviewer says.
MergeVerdict(verdict, policy) ==
    IF policy = "violated" THEN "rejected" ELSE verdict

\* The gather returns: merge the verdicts.
Merge ==
    /\ pc = "gather"
    /\ \A a \in Agents : Found(attempt, a)
    /\ result' = MergeVerdict(agent[attempt]["reviewer"], agent[attempt]["policy"])
    /\ pc' = "remove"
    /\ UNCHANGED <<attempt, agent, worktree>>

\* `finally': remove_worktree.  If it raises, the result is lost.
RemoveWorktree ==
    /\ pc = "remove"
    /\ \/ /\ worktree' = [worktree EXCEPT ![attempt] = "removed"]
          /\ pc' = IF result = "none" THEN "failed" ELSE "done"
          /\ UNCHANGED result
       \/ /\ result' = "none"
          /\ pc' = "failed"
          /\ UNCHANGED worktree
    /\ UNCHANGED <<attempt, agent>>

\* Mutant of Retry: the attempts are not counted.
RetryUncapped ==
    /\ pc = "failed"
    /\ pc' \in {"gaveUp", "idle"}
    /\ UNCHANGED <<attempt, agent, worktree, result>>

\* The executor tries again, or escalates.
Retry ==
    /\ pc = "failed"
    /\ pc' \in {"gaveUp"} \union (IF attempt < MaxAttempts THEN {"idle"} ELSE {})
    /\ UNCHANGED <<attempt, agent, worktree, result>>

AgentStep == \E k \in Attempts, a \in Agents : Answer(k, a) \/ Raise(k, a)
NodeStep == CreateWorktree \/ Merge \/ RemoveWorktree \/ Retry

Ended ==
    /\ pc \in {"done", "gaveUp"}
    /\ UNCHANGED vars

Next == NodeStep \/ AgentStep \/ Ended

\* The agents' sessions end (max_turns), and the loop runs the node's task.
Fairness ==
    /\ WF_vars(NodeStep)
    /\ \A k \in Attempts, a \in Agents : WF_vars(Answer(k, a) \/ Raise(k, a))

Spec == Init /\ [][Next]_vars /\ Fairness

-----------------------------------------------------------------------------
TypeOK ==
    /\ attempt \in 0 .. MaxAttempts
    /\ pc \in {"idle", "gather", "remove", "failed", "done", "gaveUp"}
    /\ agent \in [Attempts -> [Agents -> {"off", "working", "raised", "skipped", "violated"}
                                             \union Verdicts]]
    /\ worktree \in [Attempts -> {"none", "present", "removed"}]
    /\ result \in Verdicts \union {"none"}

\* P3.2: a verdict comes from two agents of one attempt, which both answered in
\* it; it is APPROVED only if neither objects, and a policy violation rejects.
VerdictOfBoth ==
    pc = "done" =>
        /\ \A a \in Agents : Found(attempt, a)
        /\ agent[attempt]["policy"] = "violated" => result = "rejected"
        /\ agent[attempt]["policy"] # "violated" => result = agent[attempt]["reviewer"]

\* At most one worktree has the branch checked out, although agents of several
\* attempts may be at work; a node that completes leaves none behind.
OneWorktree ==
    /\ \A j, k \in Attempts : worktree[j] = "present" /\ worktree[k] = "present" => j = k
    /\ pc = "done" => \A k \in Attempts : worktree[k] # "present"

\* A worktree that could not be removed is fatal: no later attempt can check the
\* branch out, so the node gives up, however many attempts it has left.
StuckWorktreeIsFatal ==
    (pc = "failed" /\ \E k \in Attempts : worktree[k] = "present") ~> (pc = "gaveUp")

-----------------------------------------------------------------------------
(* What the documents say and the code does not do.                        *)

\* P3.1: the two agents work on the worktree of their composite.
AgentsHaveWorktree ==
    \A k \in Attempts : (\E a \in Agents : agent[k][a] = "working")
        => worktree[k] = "present"

=============================================================================
