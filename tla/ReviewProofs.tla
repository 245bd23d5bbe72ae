---------------------------- MODULE ReviewProofs ----------------------------
(***************************************************************************)
(* Theorems about ReviewComposite, for any number of attempts: where a     *)
(* verdict comes from, and which worktrees a node leaves.                  *)
(***************************************************************************)
EXTENDS ReviewComposite, FiniteSetTheorems, TLAPS

\* While an attempt is under way its worktree is there; it is checked out nowhere
\* else, whatever the agents of earlier attempts are still doing.
WorktreeInv ==
    /\ pc = "idle" => attempt < MaxAttempts
    /\ pc \in {"gather", "remove", "failed", "done"} => attempt \in Attempts
    /\ pc \in {"gather", "remove"} => worktree[attempt] = "present"
    /\ OneWorktree

\* A verdict in hand is the merge of what both agents of this attempt found.
Merged ==
    /\ \A a \in Agents : Found(attempt, a)
    /\ result = MergeVerdict(agent[attempt]["reviewer"], agent[attempt]["policy"])

ResultInv ==
    /\ result # "none" => pc \in {"remove", "done"} /\ Merged
    /\ pc = "done" => result # "none"

RInv == TypeOK /\ WorktreeInv /\ ResultInv

-----------------------------------------------------------------------------
\* All findings are among the values an agent may have.
LEMMA FindingsTyped ==
    ASSUME NEW a \in Agents, NEW f \in Findings[a]
    PROVE  /\ f \notin {"off", "working", "raised"}
           /\ f \in {"skipped", "violated"} \union Verdicts
  BY DEF Agents, Findings, Verdicts

\* The start.
LEMMA InitRInv == Init => RInv
  <1> SUFFICES ASSUME Init PROVE RInv
    OBVIOUS
  <1>1. TypeOK
    BY ReviewAssumption DEF Init, TypeOK, Attempts
  <1>2. WorktreeInv
    BY ReviewAssumption DEF Init, WorktreeInv, OneWorktree, Attempts
  <1>3. ResultInv
    BY DEF Init, ResultInv
  <1> QED
    BY <1>1, <1>2, <1>3 DEF RInv

\* What an agent does changes no finding and, at most, ends the gather.
LEMMA AgentStepRInv ==
    ASSUME RInv, NEW k \in Attempts, NEW a \in Agents, Answer(k, a) \/ Raise(k, a)
    PROVE  RInv'
  <1>1. PICK f \in {"raised"} \union Findings[a] : agent' = [agent EXCEPT ![k][a] = f]
    BY DEF Answer, Raise
  <1>2. f \in {"raised", "skipped", "violated"} \union Verdicts
    BY FindingsTyped
  <1>3. /\ UNCHANGED <<attempt, worktree, result>>
        /\ pc' = pc \/ (pc = "gather" /\ pc' = "remove")
        /\ agent[k][a] = "working"
    BY DEF Answer, Raise
  <1>4. TypeOK'
    BY <1>1, <1>2, <1>3 DEF RInv, TypeOK
  <1>5. WorktreeInv'
    BY <1>3 DEF RInv, WorktreeInv, OneWorktree
  <1>6. \A j \in Attempts, b \in Agents : Found(j, b) => agent'[j][b] = agent[j][b]
    <2>1. ~Found(k, a)
      BY <1>3, FindingsTyped DEF Found
    <2>2. agent \in [Attempts -> [Agents -> {"off", "working", "raised", "skipped", "violated"}
                                             \union Verdicts]]
      BY DEF RInv, TypeOK
    <2> QED
      BY <1>1, <2>1, <2>2 DEF Found
  <1>7. ResultInv'
    <2>1. CASE result = "none"
      BY <1>3, <2>1 DEF RInv, ResultInv
    <2>2. CASE result # "none"
      <3>1. pc \in {"remove", "done"} /\ Merged /\ attempt \in Attempts
        BY <2>2 DEF RInv, ResultInv, WorktreeInv
      <3>2. \A b \in Agents : agent'[attempt][b] = agent[attempt][b]
        BY <1>6, <3>1 DEF Merged
      <3>3. Merged'
        BY <1>3, <3>1, <3>2 DEF Merged, Found, Agents
      <3> QED
        BY <1>3, <2>2, <3>1, <3>3 DEF ResultInv
    <2> QED
      BY <2>1, <2>2
  <1> QED
    BY <1>4, <1>5, <1>7 DEF RInv

\* A step of the task that runs the node.
LEMMA NodeStepRInv ==
    ASSUME RInv, NodeStep
    PROVE  RInv'
  <1> USE DEF RInv
  <1>1. CASE CreateWorktree
    <2>1. /\ attempt' = attempt + 1 /\ attempt' \in Attempts /\ attempt \in 0 .. MaxAttempts
          /\ result = "none" /\ result' = "none"
      BY <1>1, ReviewAssumption DEF CreateWorktree, TypeOK, WorktreeInv, ResultInv, Attempts
    <2>2. CASE /\ \A k \in Attempts : worktree[k] # "present"
               /\ worktree' = [worktree EXCEPT ![attempt'] = "present"]
               /\ agent' = [agent EXCEPT ![attempt'] = [a \in Agents |-> "working"]]
               /\ pc' = "gather"
      <3>1. TypeOK'
        BY <2>1, <2>2 DEF TypeOK, Attempts
      <3>2. WorktreeInv'
        BY <2>1, <2>2 DEF TypeOK, WorktreeInv, OneWorktree
      <3> QED
        BY <2>1, <2>2, <3>1, <3>2 DEF ResultInv
    <2>3. CASE pc' = "failed" /\ UNCHANGED <<worktree, agent>>
      BY <2>1, <2>3 DEF TypeOK, WorktreeInv, OneWorktree, ResultInv, Attempts
    <2> QED
      BY <1>1, <2>2, <2>3 DEF CreateWorktree
  <1>2. CASE Merge
    <2>1. /\ pc = "gather" /\ pc' = "remove" /\ UNCHANGED <<attempt, agent, worktree>>
          /\ result' = MergeVerdict(agent[attempt]["reviewer"], agent[attempt]["policy"])
          /\ \A a \in Agents : Found(attempt, a)
      BY <1>2 DEF Merge
    <2>2. result' \in Verdicts
      BY <2>1 DEF MergeVerdict, Found, Findings, Agents, Verdicts
    <2>3. Merged'
      BY <2>1 DEF Merged, Found
    <2> QED
      BY <2>1, <2>2, <2>3 DEF TypeOK, WorktreeInv, OneWorktree, ResultInv, Verdicts
  <1>3. CASE RemoveWorktree
    <2>1. attempt \in Attempts /\ worktree[attempt] = "present" /\ UNCHANGED <<attempt, agent>>
      BY <1>3 DEF RemoveWorktree, WorktreeInv
    <2>2. CASE /\ worktree' = [worktree EXCEPT ![attempt] = "removed"]
               /\ pc' = IF result = "none" THEN "failed" ELSE "done"
               /\ UNCHANGED result
      <3>1. TypeOK'
        BY <2>1, <2>2 DEF TypeOK
      <3>2. \A k \in Attempts : worktree'[k] # "present"
        BY <2>1, <2>2 DEF TypeOK, WorktreeInv, OneWorktree
      <3>3. WorktreeInv'
        BY <2>1, <2>2, <3>2 DEF WorktreeInv, OneWorktree
      <3>4. ResultInv'
        BY <2>1, <2>2, <1>3 DEF ResultInv, Merged, Found
      <3> QED
        BY <3>1, <3>3, <3>4
    <2>3. CASE result' = "none" /\ pc' = "failed" /\ UNCHANGED worktree
      BY <2>1, <2>3 DEF TypeOK, WorktreeInv, OneWorktree, ResultInv
    <2> QED
      BY <1>3, <2>2, <2>3 DEF RemoveWorktree
  <1>4. CASE Retry
    <2>1. /\ pc = "failed" /\ UNCHANGED <<attempt, agent, worktree, result>>
          /\ pc' = "gaveUp" \/ (pc' = "idle" /\ attempt < MaxAttempts)
      BY <1>4 DEF Retry
    <2> QED
      BY <2>1 DEF TypeOK, WorktreeInv, OneWorktree, ResultInv
  <1> QED
    BY <1>1, <1>2, <1>3, <1>4 DEF NodeStep

\* The invariant of the node.
THEOREM RInvHolds == Spec => []RInv
  <1>1. RInv /\ [Next]_vars => RInv'
    <2> SUFFICES ASSUME RInv, [Next]_vars PROVE RInv'
      OBVIOUS
    <2>1. CASE NodeStep
      BY <2>1, NodeStepRInv
    <2>2. CASE AgentStep
      BY <2>2, AgentStepRInv DEF AgentStep
    <2>3. CASE Ended \/ UNCHANGED vars
      BY <2>3 DEF Ended, vars, RInv, TypeOK, WorktreeInv, OneWorktree, ResultInv, Merged, Found
    <2> QED
      BY <2>1, <2>2, <2>3 DEF Next
  <1> QED
    BY InitRInv, <1>1, PTL DEF Spec

\* Types, for any number of attempts.
THEOREM ReviewTypes == Spec => []TypeOK
  <1>1. RInv => TypeOK
    BY DEF RInv
  <1> QED
    BY RInvHolds, <1>1, PTL

\* A node that completes returns the merge of two verdicts of its last attempt,
\* never one of an agent that an earlier attempt left at work.
THEOREM VerdictsAreOfBoth == Spec => []VerdictOfBoth
  <1>1. RInv => VerdictOfBoth
    BY DEF RInv, ResultInv, Merged, MergeVerdict, VerdictOfBoth
  <1> QED
    BY RInvHolds, <1>1, PTL

\* The branch is checked out in one worktree at most, and in none once the node
\* has completed.
THEOREM WorktreesAreSingle == Spec => []OneWorktree
  <1>1. RInv => OneWorktree
    BY DEF RInv, WorktreeInv
  <1> QED
    BY RInvHolds, <1>1, PTL

-----------------------------------------------------------------------------
(* What StuckWorktreeIsFatal rests on besides fairness.                     *)

Stuck == pc \in {"failed", "idle", "gaveUp"} /\ \E k \in Attempts : worktree[k] = "present"

\* From a worktree that was not removed no step leads on: neither the agents still
\* at work nor the attempts that are left check the branch out again.
THEOREM StuckStaysStuck == Spec => [][Stuck => Stuck']_vars
  <1>1. RInv /\ [Next]_vars => [Stuck => Stuck']_vars
    <2> SUFFICES ASSUME Stuck, Next PROVE Stuck'
      BY DEF vars
    <2>1. CASE CreateWorktree
      BY <2>1 DEF CreateWorktree, Stuck
    <2>2. CASE Retry
      BY <2>2 DEF Retry, Stuck
    <2>3. CASE AgentStep
      BY <2>3 DEF AgentStep, Answer, Raise, Stuck
    <2>4. CASE Ended
      BY <2>4 DEF Ended, vars, Stuck
    <2> QED
      BY <2>1, <2>2, <2>3, <2>4 DEF Next, NodeStep, Merge, RemoveWorktree, Stuck
  <1> QED
    BY RInvHolds, <1>1, PTL DEF Spec

\* The agents that have not answered yet, those of attempts to come included.
Silent == {p \in Attempts \X Agents : agent[p[1]][p[2]] \in {"off", "working"}}

Stage ==
    CASE pc = "gather" -> 0
      [] pc = "remove" -> 1
      [] pc = "failed" -> 2
      [] pc \in {"idle", "done", "gaveUp"} -> 3

NodeStepsLeft == 4 * (MaxAttempts - attempt) + 3 - Stage
StepsLeft == NodeStepsLeft + Cardinality(Silent)

\* Attempts that have not begun have no agents at work.
FutureInv == \A k \in Attempts, a \in Agents : k > attempt => agent[k][a] = "off"

\* There is a number of steps left.
LEMMA StepsLeftIsNat ==
    ASSUME TypeOK
    PROVE  /\ StepsLeft \in Nat /\ NodeStepsLeft \in Nat /\ Stage \in 0 .. 3
           /\ IsFiniteSet(Silent) /\ Cardinality(Silent) \in Nat
  <1>1. IsFiniteSet(Attempts) /\ IsFiniteSet(Agents)
    <2>1. IsFiniteSet(Attempts)
      BY FS_Interval, ReviewAssumption DEF Attempts
    <2>2. IsFiniteSet({"reviewer"}) /\ IsFiniteSet({"reviewer"} \union {"policy"})
      BY FS_Singleton, FS_Union
    <2>3. Agents = {"reviewer"} \union {"policy"}
      BY DEF Agents
    <2> QED
      BY <2>1, <2>2, <2>3
  <1>2. IsFiniteSet(Silent)
    BY <1>1, FS_Product, FS_Subset DEF Silent
  <1>3. Cardinality(Silent) \in Nat
    BY <1>2, FS_CardinalityType
  <1>4. Stage \in 0 .. 3
    BY DEF TypeOK, Stage
  <1> QED
    BY <1>2, <1>3, <1>4, ReviewAssumption DEF StepsLeft, NodeStepsLeft, TypeOK

\* The task that runs the node goes forward and wakes agents that were silent.
LEMMA NodeStepsForward ==
    ASSUME RInv, FutureInv, NodeStep
    PROVE  FutureInv' /\ Silent' = Silent /\ NodeStepsLeft' < NodeStepsLeft
  <1>1. attempt \in 0 .. MaxAttempts /\ MaxAttempts \in Nat
    BY ReviewAssumption DEF RInv, TypeOK
  <1>2. CASE CreateWorktree
    <2>1. /\ attempt' = attempt + 1 /\ attempt' \in Attempts /\ pc = "idle"
          /\ pc' \in {"gather", "failed"}
      BY <1>1, <1>2 DEF CreateWorktree, RInv, WorktreeInv, Attempts
    <2>2. \A a \in Agents : agent[attempt'][a] = "off"
      BY <1>1, <2>1 DEF FutureInv
    <2>3. \/ agent' = [agent EXCEPT ![attempt'] = [a \in Agents |-> "working"]]
          \/ agent' = agent
      BY <1>2 DEF CreateWorktree
    <2>4. \A k \in Attempts, a \in Agents :
             /\ k # attempt' => agent'[k][a] = agent[k][a]
             /\ k = attempt' => agent[k][a] = "off" /\ agent'[k][a] \in {"off", "working"}
      BY <2>1, <2>2, <2>3 DEF RInv, TypeOK
    <2>5. FutureInv'
      BY <1>1, <2>1, <2>4 DEF FutureInv, Attempts
    <2>6. \A p \in Attempts \X Agents :
             agent'[p[1]][p[2]] \in {"off", "working"} <=> agent[p[1]][p[2]] \in {"off", "working"}
      BY <2>4
    <2>7. Silent' = Silent
      BY <2>6 DEF Silent
    <2> QED
      BY <1>1, <2>1, <2>5, <2>7 DEF Stage, NodeStepsLeft
  <1>3. CASE Merge \/ RemoveWorktree \/ Retry
    <2>1. /\ UNCHANGED <<attempt, agent>>
          /\ \/ pc = "gather" /\ pc' = "remove"
             \/ pc = "remove" /\ pc' \in {"failed", "done"}
             \/ pc = "failed" /\ pc' \in {"idle", "gaveUp"}
      BY <1>3 DEF Merge, RemoveWorktree, Retry
    <2>2. FutureInv' /\ Silent' = Silent
      BY <2>1 DEF FutureInv, Silent
    <2> QED
      BY <1>1, <2>1, <2>2 DEF Stage, NodeStepsLeft
  <1> QED
    BY <1>2, <1>3 DEF NodeStep

\* An agent that answers or raises is silent no more, and may end the gather.
LEMMA AgentStepsForward ==
    ASSUME RInv, FutureInv, NEW k \in Attempts, NEW a \in Agents, Answer(k, a) \/ Raise(k, a)
    PROVE  /\ FutureInv' /\ Cardinality(Silent') = Cardinality(Silent) - 1
           /\ NodeStepsLeft' <= NodeStepsLeft
  <1>1. PICK f \in {"raised"} \union Findings[a] : agent' = [agent EXCEPT ![k][a] = f]
    BY DEF Answer, Raise
  <1>2. f \notin {"off", "working"}
    BY FindingsTyped
  <1>3. /\ attempt' = attempt /\ agent[k][a] = "working"
        /\ pc' = pc \/ (pc = "gather" /\ pc' = "remove")
    BY DEF Answer, Raise
  <1>4. \A j \in Attempts, b \in Agents :
           agent'[j][b] = IF j = k /\ b = a THEN f ELSE agent[j][b]
    BY <1>1 DEF RInv, TypeOK
  <1>5. FutureInv'
    BY <1>3, <1>4 DEF FutureInv
  <1>6. <<k, a>> \in Silent /\ Silent' = Silent \ {<<k, a>>}
    <2>1. \A p \in Attempts \X Agents :
             agent'[p[1]][p[2]] \in {"off", "working"}
                <=> agent[p[1]][p[2]] \in {"off", "working"} /\ p # <<k, a>>
      BY <1>2, <1>4
    <2> QED
      BY <1>3, <2>1 DEF Silent
  <1>7. Cardinality(Silent') = Cardinality(Silent) - 1
    BY <1>6, FS_RemoveElement, StepsLeftIsNat DEF RInv
  <1>8. NodeStepsLeft' <= NodeStepsLeft
    <2>1. attempt \in Int /\ MaxAttempts \in Int /\ Stage \in Int
      BY StepsLeftIsNat, ReviewAssumption DEF RInv, TypeOK
    <2>2. Stage' = Stage \/ (Stage = 0 /\ Stage' = 1)
      BY <1>3 DEF Stage
    <2> QED
      BY <1>3, <2>1, <2>2 DEF NodeStepsLeft
  <1> QED
    BY <1>5, <1>7, <1>8

\* Every step of a Review node, those of agents left at work by failed attempts
\* included, leaves fewer steps to take: at most 6 * MaxAttempts in all.
THEOREM ReviewRunsDown == Spec => [](StepsLeft \in Nat) /\ [][StepsLeft' < StepsLeft]_vars
  <1>1. Init => FutureInv
    BY DEF Init, FutureInv
  <1>2. RInv /\ FutureInv /\ [Next]_vars => FutureInv'
    <2> SUFFICES ASSUME RInv, FutureInv, [Next]_vars PROVE FutureInv'
      OBVIOUS
    <2>1. CASE Ended \/ UNCHANGED vars
      BY <2>1 DEF Ended, vars, FutureInv
    <2> QED
      BY <2>1, NodeStepsForward, AgentStepsForward DEF Next, AgentStep
  <1>3. RInv => StepsLeft \in Nat /\ NodeStepsLeft \in Int /\ Cardinality(Silent) \in Int
    BY StepsLeftIsNat DEF RInv
  <1>4. RInv' => (NodeStepsLeft \in Int)' /\ (Cardinality(Silent) \in Int)'
    BY <1>3, PTL
  <1>5. RInv /\ RInv' /\ FutureInv /\ [Next]_vars => [StepsLeft' < StepsLeft]_vars
    <2> SUFFICES ASSUME RInv, RInv', FutureInv, Next, vars' # vars
                 PROVE  StepsLeft' < StepsLeft
      OBVIOUS
    <2>1. CASE NodeStep
      <3>1. NodeStepsLeft' < NodeStepsLeft /\ Cardinality(Silent') = Cardinality(Silent)
        BY <2>1, NodeStepsForward
      <3> QED
        BY <1>3, <1>4, <3>1 DEF StepsLeft
    <2>2. CASE AgentStep
      <3>1. /\ NodeStepsLeft' <= NodeStepsLeft
            /\ Cardinality(Silent') = Cardinality(Silent) - 1
        BY <2>2, AgentStepsForward DEF AgentStep
      <3> QED
        BY <1>3, <1>4, <3>1 DEF StepsLeft
    <2> QED
      BY <2>1, <2>2 DEF Next, Ended
  <1> QED
    BY RInvHolds, <1>1, <1>2, <1>3, <1>5, PTL DEF Spec
=============================================================================
