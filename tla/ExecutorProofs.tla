--------------------------- MODULE ExecutorProofs ---------------------------
(***************************************************************************)
(* Theorems about Executor, for every value of its constants.              *)
(***************************************************************************)
EXTENDS Executor, TLAPS

-----------------------------------------------------------------------------
(* Type correctness.                                                       *)

\* The nodes _build_child_dag_nodes makes for a level are nodes of that level.
LEMMA ChildNodesType ==
    ASSUME NEW l \in Levels, NEW s \in SpecType
    PROVE  ChildNodes(l, s) \subseteq Node
  BY DEF ChildNodes, Node, SpecType, Plan, Coding, Review

\* The DAG execute() is given consists of nodes, and its edges are a spec.
LEMMA TopNodesType ==
    /\ TopNodes \subseteq Node
    /\ ~UseComposites => StubSpec \in SpecType
  <1>1. Plan(0) \in Node
    BY ConstantsAssumption DEF Plan, Node, Levels
  <1>2. ASSUME ~UseComposites PROVE StubSpec \in SpecType
    BY <1>2, ConstantsAssumption DEF StubSpec, SpecType
  <1>3. ASSUME ~UseComposites PROVE ChildNodes(1, StubSpec) \subseteq Node
    <2>1. 1 \in Levels
      BY ConstantsAssumption DEF Levels
    <2> QED BY <2>1, <1>2, <1>3, ChildNodesType
  <1> QED BY <1>1, <1>2, <1>3 DEF TopNodes

\* What an agent returns has the type of `out'.
LEMMA OutcomesType ==
    ASSUME NEW n \in Node
    PROVE  Outcomes(n) \subseteq
             [cost : Nat, branch : {"none", "reported"}, child : SpecType]
  <1>1. NoSpec \in SpecType
    BY DEF NoSpec, SpecType
  <1>2. ChildSpecs \subseteq SpecType /\ Costs \subseteq Nat
    BY ConstantsAssumption
  <1> QED BY <1>1, <1>2 DEF Outcomes

\* What Drain and EnterChild reset out to.
LEMMA NoOutcomeType ==
    NoOutcome \in [cost : Nat, branch : {"none", "reported"}, child : SpecType]
  BY DEF NoOutcome, NoSpec, SpecType

\* Types, with what the type of todo' depends on.
TypeInv == TypeOK /\ SpawnDepth

\* The initial state has the right types.
LEMMA InitType == Init => TypeInv
  <1> SUFFICES ASSUME Init PROVE TypeInv
    OBVIOUS
  <1>1. Plan(0) \in Node /\ 0 \in Levels
    BY ConstantsAssumption DEF Plan, Node, Levels
  <1>2. spec \in [Levels -> SpecType]
    BY TopNodesType DEF Init, SpecType, NoSpec
  <1>3. tries \in 0 .. MaxTransientAttempts - 1 /\ reruns \in 0 .. MaxReruns
    BY ConstantsAssumption DEF Init
  <1> QED BY <1>1, <1>2, <1>3 DEF Init, TypeInv, TypeOK, SpawnDepth, NoOutcome, NoSpec, SpecType

\* Every step keeps the types.
LEMMA NextType == TypeInv /\ [Next]_vars => TypeInv'
  <1> SUFFICES ASSUME TypeInv, [Next]_vars PROVE TypeInv'
    OBVIOUS
  <1> USE ConstantsAssumption DEF TypeInv, TypeOK, SpawnDepth, Levels, Halted, Here,
          control, attempt, rows, ledger, budget
  <1>here. Here \in Node
    OBVIOUS
  <1>1. CASE Start
    BY <1>1, TopNodesType DEF Start
  <1>2. CASE NextNode
    BY <1>2 DEF NextNode
  <1>3. CASE LoopEnd
    BY <1>3 DEF LoopEnd
  <1>4. CASE Finish
    BY <1>4 DEF Finish
  <1>5. CASE GateBlocked
    BY <1>5 DEF GateBlocked
  <1>6. CASE GateFail
    BY <1>6 DEF GateFail, Return
  <1>7. CASE Dispatch
    BY <1>7 DEF Dispatch, AttemptAt
  <1>8. CASE CreateWorktree
    BY <1>8 DEF CreateWorktree
  <1>9. CASE TransientFailure
    <2>1. branch' \in [Node -> {"none", "local", "pushed", "reported"}]
      BY <1>9, <1>here DEF TransientFailure, PushOnExit, ExitsOfFailure
    <2>2. tries' \in 0 .. MaxTransientAttempts - 1
      BY <1>9 DEF TransientFailure
    <2>3. failure' \in NoRetry \union Retryable \union {"none"}
      BY <1>9 DEF TransientFailure, Retryable
    <2>4. pc' \in {"worktree", "invoke", "failed"}
      BY <1>9 DEF TransientFailure, AttemptAt
    <2>5. UNCHANGED <<control, reruns, out, run, spec, status, results, shared,
                      escalated, ledger, budget>>
      BY <1>9 DEF TransientFailure
    <2> QED BY <2>1, <2>2, <2>3, <2>4, <2>5
  <1>10. CASE InvocationFails
    <2>1. branch' \in [Node -> {"none", "local", "pushed", "reported"}]
      BY <1>10, <1>here DEF InvocationFails, PushOnExit, ExitsOfFailure
    <2>2. failure' \in NoRetry \union Retryable \union {"none"}
      BY <1>10, Zenon DEF InvocationFails, Retryable
    <2>3. pc' = "failed" /\ tries' = 0
      BY <1>10 DEF InvocationFails
    <2>4. UNCHANGED <<control, reruns, out, run, spec, status, results, shared,
                      escalated, ledger, budget>>
      BY <1>10 DEF InvocationFails
    <2> QED BY <2>1, <2>2, <2>3, <2>4
  <1>11. CASE InvocationSucceeds
    <2>1. out' \in [cost : Nat, branch : {"none", "reported"}, child : SpecType]
      BY <1>11, <1>here, OutcomesType DEF InvocationSucceeds
    <2>2. \/ UNCHANGED branch
          \/ \E b \in {"none", "pushed"} : branch' = [branch EXCEPT ![Here] = b]
      BY <1>11, Zenon DEF InvocationSucceeds, PushOnExit
    <2>3. branch' \in [Node -> {"none", "local", "pushed", "reported"}]
      BY <2>2, <1>here
    <2>4. tries' = 0 /\ pc' = "save"
      BY <1>11 DEF InvocationSucceeds
    <2>5. UNCHANGED <<control, reruns, failure, run, spec, status, results, shared,
                      escalated, ledger, budget>>
      BY <1>11 DEF InvocationSucceeds
    <2> QED BY <2>1, <2>3, <2>4, <2>5
  <1>12. CASE SaveResult
    BY <1>12 DEF SaveResult
  <1>13. CASE Complete
    <2>1. used' \in Nat /\ pendUsage' \in Nat
      <3>1. used \in Nat /\ pendUsage \in Nat /\ out.cost \in Nat
        OBVIOUS
      <3>2. \/ UNCHANGED <<used, pendUsage>>
            \/ used' = used + out.cost /\ pendUsage' = pendUsage + out.cost
        BY <1>13 DEF Complete
      <3> QED BY ONLY <3>1, <3>2
    <2>2. status' \in [Node -> {"absent", "pending", "running", "completed", "failed"}]
      BY <1>13, <1>here DEF Complete
    <2>3. branch' \in [Node -> {"none", "local", "pushed", "reported"}]
      BY <1>13, <1>here DEF Complete
    <2>4. pc' \in {"raised", "discover"}
      BY <1>13 DEF Complete
    <2>5. UNCHANGED <<control, attempt, run, spec, results, shared, escalated,
                      ledger, allocated, pendPause, delta>>
      BY <1>13 DEF Complete
    <2> QED BY <2>1, <2>2, <2>3, <2>4, <2>5
  <1>14. CASE Discover
    BY <1>14 DEF Discover
  <1>15. CASE Rerun
    BY <1>15 DEF Rerun, AttemptAt
  <1>16. CASE Escalate
    BY <1>16 DEF Escalate
  <1>17. CASE EscalateNode
    BY <1>17 DEF EscalateNode
  <1>18. CASE EscalateRun
    BY <1>18 DEF EscalateRun, Return
  <1>19. CASE Spawn
    BY <1>19 DEF Spawn
  <1>20. CASE Persist
    BY <1>20, ChildNodesType DEF Persist
  <1>21. CASE PersistDuplicate
    BY <1>21 DEF PersistDuplicate
  <1>22. CASE EnterChild
    <2> DEFINE child == ChildNodes(depth + 1, spec[depth + 1])
    <2>1. depth + 1 \in Levels /\ child \subseteq Node
      BY <1>22, ChildNodesType DEF EnterChild
    <2>2. allocated' \subseteq Node
      BY <1>22, <2>1 DEF EnterChild
    <2>3. pc' \in {"raised", "loop"} /\ out' = NoOutcome
      BY <1>22 DEF EnterChild
    <2>4. depth' \in Levels /\ todo' \in [Levels -> SUBSET Node]
      <3>1. \/ UNCHANGED <<depth, todo>>
            \/ depth' = depth + 1 /\ todo' = [todo EXCEPT ![depth + 1] = child]
        BY <1>22 DEF EnterChild
      <3>2. depth \in Levels /\ todo \in [Levels -> SUBSET Node]
        OBVIOUS
      <3> HIDE DEF child, Levels
      <3> QED BY ONLY <2>1, <3>1, <3>2
    <2>5. UNCHANGED <<cur, tries, reruns, failure, rows, ledger, used, pendUsage,
                      pendPause, delta>>
      BY <1>22 DEF EnterChild
    <2> HIDE DEF child
    <2> QED BY <2>2, <2>3, <2>4, <2>5, NoOutcomeType
  <1>23. CASE Drain("drain", "increment")
    <2>4. /\ usageEvents \in Nat /\ pendUsage \in Nat /\ pauses \in Nat /\ pendPause \in Nat
          /\ usdUsed \in Nat /\ used \in Nat
      OBVIOUS
    <2>5. /\ usageEvents' = usageEvents + pendUsage /\ pauses' = pauses + pendPause
          /\ delta' = pendUsage /\ pendUsage' = 0 /\ pendPause' = 0
      BY <1>23 DEF Drain
    <2>1. /\ usageEvents' \in Nat /\ pauses' \in Nat /\ delta' \in Nat
          /\ pendUsage' \in Nat /\ pendPause' \in Nat
      BY ONLY <2>4, <2>5
    <2>2. pc' = "increment" /\ out' = NoOutcome
      BY <1>23 DEF Drain
    <2>3. UNCHANGED <<control, tries, reruns, failure, rows, usdUsed, allocated, used>>
      BY <1>23 DEF Drain
    <2> QED BY <2>1, <2>2, <2>3, <2>4, NoOutcomeType
  <1>24. CASE Increment("increment", "check")
    BY <1>24 DEF Increment
  <1>25. CASE CheckPause
    BY <1>25 DEF CheckPause
  <1>26. CASE Drain("drainPause", "incrementPause")
    <2>4. /\ usageEvents \in Nat /\ pendUsage \in Nat /\ pauses \in Nat /\ pendPause \in Nat
          /\ usdUsed \in Nat /\ used \in Nat
      OBVIOUS
    <2>5. /\ usageEvents' = usageEvents + pendUsage /\ pauses' = pauses + pendPause
          /\ delta' = pendUsage /\ pendUsage' = 0 /\ pendPause' = 0
      BY <1>26 DEF Drain
    <2>1. /\ usageEvents' \in Nat /\ pauses' \in Nat /\ delta' \in Nat
          /\ pendUsage' \in Nat /\ pendPause' \in Nat
      BY ONLY <2>4, <2>5
    <2>2. pc' = "incrementPause" /\ out' = NoOutcome
      BY <1>26 DEF Drain
    <2>3. UNCHANGED <<control, tries, reruns, failure, rows, usdUsed, allocated, used>>
      BY <1>26 DEF Drain
    <2> QED BY <2>1, <2>2, <2>3, <2>4, NoOutcomeType
  <1>27. CASE Increment("incrementPause", "pause")
    BY <1>27 DEF Increment
  <1>28. CASE Pause
    BY <1>28 DEF Pause, Return
  <1>29. CASE UNCHANGED vars
    BY <1>29 DEF vars
  <1> QED
    BY <1>1, <1>2, <1>3, <1>4, <1>5, <1>6, <1>7, <1>8, <1>9, <1>10, <1>11, <1>12,
       <1>13, <1>14, <1>15, <1>16, <1>17, <1>18, <1>19, <1>20, <1>21, <1>22, <1>23,
       <1>24, <1>25, <1>26, <1>27, <1>28, <1>29
    DEF Next, DrainNode, DrainPause, Ended

\* TypeOK is an invariant of the executor.
THEOREM TypeCorrect == Spec => []TypeInv /\ []TypeOK
  <1>1. TypeInv => TypeOK
    BY DEF TypeInv
  <1> QED BY <1>1, InitType, NextType, PTL DEF Spec

-----------------------------------------------------------------------------
(* A COMPLETED row has its result.                                         *)

\* Every step keeps ResultFirst.
LEMMA NextResultFirst == TypeInv /\ ResultFirst /\ [Next]_vars => ResultFirst'
  <1> SUFFICES ASSUME TypeInv, ResultFirst, [Next]_vars PROVE ResultFirst'
    OBVIOUS
  <1> USE DEF TypeInv, TypeOK, ResultFirst, CompletedHasResult, Here,
          control, attempt, rows, ledger, budget
  <1>1. CASE Start
    BY <1>1 DEF Start
  <1>2. CASE NextNode
    BY <1>2 DEF NextNode
  <1>3. CASE LoopEnd
    BY <1>3 DEF LoopEnd
  <1>4. CASE Finish
    BY <1>4 DEF Finish
  <1>5. CASE GateBlocked
    BY <1>5 DEF GateBlocked
  <1>6. CASE GateFail
    BY <1>6 DEF GateFail, Return
  <1>7. CASE Dispatch
    BY <1>7 DEF Dispatch, AttemptAt
  <1>8. CASE CreateWorktree
    BY <1>8 DEF CreateWorktree
  <1>9. CASE TransientFailure
    BY <1>9 DEF TransientFailure, AttemptAt
  <1>10. CASE InvocationFails
    BY <1>10 DEF InvocationFails
  <1>11. CASE InvocationSucceeds
    BY <1>11 DEF InvocationSucceeds
  <1>12. CASE SaveResult
    BY <1>12 DEF SaveResult
  <1>13. CASE Complete
    BY <1>13 DEF Complete
  <1>14. CASE Discover
    BY <1>14 DEF Discover
  <1>15. CASE Rerun
    BY <1>15 DEF Rerun, AttemptAt
  <1>16. CASE Escalate
    BY <1>16 DEF Escalate
  <1>17. CASE EscalateNode
    BY <1>17 DEF EscalateNode
  <1>18. CASE EscalateRun
    BY <1>18 DEF EscalateRun, Return
  <1>19. CASE Spawn
    BY <1>19 DEF Spawn
  <1>20. CASE Persist
    BY <1>20 DEF Persist
  <1>21. CASE PersistDuplicate
    BY <1>21 DEF PersistDuplicate
  <1>22. CASE EnterChild
    BY <1>22 DEF EnterChild
  <1>23. CASE Drain("drain", "increment")
    BY <1>23 DEF Drain
  <1>24. CASE Increment("increment", "check")
    BY <1>24 DEF Increment
  <1>25. CASE CheckPause
    BY <1>25 DEF CheckPause
  <1>26. CASE Drain("drainPause", "incrementPause")
    BY <1>26 DEF Drain
  <1>27. CASE Increment("incrementPause", "pause")
    BY <1>27 DEF Increment
  <1>28. CASE Pause
    BY <1>28 DEF Pause, Return
  <1>29. CASE UNCHANGED vars
    BY <1>29 DEF vars
  <1> QED
    BY <1>1, <1>2, <1>3, <1>4, <1>5, <1>6, <1>7, <1>8, <1>9, <1>10, <1>11, <1>12,
       <1>13, <1>14, <1>15, <1>16, <1>17, <1>18, <1>19, <1>20, <1>21, <1>22, <1>23,
       <1>24, <1>25, <1>26, <1>27, <1>28, <1>29
    DEF Next, DrainNode, DrainPause, Ended

\* In every reachable state, and so after a crash in any state, a node whose
\* row says COMPLETED has its result in node_results.
THEOREM ResultsAreDurable == Spec => []CompletedHasResult
  <1>1. Init => ResultFirst
    BY DEF Init, ResultFirst, CompletedHasResult
  <1>2. ResultFirst => CompletedHasResult
    BY DEF ResultFirst
  <1> QED BY <1>1, <1>2, NextResultFirst, TypeCorrect, PTL DEF Spec

-----------------------------------------------------------------------------
(* A halted run is quiet.                                                  *)

\* Every step keeps QuietInv.
LEMMA NextQuiet == QuietInv /\ [Next]_vars => QuietInv'
  <1> SUFFICES ASSUME QuietInv, [Next]_vars PROVE QuietInv'
    OBVIOUS
  <1> USE DEF QuietInv, Halted, control, attempt, rows, ledger, budget
  <1>1. CASE Start
    BY <1>1 DEF Start
  <1>2. CASE NextNode
    BY <1>2 DEF NextNode
  <1>3. CASE LoopEnd
    BY <1>3 DEF LoopEnd
  <1>4. CASE Finish
    BY <1>4 DEF Finish
  <1>5. CASE GateBlocked
    BY <1>5 DEF GateBlocked
  <1>6. CASE GateFail
    BY <1>6 DEF GateFail, Return
  <1>7. CASE Dispatch
    BY <1>7 DEF Dispatch, AttemptAt
  <1>8. CASE CreateWorktree
    BY <1>8 DEF CreateWorktree
  <1>9. CASE TransientFailure
    BY <1>9 DEF TransientFailure, AttemptAt
  <1>10. CASE InvocationFails
    BY <1>10 DEF InvocationFails
  <1>11. CASE InvocationSucceeds
    BY <1>11 DEF InvocationSucceeds
  <1>12. CASE SaveResult
    BY <1>12 DEF SaveResult
  <1>13. CASE Complete
    BY <1>13 DEF Complete
  <1>14. CASE Discover
    BY <1>14 DEF Discover
  <1>15. CASE Rerun
    BY <1>15 DEF Rerun, AttemptAt
  <1>16. CASE Escalate
    BY <1>16 DEF Escalate
  <1>17. CASE EscalateNode
    BY <1>17 DEF EscalateNode
  <1>18. CASE EscalateRun
    BY <1>18 DEF EscalateRun, Return
  <1>19. CASE Spawn
    BY <1>19 DEF Spawn
  <1>20. CASE Persist
    BY <1>20 DEF Persist
  <1>21. CASE PersistDuplicate
    BY <1>21 DEF PersistDuplicate
  <1>22. CASE EnterChild
    BY <1>22 DEF EnterChild
  <1>23. CASE Drain("drain", "increment")
    BY <1>23 DEF Drain
  <1>24. CASE Increment("increment", "check")
    BY <1>24 DEF Increment
  <1>25. CASE CheckPause
    BY <1>25 DEF CheckPause
  <1>26. CASE Drain("drainPause", "incrementPause")
    BY <1>26 DEF Drain
  <1>27. CASE Increment("incrementPause", "pause")
    BY <1>27 DEF Increment
  <1>28. CASE Pause
    BY <1>28 DEF Pause, Return
  <1>29. CASE UNCHANGED vars
    BY <1>29 DEF vars
  <1> QED
    BY <1>1, <1>2, <1>3, <1>4, <1>5, <1>6, <1>7, <1>8, <1>9, <1>10, <1>11, <1>12,
       <1>13, <1>14, <1>15, <1>16, <1>17, <1>18, <1>19, <1>20, <1>21, <1>22, <1>23,
       <1>24, <1>25, <1>26, <1>27, <1>28, <1>29
    DEF Next, DrainNode, DrainPause, Ended

\* A step from a halted run dispatches no node and persists none.
LEMMA QuietStep ==
    TypeInv /\ QuietInv /\ [Next]_vars =>
      [\A n \in Node : run \in Halted /\ status'[n] # status[n]
                          => status[n] # "absent" /\ status'[n] # "running"]_vars
  <1> SUFFICES ASSUME QuietInv, [Next]_vars, run \in Halted PROVE UNCHANGED status
    OBVIOUS
  <1> USE DEF QuietInv, control, attempt, rows, ledger, budget
  <1>1. CASE Start
    BY <1>1 DEF Start
  <1>2. CASE NextNode
    BY <1>2 DEF NextNode
  <1>3. CASE LoopEnd
    BY <1>3 DEF LoopEnd
  <1>4. CASE Finish
    BY <1>4 DEF Finish
  <1>5. CASE GateBlocked
    BY <1>5 DEF GateBlocked
  <1>6. CASE GateFail
    BY <1>6 DEF GateFail, Return
  <1>7. CASE Dispatch
    BY <1>7 DEF Dispatch, AttemptAt
  <1>8. CASE CreateWorktree
    BY <1>8 DEF CreateWorktree
  <1>9. CASE TransientFailure
    BY <1>9 DEF TransientFailure, AttemptAt
  <1>10. CASE InvocationFails
    BY <1>10 DEF InvocationFails
  <1>11. CASE InvocationSucceeds
    BY <1>11 DEF InvocationSucceeds
  <1>12. CASE SaveResult
    BY <1>12 DEF SaveResult
  <1>13. CASE Complete
    BY <1>13 DEF Complete
  <1>14. CASE Discover
    BY <1>14 DEF Discover
  <1>15. CASE Rerun
    BY <1>15 DEF Rerun, AttemptAt
  <1>16. CASE Escalate
    BY <1>16 DEF Escalate
  <1>17. CASE EscalateNode
    BY <1>17 DEF EscalateNode
  <1>18. CASE EscalateRun
    BY <1>18 DEF EscalateRun, Return
  <1>19. CASE Spawn
    BY <1>19 DEF Spawn
  <1>20. CASE Persist
    BY <1>20 DEF Persist
  <1>21. CASE PersistDuplicate
    BY <1>21 DEF PersistDuplicate
  <1>22. CASE EnterChild
    BY <1>22 DEF EnterChild
  <1>23. CASE Drain("drain", "increment")
    BY <1>23 DEF Drain
  <1>24. CASE Increment("increment", "check")
    BY <1>24 DEF Increment
  <1>25. CASE CheckPause
    BY <1>25 DEF CheckPause
  <1>26. CASE Drain("drainPause", "incrementPause")
    BY <1>26 DEF Drain
  <1>27. CASE Increment("incrementPause", "pause")
    BY <1>27 DEF Increment
  <1>28. CASE Pause
    BY <1>28 DEF Pause, Return
  <1>29. CASE UNCHANGED vars
    BY <1>29 DEF vars
  <1> QED
    BY <1>1, <1>2, <1>3, <1>4, <1>5, <1>6, <1>7, <1>8, <1>9, <1>10, <1>11, <1>12,
       <1>13, <1>14, <1>15, <1>16, <1>17, <1>18, <1>19, <1>20, <1>21, <1>22, <1>23,
       <1>24, <1>25, <1>26, <1>27, <1>28, <1>29
    DEF Next, DrainNode, DrainPause, Ended

\* However deep the frame that halted the run, none of the frames above it
\* dispatches or spawns anything on its way out.
THEOREM HaltedRunIsQuiet == Spec => HaltedIsQuiet
  <1>1. Init => QuietInv
    BY DEF Init, QuietInv, Halted
  <1> QED BY <1>1, NextQuiet, QuietStep, TypeCorrect, PTL DEF Spec, HaltedIsQuiet

-----------------------------------------------------------------------------
(* The books are settled when execute() returns.                           *)

\* Every step keeps FlushInv.
LEMMA NextFlush == TypeInv /\ FlushInv /\ [Next]_vars => FlushInv'
  <1> SUFFICES ASSUME TypeInv, FlushInv, [Next]_vars PROVE FlushInv'
    OBVIOUS
  <1> USE DEF FlushInv, LedgerLag, control, attempt, rows, ledger, budget
  <1>type. /\ depth \in Nat
           /\ {usageEvents, usdUsed, used, pendUsage, delta} \subseteq Nat
    BY DEF TypeInv, TypeOK, Levels
  <1>out. out.cost \in Nat
    BY DEF TypeInv, TypeOK
  <1>1. CASE Start
    BY <1>type, <1>1 DEF Start
  <1>2. CASE NextNode
    BY <1>type, <1>2 DEF NextNode
  <1>3. CASE LoopEnd
    BY <1>type, <1>3 DEF LoopEnd
  <1>4. CASE Finish
    BY <1>type, <1>4 DEF Finish
  <1>5. CASE GateBlocked
    BY <1>type, <1>5 DEF GateBlocked
  <1>6. CASE GateFail
    BY <1>type, <1>6 DEF GateFail, Return
  <1>7. CASE Dispatch
    BY <1>type, <1>7 DEF Dispatch, AttemptAt
  <1>8. CASE CreateWorktree
    BY <1>type, <1>8 DEF CreateWorktree
  <1>9. CASE TransientFailure
    BY <1>type, <1>9 DEF TransientFailure, AttemptAt
  <1>10. CASE InvocationFails
    BY <1>type, <1>10 DEF InvocationFails
  <1>11. CASE InvocationSucceeds
    BY <1>type, <1>11 DEF InvocationSucceeds
  <1>12. CASE SaveResult
    BY <1>type, <1>12 DEF SaveResult
  <1>13. CASE Complete
    BY <1>type, <1>out, <1>13 DEF Complete
  <1>14. CASE Discover
    BY <1>type, <1>14 DEF Discover
  <1>15. CASE Rerun
    BY <1>type, <1>15 DEF Rerun, AttemptAt
  <1>16. CASE Escalate
    BY <1>type, <1>16 DEF Escalate
  <1>17. CASE EscalateNode
    BY <1>type, <1>17 DEF EscalateNode
  <1>18. CASE EscalateRun
    BY <1>type, <1>18 DEF EscalateRun, Return
  <1>19. CASE Spawn
    BY <1>type, <1>19 DEF Spawn
  <1>20. CASE Persist
    BY <1>type, <1>20 DEF Persist
  <1>21. CASE PersistDuplicate
    BY <1>type, <1>21 DEF PersistDuplicate
  <1>22. CASE EnterChild
    BY <1>type, <1>22 DEF EnterChild
  <1>23. CASE Drain("drain", "increment")
    BY <1>type, <1>23 DEF Drain
  <1>24. CASE Increment("increment", "check")
    BY <1>type, <1>24 DEF Increment
  <1>25. CASE CheckPause
    BY <1>type, <1>25 DEF CheckPause
  <1>26. CASE Drain("drainPause", "incrementPause")
    BY <1>type, <1>26 DEF Drain
  <1>27. CASE Increment("incrementPause", "pause")
    BY <1>type, <1>27 DEF Increment
  <1>28. CASE Pause
    BY <1>type, <1>28 DEF Pause, Return
  <1>29. CASE UNCHANGED vars
    BY <1>type, <1>29 DEF vars
  <1> QED
    BY <1>type, <1>1, <1>2, <1>3, <1>4, <1>5, <1>6, <1>7, <1>8, <1>9, <1>10, <1>11, <1>12,
       <1>13, <1>14, <1>15, <1>16, <1>17, <1>18, <1>19, <1>20, <1>21, <1>22, <1>23,
       <1>24, <1>25, <1>26, <1>27, <1>28, <1>29
    DEF Next, DrainNode, DrainPause, Ended

\* On return usd_used, the USAGE events and the BudgetManager agree, although
\* a Plan's own cost waits unflushed for as long as its child DAG runs.
THEOREM UsageIsFlushed == Spec => []UsageFlushed /\ []LedgerLag
  <1>1. Init => FlushInv
    BY DEF Init, FlushInv, LedgerLag
  <1>2. TypeInv /\ FlushInv => UsageFlushed /\ LedgerLag
    BY DEF TypeInv, TypeOK, FlushInv, UsageFlushed, LedgerLag
  <1> QED BY <1>1, <1>2, NextFlush, TypeCorrect, PTL DEF Spec

-----------------------------------------------------------------------------
(* COMPLETED means that everything is done.                                *)

\* Every step keeps Coverage.
LEMMA NextCoverage == TypeInv /\ Coverage /\ [Next]_vars => Coverage'
  <1> SUFFICES ASSUME TypeInv, Coverage, [Next]_vars PROVE Coverage'
    OBVIOUS
  <1> USE DEF TypeInv, TypeOK, SpawnDepth, Levels, Coverage, Outstanding, AtNode,
          Persisted, Here, Halted, control, attempt, rows, ledger, budget
  <1>1. CASE Start
    BY <1>1 DEF Start
  <1>2. CASE NextNode
    BY <1>2 DEF NextNode
  <1>3. CASE LoopEnd
    <2>1. /\ pc = "loop"
          /\ run = "running" => todo[depth] = {}
          /\ UNCHANGED <<todo, run, status>>
          /\ \/ depth = 0 /\ depth' = 0 /\ pc' = "finish"
             \/ depth # 0 /\ depth' = depth - 1 /\ pc' = "drain"
      BY <1>3 DEF LoopEnd
    <2>2. ASSUME run = "running", NEW n \in Persisted, status[n] # "completed"
          PROVE  \E d \in 0 .. depth' : n \in todo[d]
      <3>1. PICK d \in 0 .. depth : n \in todo[d]
        BY <2>1, <2>2
      <3>2. d # depth
        BY <2>1, <2>2, <3>1
      <3> QED BY <2>1, <3>1, <3>2
    <2> QED BY <2>1, <2>2
  <1>4. CASE Finish
    BY <1>4 DEF Finish
  <1>5. CASE GateBlocked
    BY <1>5 DEF GateBlocked
  <1>6. CASE GateFail
    BY <1>6 DEF GateFail, Return
  <1>7. CASE Dispatch
    BY <1>7 DEF Dispatch, AttemptAt
  <1>8. CASE CreateWorktree
    BY <1>8 DEF CreateWorktree
  <1>9. CASE TransientFailure
    BY <1>9 DEF TransientFailure, AttemptAt
  <1>10. CASE InvocationFails
    BY <1>10 DEF InvocationFails
  <1>11. CASE InvocationSucceeds
    BY <1>11 DEF InvocationSucceeds
  <1>12. CASE SaveResult
    BY <1>12 DEF SaveResult
  <1>13. CASE Complete
    BY <1>13 DEF Complete
  <1>14. CASE Discover
    BY <1>14 DEF Discover
  <1>15. CASE Rerun
    BY <1>15 DEF Rerun, AttemptAt
  <1>16. CASE Escalate
    BY <1>16 DEF Escalate
  <1>17. CASE EscalateNode
    BY <1>17 DEF EscalateNode
  <1>18. CASE EscalateRun
    BY <1>18 DEF EscalateRun, Return
  <1>19. CASE Spawn
    BY <1>19 DEF Spawn
  <1>20. CASE Persist
    BY <1>20 DEF Persist
  <1>21. CASE PersistDuplicate
    BY <1>21 DEF PersistDuplicate
  <1>22. CASE EnterChild
    <2> DEFINE child == ChildNodes(depth + 1, spec[depth + 1])
    <2>1. /\ pc = "allocate" /\ depth < MaxLevel /\ depth \in Nat
          /\ pc' = "raised" \/ (/\ pc' = "loop"
                               /\ depth' = depth + 1
                               /\ todo' = [todo EXCEPT ![depth + 1] = child])
          /\ UNCHANGED <<run, status>>
      BY <1>22 DEF EnterChild
    <2>2. CASE pc' = "raised"
      BY <2>1, <2>2
    <2>3. CASE pc' # "raised"
      <3>1. ASSUME run = "running", NEW n \in Persisted
            PROVE  status[n] = "completed" \/ \E d \in 0 .. depth' : n \in todo'[d]
        <4>1. status[n] = "completed" \/ (\E d \in 0 .. depth : n \in todo[d]) \/ n \in child
          BY <2>1, <3>1
        <4> HIDE DEF child, Coverage
        <4>2. depth + 1 \in 0 .. depth' /\ todo'[depth + 1] = child
          BY <2>1, <2>3, ConstantsAssumption
        <4>3. ASSUME NEW d \in 0 .. depth, n \in todo[d]
              PROVE  d \in 0 .. depth' /\ n \in todo'[d]
          <5>1. d \in 0 .. MaxLevel /\ d # depth + 1
            BY <2>1, ConstantsAssumption
          <5>2. todo'[d] = todo[d]
            BY <2>1, <2>3, <5>1
          <5>3. depth' = depth + 1 /\ depth \in Nat /\ d \in 0 .. depth
            BY <2>1, <2>3
          <5>4. d \in 0 .. depth'
            BY ONLY <5>3, SMT
          <5> QED BY <4>3, <5>2, <5>4
        <4> QED BY <4>1, <4>2, <4>3
      <3> HIDE DEF child
      <3> QED BY <2>1, <2>3, <3>1
    <2> QED BY <2>2, <2>3
  <1>23. CASE Drain("drain", "increment")
    BY <1>23 DEF Drain
  <1>24. CASE Increment("increment", "check")
    BY <1>24 DEF Increment
  <1>25. CASE CheckPause
    BY <1>25 DEF CheckPause
  <1>26. CASE Drain("drainPause", "incrementPause")
    BY <1>26 DEF Drain
  <1>27. CASE Increment("incrementPause", "pause")
    BY <1>27 DEF Increment
  <1>28. CASE Pause
    BY <1>28 DEF Pause, Return
  <1>29. CASE UNCHANGED vars
    BY <1>29 DEF vars
  <1> QED
    BY <1>1, <1>2, <1>3, <1>4, <1>5, <1>6, <1>7, <1>8, <1>9, <1>10, <1>11, <1>12,
       <1>13, <1>14, <1>15, <1>16, <1>17, <1>18, <1>19, <1>20, <1>21, <1>22, <1>23,
       <1>24, <1>25, <1>26, <1>27, <1>28, <1>29
    DEF Next, DrainNode, DrainPause, Ended

\* A run is marked COMPLETED only when every node persisted for it, at every
\* nesting level, is COMPLETED with its result stored.
THEOREM CompletedRunIsDone == Spec => []CompletedMeansAllDone
  <1>1. Init => Coverage
    BY DEF Init, Coverage, Persisted
  <1>2. Coverage /\ CompletedHasResult => CompletedMeansAllDone
    BY DEF Coverage, CompletedHasResult, CompletedMeansAllDone, Persisted
  <1> QED BY <1>1, <1>2, NextCoverage, ResultsAreDurable, TypeCorrect, PTL DEF Spec

\* The inductive strengthening that carries the theorems above is itself an
\* invariant; ExecutorOrderProofs builds on it.
THEOREM IInvHolds == Spec => []IInv
  <1>1. Init => Coverage /\ ResultFirst /\ FlushInv /\ QuietInv
    BY DEF Init, Coverage, Persisted, ResultFirst, CompletedHasResult, FlushInv,
           LedgerLag, QuietInv, Halted
  <1>2. TypeInv /\ Coverage /\ ResultFirst /\ FlushInv /\ QuietInv => IInv
    BY DEF TypeInv, IInv
  <1> QED BY <1>1, <1>2, NextCoverage, NextResultFirst, NextFlush, NextQuiet,
             TypeCorrect, PTL DEF Spec
=============================================================================
