------------------------- MODULE ExecutorOrderProofs -------------------------
(***************************************************************************)
(* Theorems about the order in which Executor does things: what is there   *)
(* when a node is dispatched, and that the executor implements DagRun.     *)
(* They rest on the shape of the call stack (SpecInv .. LateInv).          *)
(***************************************************************************)
EXTENDS ExecutorProofs

-----------------------------------------------------------------------------
(* Lemmas about nodes and frames.                                          *)

\* The constructors give nodes, different ones for different arguments.
LEMMA NodeType ==
    ASSUME NEW l \in Levels
    PROVE  /\ Plan(l) \in Node
           /\ \A c \in Comps : Coding(l, c) \in Node /\ Review(l, c) \in Node
  BY DEF Plan, Coding, Review, Node

\* A frame of a DAG of composites holds the nodes of its level, and of these only
\* one is a Plan.
LEMMA FrameLevel ==
    ASSUME TypeInv, UseComposites, NEW d \in 0 .. depth, NEW n \in FrameNodes(d)
    PROVE  n.level = d /\ (n.kind = "plan" => n = Plan(d))
  <1>1. d \in Levels
    BY ConstantsAssumption DEF TypeInv, TypeOK, Levels
  <1>2. CASE d = 0
    BY <1>2 DEF FrameNodes, TopNodes, Plan
  <1>3. CASE d # 0
    <2>1. n \in ChildNodes(d, spec[d])
      BY <1>3 DEF FrameNodes
    <2> QED BY <2>1 DEF ChildNodes, Plan, Coding, Review
  <1> QED BY <1>2, <1>3

\* What a frame is given are nodes.
LEMMA FrameType ==
    ASSUME TypeInv, NEW d \in Levels
    PROVE  FrameNodes(d) \subseteq Node
  <1>1. spec[d] \in SpecType
    BY DEF TypeInv, TypeOK
  <1> QED BY <1>1, TopNodesType, ChildNodesType DEF FrameNodes

\* The parents of a node of a frame are in the frame, but for the Plan that the
\* frame below waits at.
LEMMA ParentsInFrame ==
    ASSUME TypeInv, SpecInv, NEW d \in 0 .. depth, NEW n \in FrameNodes(d), NEW p \in Parents(n)
    PROVE  p \in FrameNodes(d) \/ (d > 0 /\ p = Plan(d - 1))
  <1>1. d \in Levels /\ spec[d] \in SpecType
    BY ConstantsAssumption DEF TypeInv, TypeOK, Levels
  <1>2. ASSUME NEW l \in Levels, spec[l] \in SpecType, n \in ChildNodes(l, spec[l])
        PROVE  p \in ChildNodes(l, spec[l]) \/ p = Plan(l - 1)
    <2>1. spec[l].edges \subseteq spec[l].comps \X spec[l].comps
      BY DEF SpecInv
    <2>2. CASE n = Plan(l)
      <3>1. n.kind = "plan" /\ n.level = l
        BY <2>2 DEF Plan
      <3>2. \E c \in spec[l].comps : p = Review(l, c)
        BY <3>1 DEF Parents
      <3> QED BY <3>2 DEF ChildNodes
    <2>3. CASE \E c \in spec[l].comps : n = Coding(l, c)
      <3>1. PICK c \in spec[l].comps : n = Coding(l, c)
        BY <2>3
      <3>2. n.kind = "coding" /\ n.level = l /\ n.comp = c
        BY <3>1 DEF Coding
      <3>3. p = Plan(l - 1) \/ \E b \in Comps : <<b, c>> \in spec[l].edges /\ p = Review(l, b)
        BY <3>2 DEF Parents
      <3> QED BY <3>3, <2>1 DEF ChildNodes
    <2>4. CASE \E c \in spec[l].comps : n = Review(l, c)
      <3>1. PICK c \in spec[l].comps : n = Review(l, c)
        BY <2>4
      <3>2. n.kind = "review" /\ n.level = l /\ n.comp = c
        BY <3>1 DEF Review
      <3>3. p = Coding(l, c)
        BY <3>2 DEF Parents
      <3> QED BY <3>3 DEF ChildNodes
    <2> QED BY <1>2, <2>2, <2>3, <2>4 DEF ChildNodes
  <1>3. CASE d # 0
    BY <1>1, <1>2, <1>3 DEF FrameNodes
  <1>4. CASE d = 0
    <2>1. ASSUME n = Plan(0) PROVE FALSE
      <3>1. n.kind = "plan" /\ n.level = 0
        BY <2>1 DEF Plan
      <3>2. spec[0].comps = {}
        BY DEF SpecInv, NoSpec
      <3> QED BY <3>1, <3>2 DEF Parents
    <2>2. ~UseComposites /\ n \in ChildNodes(1, StubSpec)
      BY <1>4, <2>1 DEF FrameNodes, TopNodes
    <2>3. spec[1] = StubSpec /\ 1 \in Levels
      BY <2>2, ConstantsAssumption DEF SpecInv, Levels
    <2>4. spec[1] \in SpecType
      BY <2>2, <2>3, TopNodesType
    <2>5. p \in ChildNodes(1, StubSpec) \/ p = Plan(0)
      BY <1>2, <2>2, <2>3, <2>4
    <2> QED BY <1>4, <2>2, <2>5 DEF FrameNodes, TopNodes
  <1> QED BY <1>3, <1>4

\* A node is only in hand while the run is RUNNING.
LEMMA InNodeRuns ==
    ASSUME TypeInv, Coverage, QuietInv, pc \in (InNode \ {"gateFail", "escalateRun"}) \union {"loop"}, run \notin Halted
    PROVE  run = "running"
  BY DEF TypeInv, TypeOK, Coverage, InNode, AtNode, Spawning

-----------------------------------------------------------------------------
(* The shape of the stack.                                                 *)

\* Every step keeps SpecInv.
LEMMA NextSpec == TypeInv /\ SpecInv /\ [Next]_vars => SpecInv'
  <1> SUFFICES ASSUME TypeInv, SpecInv, [Next]_vars PROVE SpecInv'
    OBVIOUS
  <1> USE DEF SpecInv, Spawning, Here, control, attempt, rows, ledger, budget
  <1>1. CASE Start
    BY <1>1, ConstantsAssumption DEF Start, TypeInv, TypeOK
  <1>2. CASE NextNode
    BY <1>2 DEF NextNode
  <1>3. CASE LoopEnd
    BY <1>3 DEF LoopEnd
  <1>4. CASE Finish
    BY <1>4 DEF Finish
  <1>5. CASE GateBlocked
    BY <1>5 DEF GateBlocked
  <1>6. CASE GateFail
    BY <1>6 DEF GateFail, Return
  <1>7. CASE Dispatch
    BY <1>7 DEF Dispatch, AttemptAt
  <1>8. CASE CreateWorktree
    BY <1>8 DEF CreateWorktree
  <1>9. CASE TransientFailure
    BY <1>9 DEF TransientFailure, AttemptAt
  <1>10. CASE InvocationFails
    BY <1>10 DEF InvocationFails
  <1>11. CASE InvocationSucceeds
    <2>1. out'.child \in ChildSpecs \union {NoSpec} /\ (out'.child # NoSpec => Here.kind = "plan")
      BY <1>11 DEF InvocationSucceeds, Outcomes
    <2>2. pc' = "save" /\ UNCHANGED <<depth, cur, spec>>
      BY <1>11 DEF InvocationSucceeds
    <2> QED BY <2>1, <2>2
  <1>12. CASE SaveResult
    BY <1>12 DEF SaveResult
  <1>13. CASE Complete
    BY <1>13 DEF Complete
  <1>14. CASE Discover
    BY <1>14 DEF Discover
  <1>15. CASE Rerun
    BY <1>15 DEF Rerun, AttemptAt
  <1>16. CASE Escalate
    BY <1>16 DEF Escalate
  <1>17. CASE EscalateNode
    BY <1>17 DEF EscalateNode
  <1>18. CASE EscalateRun
    BY <1>18 DEF EscalateRun, Return
  <1>19. CASE Spawn
    <2>1. /\ pc' \in {"persist", "raised"} /\ UNCHANGED <<depth, cur, out>>
          /\ \/ UNCHANGED spec
             \/ depth + 1 # 0 /\ out.child.valid /\ spec' = [spec EXCEPT ![depth + 1] = out.child]
      BY <1>19 DEF Spawn, TypeInv, TypeOK, Levels
    <2>2. out.child \in ChildSpecs /\ UseComposites
      BY <1>19, ConstantsAssumption DEF Spawn
    <2>3. out.child.valid => out.child.edges \subseteq out.child.comps \X out.child.comps
      BY <2>2, ConstantsAssumption
    <2>4. spec \in [Levels -> SpecType] /\ 0 \in Levels
      BY ConstantsAssumption DEF TypeInv, TypeOK, Levels
    <2>5. \A l \in Levels : spec'[l] = spec[l] \/ (spec'[l] = out.child /\ out.child.valid)
      BY <2>1, <2>4
    <2> QED BY <2>1, <2>2, <2>3, <2>4, <2>5, <1>19 DEF Spawn
  <1>20. CASE Persist
    BY <1>20 DEF Persist
  <1>21. CASE PersistDuplicate
    BY <1>21 DEF PersistDuplicate
  <1>22. CASE EnterChild
    BY <1>22, ConstantsAssumption DEF EnterChild, NoOutcome
  <1>23. CASE Drain("drain", "increment")
    BY <1>23 DEF Drain, NoOutcome
  <1>24. CASE Increment("increment", "check")
    BY <1>24 DEF Increment
  <1>25. CASE CheckPause
    BY <1>25 DEF CheckPause
  <1>26. CASE Drain("drainPause", "incrementPause")
    BY <1>26 DEF Drain, NoOutcome
  <1>27. CASE Increment("incrementPause", "pause")
    BY <1>27 DEF Increment
  <1>28. CASE Pause
    BY <1>28 DEF Pause, Return
  <1>29. CASE UNCHANGED vars
    BY <1>29 DEF vars
  <1> QED
    BY <1>1, <1>2, <1>3, <1>4, <1>5, <1>6, <1>7, <1>8, <1>9, <1>10, <1>11, <1>12,
       <1>13, <1>14, <1>15, <1>16, <1>17, <1>18, <1>19, <1>20, <1>21, <1>22, <1>23,
       <1>24, <1>25, <1>26, <1>27, <1>28, <1>29
    DEF Next, DrainNode, DrainPause, Ended

\* A step that moves no frame and no row keeps StackInv.
LEMMA StackStill ==
    ASSUME StackInv, UNCHANGED <<depth, todo, cur, spec, status>>,
           pc' \in InNode => pc \in InNode, pc' \in {"start", "allocate"} => pc' = pc
    PROVE  StackInv'
  <1>1. \A d : FrameNodes(d)' = FrameNodes(d)
    BY DEF FrameNodes
  <1>2. Here' = Here /\ Persisted' = Persisted
    BY DEF Here, Persisted
  <1> QED BY <1>1, <1>2 DEF StackInv

\* So does a step that gives the current node another status.
LEMMA StackHere ==
    ASSUME TypeInv, SpecInv, StackInv, UNCHANGED <<depth, todo, cur, spec>>,
           pc \in InNode, pc' \notin {"start", "allocate"},
           NEW s \in {"running", "completed", "failed"}, status' = [status EXCEPT ![Here] = s]
    PROVE  StackInv'
  <1>1. \A d : FrameNodes(d)' = FrameNodes(d)
    BY DEF FrameNodes
  <1>2. Here' = Here /\ Here \in Node /\ status \in [Node -> {"absent", "pending", "running", "completed", "failed"}]
    BY DEF Here, TypeInv, TypeOK
  <1>3. depth \in Nat /\ \A d \in 0 .. depth : d \in Levels /\ FrameNodes(d) \subseteq Node
    BY FrameType, ConstantsAssumption DEF TypeInv, TypeOK, Levels
  <1>4. Here \in FrameNodes(depth) /\ Here \notin todo[depth]
    BY DEF StackInv
  <1>5. ASSUME NEW d \in 0 .. depth - 1 PROVE Here \notin FrameNodes(d)
    <2>1. UseComposites
      BY <1>3, <1>5 DEF SpecInv
    <2>2. depth \in 0 .. depth /\ d \in 0 .. depth /\ d # depth
      BY <1>3
    <2> QED BY <2>1, <2>2, <1>4, FrameLevel
  <1>6. ASSUME NEW d \in 0 .. depth PROVE Here \notin todo[d]
    BY <1>3, <1>4, <1>5 DEF StackInv
  <1>7. ASSUME NEW d \in 0 .. depth - 1 PROVE Here # Plan(d)
    <2>1. UseComposites
      BY <1>3, <1>7 DEF SpecInv
    <2>2. Here.level = depth /\ d # depth
      BY <2>1, <1>3, <1>4, FrameLevel
    <2> QED BY <2>2 DEF Plan
  <1>8. \A n \in Node : n # Here => status'[n] = status[n]
    BY <1>2
  <1>9. status'[Here] = s /\ status[Here] # "absent"
    BY <1>2, <1>3, <1>4 DEF StackInv, Persisted
  <1>10. Persisted' = Persisted
    BY <1>8, <1>9 DEF Persisted
  <1>11. \A d \in 0 .. depth :
          /\ todo[d] \subseteq FrameNodes(d) /\ FrameNodes(d) \subseteq Persisted
          /\ \A n \in todo[d] : status'[n] = "pending"
    BY <1>3, <1>6, <1>8 DEF StackInv
  <1>12. \A d \in 0 .. depth - 1 :
          cur[d] = Plan(d) /\ Plan(d) \notin todo[d] /\ status'[Plan(d)] = "completed"
    <2>1. \A d \in 0 .. depth - 1 : Plan(d) \in Node
      BY <1>3, NodeType
    <2> QED BY <2>1, <1>7, <1>8 DEF StackInv
  <1>13. \A l \in Levels, c \in Comps :
          status'[Coding(l, c)] = "absent" => status'[Review(l, c)] = "absent"
    BY <1>8, <1>9, NodeType DEF StackInv
  <1> QED BY <1>1, <1>2, <1>4, <1>10, <1>11, <1>12, <1>13 DEF StackInv

\* So does the end of a frame.
LEMMA StackPop ==
    ASSUME TypeInv, StackInv, UNCHANGED <<todo, cur, spec, status>>,
           depth' = depth \/ (depth # 0 /\ depth' = depth - 1), pc' \notin InNode \union {"start"}
    PROVE  StackInv'
  <1>1. \A d : FrameNodes(d)' = FrameNodes(d)
    BY DEF FrameNodes
  <1>2. Persisted' = Persisted
    BY DEF Persisted
  <1>3. depth \in Nat /\ pc' # "allocate"
    BY DEF TypeInv, TypeOK, Levels, InNode, Spawning
  <1>4. \A d \in 0 .. depth' : d \in 0 .. depth
    BY <1>3
  <1>5. \A d \in 0 .. depth' - 1 : d \in 0 .. depth - 1
    <2>1. CASE depth' = depth
      BY <2>1
    <2>2. CASE depth # 0 /\ depth' = depth - 1
      <3>1. 0 .. depth' - 1 = 0 .. depth - 1 - 1 /\ depth - 1 - 1 <= depth - 1
        BY <2>2, <1>3
      <3> QED BY <3>1, <2>2, <1>3
    <2> QED BY <2>1, <2>2
  <1> QED BY <1>1, <1>2, <1>3, <1>4, <1>5 DEF StackInv

\* Every step keeps StackInv.
LEMMA NextStack ==
    TypeInv /\ SpecInv /\ StackInv /\ CurrentInv /\ FreshInv /\ [Next]_vars => StackInv'
  <1> SUFFICES ASSUME TypeInv, SpecInv, StackInv, CurrentInv, FreshInv, [Next]_vars PROVE StackInv'
    OBVIOUS
  <1> USE DEF control, attempt, rows, ledger, budget
  <1>pc. /\ InNode = {"gate", "gateFail", "worktree", "invoke", "save", "complete", "failed",
                      "escalateNode", "escalateRun", "spawn", "persist", "allocate", "discover"}
         /\ depth \in Nat /\ depth \in Levels
    BY DEF InNode, AtNode, Spawning, TypeInv, TypeOK, Levels
  <1>type. /\ status \in [Node -> {"absent", "pending", "running", "completed", "failed"}]
           /\ todo \in [Levels -> SUBSET Node] /\ cur \in [Levels -> Node]
           /\ \A d \in 0 .. depth : d \in Levels
    BY ConstantsAssumption DEF TypeInv, TypeOK, Levels
  <1>1. CASE Start
    <2>1. /\ pc = "start" /\ depth = 0 /\ todo' = [todo EXCEPT ![0] = TopNodes] /\ pc' = "loop"
          /\ UNCHANGED <<depth, cur, spec, status>>
      BY <1>1 DEF Start, StackInv
    <2>2. todo'[0] = TopNodes /\ FrameNodes(0) = TopNodes
      BY <2>1, <1>type DEF FrameNodes
    <2>3. \A d : FrameNodes(d)' = FrameNodes(d)
      BY <2>1 DEF FrameNodes
    <2>4. Persisted' = Persisted
      BY <2>1 DEF Persisted
    <2> QED BY <1>pc, <2>1, <2>2, <2>3, <2>4 DEF StackInv
  <1>2. CASE NextNode
    <2>1. PICK n \in todo[depth] :
              /\ cur' = [cur EXCEPT ![depth] = n]
              /\ todo' = [todo EXCEPT ![depth] = @ \ {n}]
      BY <1>2 DEF NextNode
    <2>2. pc' = "gate" /\ UNCHANGED <<depth, spec, status>>
      BY <1>2 DEF NextNode
    <2>3. Here' = n /\ todo'[depth] = todo[depth] \ {n}
      BY <2>1, <2>2, <1>pc, <1>type DEF Here
    <2>4. \A d \in 0 .. depth - 1 : cur'[d] = cur[d] /\ todo'[d] = todo[d]
      BY <2>1, <1>type
    <2>5. \A d \in 0 .. depth : todo'[d] \subseteq todo[d]
      BY <2>1, <1>type
    <2>6. \A d : FrameNodes(d)' = FrameNodes(d)
      BY <2>2 DEF FrameNodes
    <2>7. Persisted' = Persisted
      BY <2>2 DEF Persisted
    <2>8. n \in FrameNodes(depth)
      BY <1>pc, <2>1 DEF StackInv
    <2> QED BY <2>2, <2>3, <2>4, <2>5, <2>6, <2>7, <2>8 DEF StackInv
  <1>3. CASE LoopEnd
    BY <1>3, <1>pc, StackPop DEF LoopEnd
  <1>4. CASE Finish
    BY <1>4, <1>pc, StackStill DEF Finish
  <1>5. CASE GateBlocked
    BY <1>5, <1>pc, StackHere DEF GateBlocked
  <1>6. CASE GateFail
    BY <1>6, <1>pc, StackPop DEF GateFail, Return
  <1>7. CASE Dispatch
    BY <1>7, <1>pc, StackHere DEF Dispatch, AttemptAt
  <1>8. CASE CreateWorktree
    BY <1>8, <1>pc, StackStill DEF CreateWorktree
  <1>9. CASE TransientFailure
    BY <1>9, <1>pc, StackStill DEF TransientFailure, AttemptAt
  <1>10. CASE InvocationFails
    BY <1>10, <1>pc, StackStill DEF InvocationFails
  <1>11. CASE InvocationSucceeds
    BY <1>11, <1>pc, StackStill DEF InvocationSucceeds
  <1>12. CASE SaveResult
    BY <1>12, <1>pc, StackStill DEF SaveResult
  <1>13. CASE Complete
    BY <1>13, <1>pc, StackHere DEF Complete
  <1>14. CASE Discover
    BY <1>14, <1>pc, StackStill DEF Discover
  <1>15. CASE Rerun
    BY <1>15, <1>pc, StackStill DEF Rerun, AttemptAt
  <1>16. CASE Escalate
    BY <1>16, <1>pc, StackStill DEF Escalate
  <1>17. CASE EscalateNode
    BY <1>17, <1>pc, StackHere DEF EscalateNode
  <1>18. CASE EscalateRun
    BY <1>18, <1>pc, StackPop DEF EscalateRun, Return
  <1>19. CASE Spawn
    <2>1. CASE pc' = "raised"
      BY <1>19, <1>pc, <2>1, StackStill DEF Spawn
    <2>2. CASE pc' # "raised"
      <3>1. /\ pc = "spawn" /\ pc' = "persist" /\ UNCHANGED <<depth, todo, cur, status>>
            /\ spec' = [spec EXCEPT ![depth + 1] = out.child]
        BY <1>19, <2>2 DEF Spawn
      <3>2. \A d \in 0 .. depth : d # depth + 1
        BY <1>pc
      <3>3. \A d \in 0 .. depth : FrameNodes(d)' = FrameNodes(d)
        BY <3>1, <3>2, <1>type DEF FrameNodes, TypeInv, TypeOK
      <3>4. Persisted' = Persisted /\ Here' = Here
        BY <3>1 DEF Persisted, Here
      <3>5. depth \in 0 .. depth
        BY <1>pc
      <3> QED BY <1>pc, <3>1, <3>3, <3>4, <3>5 DEF StackInv
    <2> QED BY <2>1, <2>2
  <1>20. CASE Persist
    <2> DEFINE l == depth + 1
    <2>1. PICK n \in ChildNodes(l, spec[l]) :
             /\ status[n] = "absent" /\ Ready(l, n)
             /\ status' = [status EXCEPT ![n] = "pending"]
             /\ pc' = IF n.kind = "plan" THEN "allocate" ELSE "persist"
      BY <1>20 DEF Persist
    <2>2. pc = "persist" /\ UNCHANGED <<depth, todo, cur, spec>>
      BY <1>20 DEF Persist
    <2>3. l \in Levels /\ spec[l] \in SpecType
      BY <2>2, ConstantsAssumption DEF TypeInv, TypeOK, SpawnDepth, Levels
    <2>4. n \in Node /\ spec[l].comps \subseteq Comps
      BY <2>3, ChildNodesType DEF SpecType
    <2> HIDE DEF l
    <2>5. status'[n] = "pending" /\ \A m \in Node : m # n => status'[m] = status[m]
      BY <2>1, <2>4, <1>type
    <2>6. Persisted \subseteq Persisted' /\ \A m \in Node : status'[m] = "absent" => status[m] = "absent"
      BY <2>5 DEF Persisted
    <2>7. \A d : FrameNodes(d)' = FrameNodes(d)
      BY <2>2 DEF FrameNodes
    <2>8. \A d \in 0 .. depth : FrameNodes(d) \subseteq Node /\ Plan(d) \in Node
      BY <1>type, FrameType, NodeType
    <2>9. \A d \in 0 .. depth :
             /\ todo[d] \subseteq FrameNodes(d) /\ FrameNodes(d) \subseteq Persisted'
             /\ \A m \in todo[d] : status'[m] = "pending"
      BY <2>1, <2>5, <2>6, <2>8 DEF StackInv
    <2>10. \A d \in 0 .. depth - 1 :
              cur[d] = Plan(d) /\ Plan(d) \notin todo[d] /\ status'[Plan(d)] = "completed"
      BY <2>1, <2>5, <2>8 DEF StackInv
    <2>11. ASSUME NEW k \in Levels, NEW c \in Comps, status'[Coding(k, c)] = "absent"
           PROVE  status'[Review(k, c)] = "absent"
      <3>1. status[Coding(k, c)] = "absent" /\ status[Review(k, c)] = "absent"
        BY <2>6, <2>11, NodeType DEF StackInv
      <3>2. ASSUME n = Review(k, c) PROVE FALSE
        <4>1. n.kind = "review" /\ n.level = k /\ n.comp = c
          BY <3>2 DEF Review
        <4>2. k = l
          BY <4>1 DEF ChildNodes, Plan, Coding, Review
        <4> QED BY <2>1, <3>1, <4>1, <4>2 DEF Ready
      <3> QED BY <2>5, <3>1, <3>2, NodeType
    <2>12. ASSUME pc' = "allocate" PROVE ChildNodes(l, spec[l]) \subseteq Persisted'
      <3>1. n.kind = "plan" /\ n = Plan(l)
        BY <2>1, <2>12 DEF ChildNodes, Plan, Coding, Review
      <3>2. \A b \in spec[l].comps : status[Review(l, b)] # "absent"
        BY <2>1, <3>1 DEF Ready
      <3>3. \A b \in spec[l].comps : status[Coding(l, b)] # "absent"
        BY <2>3, <2>4, <3>2 DEF StackInv
      <3>4. \A b \in spec[l].comps : Coding(l, b) \in Persisted' /\ Review(l, b) \in Persisted'
        BY <2>3, <2>4, <2>6, <3>2, <3>3, NodeType DEF Persisted
      <3>5. n \in Persisted'
        BY <2>4, <2>5 DEF Persisted
      <3> QED BY <3>1, <3>4, <3>5 DEF ChildNodes
    <2>13. Here' = Here /\ Here \in FrameNodes(depth) /\ Here \notin todo[depth]
      BY <2>2, <1>pc DEF Here, StackInv
    <2>14. pc' # "start" /\ l = depth + 1
      BY <2>1 DEF l
    <2> QED BY <2>2, <2>7, <2>9, <2>10, <2>11, <2>12, <2>13, <2>14 DEF StackInv
  <1>21. CASE PersistDuplicate
    BY <1>21, <1>pc, StackStill DEF PersistDuplicate
  <1>22. CASE EnterChild
    <2>1. CASE pc' = "raised"
      BY <1>22, <1>pc, <2>1, StackStill DEF EnterChild
    <2>2. CASE pc' # "raised"
      <3> DEFINE l == depth + 1
      <3>1. /\ pc = "allocate" /\ pc' = "loop" /\ depth' = l
            /\ todo' = [todo EXCEPT ![l] = ChildNodes(l, spec[l])] /\ UNCHANGED <<cur, spec, status>>
        BY <1>22, <2>2 DEF EnterChild
      <3>2. l \in Levels /\ l # 0 /\ l - 1 = depth
        BY <3>1, ConstantsAssumption DEF TypeInv, TypeOK, SpawnDepth, Levels
      <3>3. UseComposites
        BY <3>1, ConstantsAssumption DEF SpecInv, Spawning
      <3>4. Here \in FrameNodes(depth) /\ Here.kind = "plan" /\ status[Here] = "completed"
        BY <3>1, <1>pc DEF StackInv, SpecInv, CurrentInv, Spawning
      <3>5. cur[depth] = Plan(depth) /\ Plan(depth) \notin todo[depth]
        BY <3>1, <3>3, <3>4, <1>pc, FrameLevel DEF Here, StackInv
      <3>6. FrameNodes(l) = ChildNodes(l, spec[l])
        BY <3>2 DEF FrameNodes
      <3>7. ASSUME NEW n \in ChildNodes(l, spec[l]) PROVE n \in Persisted /\ status[n] = "pending"
        <4>1. n.level = l /\ n \in Node
          BY <3>2, ChildNodesType DEF ChildNodes, Plan, Coding, Review, TypeInv, TypeOK
        <4>2. n \in Persisted
          BY <3>1 DEF StackInv
        <4>3. status[n] \in {"absent", "pending"}
          BY <3>1, <3>3, <4>1 DEF FreshInv
        <4> QED BY <4>1, <4>2, <4>3 DEF Persisted
      <3> HIDE DEF l
      <3>8. todo'[l] = FrameNodes(l) /\ \A d \in 0 .. depth : todo'[d] = todo[d]
        <4>1. \A d \in 0 .. depth : d # l
          BY <3>2
        <4> QED BY <3>1, <3>2, <3>6, <4>1, <1>type
      <3>9. \A d \in 0 .. l : d = l \/ d \in 0 .. depth
        BY <3>2, <1>pc
      <3>10. \A d \in 0 .. l - 1 : d = depth \/ d \in 0 .. depth - 1
        BY <3>2, <1>pc
      <3>11. \A d : FrameNodes(d)' = FrameNodes(d)
        BY <3>1 DEF FrameNodes
      <3>12. Persisted' = Persisted
        BY <3>1 DEF Persisted
      <3>13. \A d \in 0 .. l :
               /\ todo'[d] \subseteq FrameNodes(d) /\ FrameNodes(d) \subseteq Persisted
               /\ \A n \in todo'[d] : status[n] = "pending"
        BY <3>6, <3>7, <3>8, <3>9 DEF StackInv
      <3>14. \A d \in 0 .. l - 1 :
               cur[d] = Plan(d) /\ Plan(d) \notin todo'[d] /\ status[Plan(d)] = "completed"
        <4>1. \A d \in 0 .. l - 1 : todo'[d] = todo[d]
          BY <3>8, <3>10, <1>pc
        <4>2. status[Plan(depth)] = "completed"
          BY <3>4, <3>5 DEF Here
        <4> QED BY <3>5, <3>10, <4>1, <4>2 DEF StackInv
      <3> QED BY <1>pc, <3>1, <3>11, <3>12, <3>13, <3>14 DEF StackInv
    <2> QED BY <2>1, <2>2
  <1>23. CASE Drain("drain", "increment")
    BY <1>23, <1>pc, StackStill DEF Drain
  <1>24. CASE Increment("increment", "check")
    BY <1>24, <1>pc, StackStill DEF Increment
  <1>25. CASE CheckPause
    BY <1>25, <1>pc, StackStill DEF CheckPause
  <1>26. CASE Drain("drainPause", "incrementPause")
    BY <1>26, <1>pc, StackStill DEF Drain
  <1>27. CASE Increment("incrementPause", "pause")
    BY <1>27, <1>pc, StackStill DEF Increment
  <1>28. CASE Pause
    BY <1>28, <1>pc, StackPop DEF Pause, Return
  <1>29. CASE UNCHANGED vars
    BY <1>29, StackStill DEF vars
  <1> QED
    BY <1>1, <1>2, <1>3, <1>4, <1>5, <1>6, <1>7, <1>8, <1>9, <1>10, <1>11, <1>12,
       <1>13, <1>14, <1>15, <1>16, <1>17, <1>18, <1>19, <1>20, <1>21, <1>22, <1>23,
       <1>24, <1>25, <1>26, <1>27, <1>28, <1>29
    DEF Next, DrainNode, DrainPause, Ended

\* Every step keeps CurrentInv.
LEMMA NextCurrent ==
    TypeInv /\ Coverage /\ StackInv /\ CurrentInv /\ [Next]_vars => CurrentInv'
  <1> SUFFICES ASSUME TypeInv, Coverage, StackInv, CurrentInv, [Next]_vars PROVE CurrentInv'
    OBVIOUS
  <1> USE DEF CurrentInv, Running, Spawning, Halted, control, attempt, rows, ledger, budget
  <1>type. /\ status \in [Node -> {"absent", "pending", "running", "completed", "failed"}]
           /\ todo \in [Levels -> SUBSET Node] /\ cur \in [Levels -> Node]
           /\ depth \in Levels /\ depth \in 0 .. depth /\ Here \in Node
    BY ConstantsAssumption DEF TypeInv, TypeOK, Levels, Here
  <1>1. CASE Start
    BY <1>1, <1>type DEF Start, Here, Coverage
  <1>2. CASE NextNode
    <2>1. PICK n \in todo[depth] : cur' = [cur EXCEPT ![depth] = n]
      BY <1>2 DEF NextNode
    <2>2. pc = "loop" /\ run \notin Halted /\ pc' = "gate" /\ UNCHANGED <<depth, status, run>>
      BY <1>2 DEF NextNode
    <2>3. Here' = n
      BY <2>1, <2>2, <1>type DEF Here
    <2>4. status[n] = "pending"
      BY <2>1, <1>type DEF StackInv
    <2> QED BY <2>2, <2>3, <2>4
  <1>3. CASE LoopEnd
    BY <1>3, <1>type DEF LoopEnd, Here
  <1>4. CASE Finish
    BY <1>4, <1>type DEF Finish, Here
  <1>5. CASE GateBlocked
    BY <1>5, <1>type DEF GateBlocked, Here
  <1>6. CASE GateFail
    BY <1>6, <1>type DEF GateFail, Return, Here
  <1>7. CASE Dispatch
    BY <1>7, <1>type DEF Dispatch, AttemptAt, Here
  <1>8. CASE CreateWorktree
    BY <1>8, <1>type DEF CreateWorktree, Here
  <1>9. CASE TransientFailure
    BY <1>9, <1>type DEF TransientFailure, AttemptAt, Here
  <1>10. CASE InvocationFails
    BY <1>10, <1>type DEF InvocationFails, Here
  <1>11. CASE InvocationSucceeds
    BY <1>11, <1>type DEF InvocationSucceeds, Here
  <1>12. CASE SaveResult
    BY <1>12, <1>type DEF SaveResult, Here
  <1>13. CASE Complete
    BY <1>13, <1>type DEF Complete, Here
  <1>14. CASE Discover
    BY <1>14, <1>type DEF Discover, Here
  <1>15. CASE Rerun
    BY <1>15, <1>type DEF Rerun, AttemptAt, Here
  <1>16. CASE Escalate
    BY <1>16, <1>type DEF Escalate, Here
  <1>17. CASE EscalateNode
    BY <1>17, <1>type DEF EscalateNode, Here
  <1>18. CASE EscalateRun
    BY <1>18, <1>type DEF EscalateRun, Return, Here
  <1>19. CASE Spawn
    BY <1>19, <1>type DEF Spawn, Here
  <1>20. CASE Persist
    <2>1. PICK n \in ChildNodes(depth + 1, spec[depth + 1]) :
             status[n] = "absent" /\ status' = [status EXCEPT ![n] = "pending"]
      BY <1>20 DEF Persist
    <2>2. pc = "persist" /\ pc' \in {"persist", "allocate"} /\ UNCHANGED <<depth, cur, run>>
      BY <1>20 DEF Persist
    <2>3. depth + 1 \in Levels
      BY <2>2, ConstantsAssumption DEF TypeInv, TypeOK, SpawnDepth, Levels
    <2>4. n \in Node
      BY <2>3, ChildNodesType DEF TypeInv, TypeOK
    <2>5. Here' = Here
      BY <2>2 DEF Here
    <2> QED BY <2>1, <2>2, <2>4, <2>5, <1>type
  <1>21. CASE PersistDuplicate
    BY <1>21, <1>type DEF PersistDuplicate, Here
  <1>22. CASE EnterChild
    BY <1>22, <1>type DEF EnterChild, Here
  <1>23. CASE Drain("drain", "increment")
    BY <1>23, <1>type DEF Drain, Here
  <1>24. CASE Increment("increment", "check")
    BY <1>24, <1>type DEF Increment, Here
  <1>25. CASE CheckPause
    BY <1>25, <1>type DEF CheckPause, Here
  <1>26. CASE Drain("drainPause", "incrementPause")
    BY <1>26, <1>type DEF Drain, Here
  <1>27. CASE Increment("incrementPause", "pause")
    BY <1>27, <1>type DEF Increment, Here
  <1>28. CASE Pause
    BY <1>28, <1>type DEF Pause, Return, Here
  <1>29. CASE UNCHANGED vars
    BY <1>29, <1>type DEF vars, Here
  <1> QED
    BY <1>1, <1>2, <1>3, <1>4, <1>5, <1>6, <1>7, <1>8, <1>9, <1>10, <1>11, <1>12,
       <1>13, <1>14, <1>15, <1>16, <1>17, <1>18, <1>19, <1>20, <1>21, <1>22, <1>23,
       <1>24, <1>25, <1>26, <1>27, <1>28, <1>29
    DEF Next, DrainNode, DrainPause, Ended

\* Every step keeps FreshInv.
LEMMA NextFresh ==
    TypeInv /\ SpecInv /\ StackInv /\ FreshInv /\ [Next]_vars => FreshInv'
  <1> SUFFICES ASSUME TypeInv, SpecInv, StackInv, FreshInv, [Next]_vars, UseComposites PROVE FreshInv'
    BY DEF FreshInv
  <1> USE DEF control, attempt, rows, ledger, budget
  <1>pc. InNode = {"gate", "gateFail", "worktree", "invoke", "save", "complete", "failed",
                   "escalateNode", "escalateRun", "spawn", "persist", "allocate", "discover"}
    BY DEF InNode, AtNode, Spawning
  <1>type. /\ status \in [Node -> {"absent", "pending", "running", "completed", "failed"}]
           /\ todo \in [Levels -> SUBSET Node] /\ cur \in [Levels -> Node]
           /\ depth \in Levels /\ depth \in Nat /\ depth \in 0 .. depth /\ Here \in Node
    BY ConstantsAssumption DEF TypeInv, TypeOK, Levels, Here
  \* A spawning node is the terminal Plan of its frame.
  <1>plan. ASSUME pc \in Spawning PROVE Here = Plan(depth) /\ Plan(depth) \notin todo[depth]
    <2>1. Here.kind = "plan" /\ Here \in FrameNodes(depth) /\ Here \notin todo[depth]
      BY <1>pc, <1>plan DEF SpecInv, StackInv, Spawning
    <2> QED BY <2>1, <1>type, FrameLevel
  <1>here. ASSUME pc \in InNode PROVE Here.level = depth
    BY <1>here, <1>type, FrameLevel DEF StackInv
  <1>still. ASSUME UNCHANGED <<depth, todo, cur, status>>, pc' \in InNode => pc \in InNode \ {"persist", "allocate"},
                   pc' \notin {"start", "persist", "allocate"}
            PROVE  FreshInv'
    BY <1>still DEF FreshInv, Here
  <1>set. ASSUME UNCHANGED <<depth, todo, cur>>, pc \in InNode \ {"persist", "allocate"},
                 pc' \notin {"start", "persist", "allocate"},
                 NEW s \in {"running", "completed", "failed"}, status' = [status EXCEPT ![Here] = s]
          PROVE  FreshInv'
    <2>1. \A n \in Node : n.level > depth => status'[n] = status[n]
      <3>1. ~(depth > depth) /\ Here.level = depth
        BY <1>set, <1>type, <1>here
      <3> QED BY <1>set, <1>type, <3>1
    <2> QED BY <1>set, <2>1 DEF FreshInv, Here
  <1>pop. ASSUME UNCHANGED <<todo, cur, status>>, pc' \notin InNode \union {"start"},
                 depth' = depth \/ (depth # 0 /\ depth' = depth - 1)
          PROVE  FreshInv'
    <2>1. CASE depth' = depth
      BY <1>pop, <1>pc, <2>1 DEF FreshInv, Here
    <2>2. CASE depth # 0 /\ depth' = depth - 1
      <3>1. depth' \in 0 .. depth - 1
        BY <2>2, <1>type
      <3>2. Plan(depth') \notin todo[depth']
        BY <3>1 DEF StackInv
      <3> QED BY <1>pop, <1>pc, <3>2 DEF FreshInv
    <2> QED BY <1>pop, <2>1, <2>2
  <1>1. CASE Start
    <2>1. pc = "start" /\ pc' = "loop" /\ UNCHANGED <<depth, status>>
      BY <1>1 DEF Start
    <2> QED BY <2>1, <1>pc DEF FreshInv
  <1>2. CASE NextNode
    <2>1. PICK n \in todo[depth] :
              /\ cur' = [cur EXCEPT ![depth] = n]
              /\ todo' = [todo EXCEPT ![depth] = @ \ {n}]
      BY <1>2 DEF NextNode
    <2>2. pc = "loop" /\ pc' = "gate" /\ UNCHANGED <<depth, status>>
      BY <1>2 DEF NextNode
    <2>3. Here' = n /\ todo'[depth] \subseteq todo[depth]
      BY <2>1, <2>2, <1>type DEF Here
    <2> QED BY <2>1, <2>2, <2>3, <1>pc DEF FreshInv
  <1>3. CASE LoopEnd
    BY <1>3, <1>pc, <1>pop DEF LoopEnd
  <1>4. CASE Finish
    BY <1>4, <1>pc, <1>still DEF Finish
  <1>5. CASE GateBlocked
    BY <1>5, <1>pc, <1>set DEF GateBlocked
  <1>6. CASE GateFail
    BY <1>6, <1>pc, <1>pop DEF GateFail, Return
  <1>7. CASE Dispatch
    BY <1>7, <1>pc, <1>set DEF Dispatch, AttemptAt
  <1>8. CASE CreateWorktree
    BY <1>8, <1>pc, <1>still DEF CreateWorktree
  <1>9. CASE TransientFailure
    BY <1>9, <1>pc, <1>still DEF TransientFailure, AttemptAt
  <1>10. CASE InvocationFails
    BY <1>10, <1>pc, <1>still DEF InvocationFails
  <1>11. CASE InvocationSucceeds
    BY <1>11, <1>pc, <1>still DEF InvocationSucceeds
  <1>12. CASE SaveResult
    BY <1>12, <1>pc, <1>still DEF SaveResult
  <1>13. CASE Complete
    BY <1>13, <1>pc, <1>set DEF Complete
  <1>14. CASE Discover
    BY <1>14, <1>pc, <1>still DEF Discover
  <1>15. CASE Rerun
    BY <1>15, <1>pc, <1>still DEF Rerun, AttemptAt
  <1>16. CASE Escalate
    BY <1>16, <1>pc, <1>still DEF Escalate
  <1>17. CASE EscalateNode
    BY <1>17, <1>pc, <1>set DEF EscalateNode
  <1>18. CASE EscalateRun
    BY <1>18, <1>pc, <1>pop DEF EscalateRun, Return
  <1>19. CASE Spawn
    <2>1. pc = "spawn" /\ pc' \in {"persist", "raised"} /\ UNCHANGED <<depth, todo, cur, status>>
      BY <1>19 DEF Spawn
    <2>2. Here = Plan(depth) /\ Plan(depth) \notin todo[depth]
      BY <2>1, <1>plan DEF Spawning
    <2>3. \A n \in Node : n.level > depth => status[n] = "absent"
      BY <2>1, <2>2, <1>pc DEF FreshInv
    <2>4. \A n \in Node : n.level \in Nat
      BY DEF Node, Levels
    <2>5. \A n \in Node : n.level > depth + 1 \/ n.level = depth + 1 => n.level > depth
      BY <2>4, <1>type
    <2> QED BY <2>1, <2>2, <2>3, <2>5, <1>pc DEF FreshInv
  <1>20. CASE Persist
    <2>1. PICK n \in ChildNodes(depth + 1, spec[depth + 1]) : status' = [status EXCEPT ![n] = "pending"]
      BY <1>20 DEF Persist
    <2>2. pc = "persist" /\ pc' \in {"persist", "allocate"} /\ UNCHANGED <<depth, todo, cur>>
      BY <1>20 DEF Persist
    <2>3. n.level = depth + 1 /\ ~(depth + 1 > depth + 1)
      BY <1>type DEF ChildNodes, Plan, Coding, Review
    <2>4. Plan(depth) \notin todo[depth]
      BY <2>2, <1>plan DEF Spawning
    <2>5. \A m \in Node : status'[m] = IF m = n THEN "pending" ELSE status[m]
      BY <2>1, <1>type
    <2>6. \A m \in Node :
             /\ m.level > depth + 1 => status'[m] = "absent"
             /\ m.level = depth + 1 => status'[m] \in {"absent", "pending"}
      BY <2>2, <2>3, <2>5 DEF FreshInv
    <2> QED BY <2>2, <2>4, <2>6, <1>pc DEF FreshInv
  <1>21. CASE PersistDuplicate
    <2>1. pc = "persist" /\ pc' = "raised" /\ UNCHANGED <<depth, todo, cur, status>>
      BY <1>21 DEF PersistDuplicate
    <2>2. Plan(depth) \notin todo[depth]
      BY <2>1, <1>plan DEF Spawning
    <2> QED BY <2>1, <2>2, <1>pc DEF FreshInv
  <1>22. CASE EnterChild
    <2>1. pc = "allocate" /\ UNCHANGED <<cur, status>>
      BY <1>22 DEF EnterChild
    <2>2. Plan(depth) \notin todo[depth]
      BY <2>1, <1>plan DEF Spawning
    <2>3. CASE pc' = "raised" /\ UNCHANGED <<depth, todo>>
      BY <2>1, <2>2, <2>3, <1>pc DEF FreshInv
    <2>4. CASE pc' = "loop" /\ depth' = depth + 1
      <3>1. \A n \in Node : n.level > depth + 1 => status[n] = "absent"
        BY <2>1 DEF FreshInv
      <3> QED BY <2>1, <2>4, <3>1, <1>pc DEF FreshInv
    <2> QED BY <1>22, <2>3, <2>4 DEF EnterChild
  <1>23. CASE Drain("drain", "increment")
    BY <1>23, <1>pc, <1>still DEF Drain
  <1>24. CASE Increment("increment", "check")
    BY <1>24, <1>pc, <1>still DEF Increment
  <1>25. CASE CheckPause
    BY <1>25, <1>pc, <1>still DEF CheckPause
  <1>26. CASE Drain("drainPause", "incrementPause")
    BY <1>26, <1>pc, <1>still DEF Drain
  <1>27. CASE Increment("incrementPause", "pause")
    BY <1>27, <1>pc, <1>still DEF Increment
  <1>28. CASE Pause
    BY <1>28, <1>pc, <1>pop DEF Pause, Return
  <1>29. CASE UNCHANGED vars
    BY <1>29, <1>pc DEF vars, FreshInv, Here
  <1> QED
    BY <1>1, <1>2, <1>3, <1>4, <1>5, <1>6, <1>7, <1>8, <1>9, <1>10, <1>11, <1>12,
       <1>13, <1>14, <1>15, <1>16, <1>17, <1>18, <1>19, <1>20, <1>21, <1>22, <1>23,
       <1>24, <1>25, <1>26, <1>27, <1>28, <1>29
    DEF Next, DrainNode, DrainPause, Ended

-----------------------------------------------------------------------------
(* What is there when a node is dispatched.                                *)

\* The parents of a node are in the rows of its level.
LEMMA ParentsStay ==
    ASSUME UNCHANGED spec PROVE \A n : Parents(n)' = Parents(n)
  BY DEF Parents

\* Every step keeps ContextInv.
LEMMA NextContext ==
    TypeInv /\ Coverage /\ QuietInv /\ SpecInv /\ StackInv /\ CurrentInv /\ ContextInv /\ [Next]_vars
      => ContextInv'
  <1> SUFFICES ASSUME TypeInv, Coverage, QuietInv, SpecInv, StackInv, CurrentInv, ContextInv, [Next]_vars
               PROVE  ContextInv'
    OBVIOUS
  <1> USE DEF control, attempt, rows, ledger, budget
  <1>type. /\ status \in [Node -> {"absent", "pending", "running", "completed", "failed"}]
           /\ branch \in [Node -> {"none", "local", "pushed", "reported"}]
           /\ Here \in Node
    BY DEF TypeInv, TypeOK, Here
  <1>here. ASSUME UNCHANGED <<depth, cur>> PROVE Here' = Here
    BY <1>here DEF Here
  <1>parents. ASSUME pc = "gate" PROVE \A p \in Parents(Here) : p # Here
    BY <1>parents, <1>type DEF ContextInv, CurrentInv
  <1>1. CASE Start
    BY <1>1, <1>type, <1>here, <1>parents, ParentsStay DEF Start, ContextInv
  <1>2. CASE NextNode
    <2>1. PICK n \in todo[depth] :
              Parents(n) \intersect todo[depth] = {} /\ cur' = [cur EXCEPT ![depth] = n]
      BY <1>2 DEF NextNode
    <2>2. pc = "loop" /\ run \notin Halted /\ pc' = "gate" /\ UNCHANGED <<depth, spec, status, shared>>
      BY <1>2 DEF NextNode
    <2>3. cur \in [Levels -> Node] /\ depth \in Levels /\ depth \in Nat /\ depth \in 0 .. depth
      BY DEF TypeInv, TypeOK, Levels
    <2>4. Here' = n /\ n \in FrameNodes(depth)
      BY <2>1, <2>2, <2>3 DEF Here, StackInv
    <2>5. run = "running"
      BY <2>2, InNodeRuns
    <2>6. ASSUME NEW p \in Parents(n) PROVE p \in Node /\ status[p] = "completed"
      <3>1. p \in FrameNodes(depth) \/ (depth > 0 /\ p = Plan(depth - 1))
        BY <2>3, <2>4, ParentsInFrame
      <3>2. CASE depth > 0 /\ p = Plan(depth - 1)
        <4>1. depth - 1 \in 0 .. depth - 1 /\ depth - 1 \in Levels
          BY <2>3, <3>2, ConstantsAssumption DEF Levels
        <4> QED BY <3>2, <4>1, NodeType DEF StackInv
      <3>3. CASE p \in FrameNodes(depth)
        <4>1. p \in Node /\ p \in Persisted
          BY <2>3, <3>3, FrameType DEF StackInv
        <4>2. status[p] = "completed" \/ \E d \in 0 .. depth : p \in todo[d]
          BY <2>2, <2>5, <4>1 DEF Coverage, Outstanding, AtNode
        <4>3. ASSUME NEW d \in 0 .. depth, p \in todo[d] PROVE FALSE
          <5>1. d # depth
            BY <2>1, <4>3
          <5>2. UseComposites
            BY <2>3, <5>1 DEF SpecInv
          <5>3. p \in FrameNodes(d)
            BY <4>3 DEF StackInv
          <5> QED BY <2>3, <3>3, <5>1, <5>2, <5>3, FrameLevel
        <4> QED BY <4>1, <4>2, <4>3
      <3> QED BY <3>1, <3>2, <3>3
    <2>7. \A p \in Node : status[p] = "completed" => p \in shared
      BY <2>2 DEF ContextInv
    <2> QED BY <2>2, <2>4, <2>6, <2>7, ParentsStay DEF ContextInv
  <1>3. CASE LoopEnd
    BY <1>3, <1>type, <1>here, <1>parents, ParentsStay DEF LoopEnd, ContextInv
  <1>4. CASE Finish
    BY <1>4, <1>type, <1>here, <1>parents, ParentsStay DEF Finish, ContextInv
  <1>5. CASE GateBlocked
    BY <1>5, <1>type, <1>here, <1>parents, ParentsStay DEF GateBlocked, ContextInv
  <1>6. CASE GateFail
    BY <1>6, <1>type, <1>here, <1>parents, ParentsStay DEF GateFail, Return, ContextInv
  <1>7. CASE Dispatch
    BY <1>7, <1>type, <1>here, <1>parents, ParentsStay DEF Dispatch, AttemptAt, ContextInv
  <1>8. CASE CreateWorktree
    BY <1>8, <1>type, <1>here, <1>parents, ParentsStay DEF CreateWorktree, ContextInv
  <1>9. CASE TransientFailure
    BY <1>9, <1>type, <1>here, <1>parents, ParentsStay DEF TransientFailure, AttemptAt, ContextInv
  <1>10. CASE InvocationFails
    BY <1>10, <1>type, <1>here, <1>parents, ParentsStay DEF InvocationFails, ContextInv
  <1>11. CASE InvocationSucceeds
    BY <1>11, <1>type, <1>here, <1>parents, ParentsStay DEF InvocationSucceeds, ContextInv
  <1>12. CASE SaveResult
    BY <1>12, <1>type, <1>here, <1>parents, ParentsStay DEF SaveResult, ContextInv
  <1>13. CASE Complete
    BY <1>13, <1>type, <1>here, <1>parents, ParentsStay DEF Complete, ContextInv
  <1>14. CASE Discover
    BY <1>14, <1>type, <1>here, <1>parents, ParentsStay DEF Discover, ContextInv
  <1>15. CASE Rerun
    BY <1>15, <1>type, <1>here, <1>parents, ParentsStay DEF Rerun, AttemptAt, ContextInv
  <1>16. CASE Escalate
    BY <1>16, <1>type, <1>here, <1>parents, ParentsStay DEF Escalate, ContextInv
  <1>17. CASE EscalateNode
    BY <1>17, <1>type, <1>here, <1>parents, ParentsStay DEF EscalateNode, ContextInv
  <1>18. CASE EscalateRun
    BY <1>18, <1>type, <1>here, <1>parents, ParentsStay DEF EscalateRun, Return, ContextInv
  <1>19. CASE Spawn
    BY <1>19, <1>type, <1>here, <1>parents, ParentsStay DEF Spawn, ContextInv
  <1>20. CASE Persist
    <2>1. PICK n \in ChildNodes(depth + 1, spec[depth + 1]) : status' = [status EXCEPT ![n] = "pending"]
      BY <1>20 DEF Persist
    <2>2. pc = "persist" /\ pc' \in {"persist", "allocate"} /\ UNCHANGED shared
      BY <1>20 DEF Persist
    <2> QED BY <2>1, <2>2, <1>type DEF ContextInv
  <1>21. CASE PersistDuplicate
    BY <1>21, <1>type, <1>here, <1>parents, ParentsStay DEF PersistDuplicate, ContextInv
  <1>22. CASE EnterChild
    <2>1. pc = "allocate" /\ pc' \in {"raised", "loop"} /\ UNCHANGED <<status, shared>>
      BY <1>22 DEF EnterChild
    <2> QED BY <2>1 DEF ContextInv
  <1>23. CASE Drain("drain", "increment")
    BY <1>23, <1>type, <1>here, <1>parents, ParentsStay DEF Drain, ContextInv
  <1>24. CASE Increment("increment", "check")
    BY <1>24, <1>type, <1>here, <1>parents, ParentsStay DEF Increment, ContextInv
  <1>25. CASE CheckPause
    BY <1>25, <1>type, <1>here, <1>parents, ParentsStay DEF CheckPause, ContextInv
  <1>26. CASE Drain("drainPause", "incrementPause")
    BY <1>26, <1>type, <1>here, <1>parents, ParentsStay DEF Drain, ContextInv
  <1>27. CASE Increment("incrementPause", "pause")
    BY <1>27, <1>type, <1>here, <1>parents, ParentsStay DEF Increment, ContextInv
  <1>28. CASE Pause
    BY <1>28, <1>type, <1>here, <1>parents, ParentsStay DEF Pause, Return, ContextInv
  <1>29. CASE UNCHANGED vars
    BY <1>29, ParentsStay, <1>here DEF vars, ContextInv
  <1> QED
    BY <1>1, <1>2, <1>3, <1>4, <1>5, <1>6, <1>7, <1>8, <1>9, <1>10, <1>11, <1>12,
       <1>13, <1>14, <1>15, <1>16, <1>17, <1>18, <1>19, <1>20, <1>21, <1>22, <1>23,
       <1>24, <1>25, <1>26, <1>27, <1>28, <1>29
    DEF Next, DrainNode, DrainPause, Ended

\* Every step keeps BranchInv.
LEMMA NextBranch ==
    TypeInv /\ CurrentInv /\ ContextInv /\ BranchInv /\ [Next]_vars => BranchInv'
  <1> SUFFICES ASSUME TypeInv, CurrentInv, ContextInv, BranchInv, [Next]_vars PROVE BranchInv'
    OBVIOUS
  <1> USE DEF control, attempt, rows, ledger, budget
  <1>type. /\ status \in [Node -> {"absent", "pending", "running", "completed", "failed"}]
           /\ branch \in [Node -> {"none", "local", "pushed", "reported"}]
           /\ Here \in Node
    BY DEF TypeInv, TypeOK, Here
  <1>here. ASSUME UNCHANGED <<depth, cur>> PROVE Here' = Here
    BY <1>here DEF Here
  <1>coding. ASSUME NEW n \in Node, n.kind = "review"
             PROVE  Coding(n.level, n.comp) # n /\ Coding(n.level, n.comp) \in Node
    BY <1>coding DEF Coding, Node
  \* A step of the current, RUNNING node changes at most its own branch.
  <1>own. ASSUME pc \in Running, UNCHANGED <<depth, cur, status>>, pc' \notin {"save", "complete"},
                 UNCHANGED branch \/ \E b : branch' = [branch EXCEPT ![Here] = b]
          PROVE  BranchInv'
    <2>1. \A n \in Node : n # Here => branch'[n] = branch[n]
      BY <1>own, <1>type
    <2>2. status[Here] = "running" /\ \A n \in Node : status[n] = "running" => n = Here
      BY <1>own DEF CurrentInv
    <2> QED BY <1>own, <1>here, <2>1, <2>2, <1>coding, <1>type DEF BranchInv, ReviewFollowsPush, Running
  <1>1. CASE Start
    BY <1>1, <1>type, <1>here DEF Start, BranchInv, ReviewFollowsPush
  <1>2. CASE NextNode
    BY <1>2, <1>type, <1>here DEF NextNode, BranchInv, ReviewFollowsPush
  <1>3. CASE LoopEnd
    BY <1>3, <1>type, <1>here DEF LoopEnd, BranchInv, ReviewFollowsPush
  <1>4. CASE Finish
    BY <1>4, <1>type, <1>here DEF Finish, BranchInv, ReviewFollowsPush
  <1>5. CASE GateBlocked
    BY <1>5, <1>type, <1>here DEF GateBlocked, BranchInv, ReviewFollowsPush
  <1>6. CASE GateFail
    BY <1>6, <1>type, <1>here DEF GateFail, Return, BranchInv, ReviewFollowsPush
  <1>7. CASE Dispatch
    <2>1. /\ pc = "gate" /\ pc' \in {"worktree", "invoke"} /\ UNCHANGED <<depth, cur, branch>>
          /\ status' = [status EXCEPT ![Here] = "running"] /\ CanDispatch(Here)
      BY <1>7 DEF Dispatch, AttemptAt
    <2>2. \A n \in Node : status'[n] = "running" => n = Here
      BY <2>1, <1>type DEF CurrentInv, Running
    <2>3. ASSUME Here.kind = "review"
          PROVE  branch[Coding(Here.level, Here.comp)] \in {"pushed", "reported"}
      <3> DEFINE c == Coding(Here.level, Here.comp)
      <3>1. status[c] = "completed" /\ branch[c] # "none"
        BY <2>1, <2>3 DEF ContextInv, Parents, CanDispatch
      <3>2. c \in Node
        BY <2>3, <1>coding, <1>type
      <3> HIDE DEF c
      <3>3. branch[c] # "local" /\ branch[c] \in {"none", "local", "pushed", "reported"}
        BY <3>1, <3>2, <1>type DEF BranchInv
      <3> QED BY <3>1, <3>3 DEF c
    <2> QED BY <2>1, <2>2, <2>3, <1>type DEF BranchInv, ReviewFollowsPush
  <1>8. CASE CreateWorktree
    BY <1>8, <1>own DEF CreateWorktree, Running
  <1>9. CASE TransientFailure
    <2>1. UNCHANGED branch \/ \E b : branch' = [branch EXCEPT ![Here] = b]
      BY <1>9, Zenon DEF TransientFailure, PushOnExit
    <2> QED BY <1>9, <2>1, <1>own DEF TransientFailure, AttemptAt, Running
  <1>10. CASE InvocationFails
    <2>1. UNCHANGED branch \/ \E b : branch' = [branch EXCEPT ![Here] = b]
      BY <1>10, Zenon DEF InvocationFails, PushOnExit
    <2> QED BY <1>10, <2>1, <1>own DEF InvocationFails, Running
  <1>11. CASE InvocationSucceeds
    <2>1. /\ pc = "invoke" /\ pc' = "save" /\ UNCHANGED <<depth, cur, status>>
          /\ PushOnExit({"pushed"} \union (IF out'.branch = "none" THEN {"none"} ELSE {}))
      BY <1>11 DEF InvocationSucceeds
    <2>2. \/ branch[Here] # "local" /\ UNCHANGED branch
          \/ \E b \in {"pushed", "none"} : branch' = [branch EXCEPT ![Here] = b]
      BY <2>1, Zenon DEF PushOnExit
    <2>3. branch'[Here] # "local" /\ \A n \in Node : n # Here => branch'[n] = branch[n]
      BY <2>2, <1>type
    <2>4. \A n \in Node : status[n] = "running" => n = Here
      BY <2>1 DEF CurrentInv
    <2> QED BY <2>1, <2>3, <2>4, <1>here, <1>coding DEF BranchInv, ReviewFollowsPush
  <1>12. CASE SaveResult
    BY <1>12, <1>type, <1>here DEF SaveResult, BranchInv, ReviewFollowsPush
  <1>13. CASE Complete
    <2>1. /\ pc = "complete" /\ pc' \in {"raised", "discover"} /\ UNCHANGED <<depth, cur>>
          /\ status' = [status EXCEPT ![Here] = "completed"]
          /\ branch' = [branch EXCEPT ![Here] = IF out.branch = "none" THEN @ ELSE out.branch]
      BY <1>13 DEF Complete
    <2>2. out.branch \in {"none", "reported"} /\ branch[Here] # "local"
      BY <2>1, <1>type DEF TypeInv, TypeOK, BranchInv
    <2>3. branch'[Here] # "local" /\ \A n \in Node : n # Here => branch'[n] = branch[n]
      BY <2>1, <2>2, <1>type
    <2>4. \A n \in Node : status'[n] # "running"
      BY <2>1, <1>type DEF CurrentInv
    <2> QED BY <2>1, <2>3, <2>4, <1>type DEF BranchInv, ReviewFollowsPush
  <1>14. CASE Discover
    BY <1>14, <1>type, <1>here DEF Discover, BranchInv, ReviewFollowsPush
  <1>15. CASE Rerun
    BY <1>15, <1>type, <1>here DEF Rerun, AttemptAt, BranchInv, ReviewFollowsPush
  <1>16. CASE Escalate
    BY <1>16, <1>type, <1>here DEF Escalate, BranchInv, ReviewFollowsPush
  <1>17. CASE EscalateNode
    BY <1>17, <1>type, <1>here DEF EscalateNode, BranchInv, ReviewFollowsPush
  <1>18. CASE EscalateRun
    BY <1>18, <1>type, <1>here DEF EscalateRun, Return, BranchInv, ReviewFollowsPush
  <1>19. CASE Spawn
    BY <1>19, <1>type, <1>here DEF Spawn, BranchInv, ReviewFollowsPush
  <1>20. CASE Persist
    BY <1>20, <1>type, <1>here DEF Persist, BranchInv, ReviewFollowsPush
  <1>21. CASE PersistDuplicate
    BY <1>21, <1>type, <1>here DEF PersistDuplicate, BranchInv, ReviewFollowsPush
  <1>22. CASE EnterChild
    BY <1>22, <1>type, <1>here DEF EnterChild, BranchInv, ReviewFollowsPush
  <1>23. CASE Drain("drain", "increment")
    BY <1>23, <1>type, <1>here DEF Drain, BranchInv, ReviewFollowsPush
  <1>24. CASE Increment("increment", "check")
    BY <1>24, <1>type, <1>here DEF Increment, BranchInv, ReviewFollowsPush
  <1>25. CASE CheckPause
    BY <1>25, <1>type, <1>here DEF CheckPause, BranchInv, ReviewFollowsPush
  <1>26. CASE Drain("drainPause", "incrementPause")
    BY <1>26, <1>type, <1>here DEF Drain, BranchInv, ReviewFollowsPush
  <1>27. CASE Increment("incrementPause", "pause")
    BY <1>27, <1>type, <1>here DEF Increment, BranchInv, ReviewFollowsPush
  <1>28. CASE Pause
    BY <1>28, <1>type, <1>here DEF Pause, Return, BranchInv, ReviewFollowsPush
  <1>29. CASE UNCHANGED vars
    BY <1>29, <1>type, <1>here DEF vars, BranchInv, ReviewFollowsPush
  <1> QED
    BY <1>1, <1>2, <1>3, <1>4, <1>5, <1>6, <1>7, <1>8, <1>9, <1>10, <1>11, <1>12,
       <1>13, <1>14, <1>15, <1>16, <1>17, <1>18, <1>19, <1>20, <1>21, <1>22, <1>23,
       <1>24, <1>25, <1>26, <1>27, <1>28, <1>29
    DEF Next, DrainNode, DrainPause, Ended

\* Every step keeps RecordInv: a branch is only written when nothing has failed.
LEMMA NextRecord ==
    TypeInv /\ QuietInv /\ CurrentInv /\ RecordInv /\ [Next]_vars => RecordInv'
  <1> SUFFICES ASSUME TypeInv, QuietInv, CurrentInv, RecordInv, [Next]_vars PROVE RecordInv'
    OBVIOUS
  <1> USE DEF control, attempt, rows, ledger, budget
  <1>type. /\ status \in [Node -> {"absent", "pending", "running", "completed", "failed"}]
           /\ branch \in [Node -> {"none", "local", "pushed", "reported"}]
           /\ Here \in Node /\ escalated \subseteq Node
    BY DEF TypeInv, TypeOK, Here
  <1>here. ASSUME UNCHANGED <<depth, cur>> PROVE Here' = Here
    BY <1>here DEF Here
  \* While no node has failed nothing is to be recorded.
  <1>none. ASSUME pc \in {"worktree", "invoke", "complete"}
           PROVE  run \notin Halted /\ \A n \in Node : status[n] # "failed"
    BY <1>none DEF QuietInv, CurrentInv
  <1>work. ASSUME pc \in {"worktree", "invoke", "complete"}, UNCHANGED <<run, escalated>>,
                  UNCHANGED status \/ status' = [status EXCEPT ![Here] = "completed"],
                  pc' \notin {"escalateNode", "escalateRun"}
           PROVE  RecordInv'
    <2>1. \A n \in Node : status'[n] # "failed"
      BY <1>work, <1>none, <1>type
    <2> QED BY <1>work, <1>none, <2>1 DEF RecordInv, FailureIsRecorded, Halted
  <1>1. CASE Start
    BY <1>1, <1>type, <1>here DEF Start, RecordInv, FailureIsRecorded
  <1>2. CASE NextNode
    BY <1>2, <1>type, <1>here DEF NextNode, RecordInv, FailureIsRecorded
  <1>3. CASE LoopEnd
    BY <1>3, <1>type, <1>here DEF LoopEnd, RecordInv, FailureIsRecorded
  <1>4. CASE Finish
    BY <1>4, <1>type, <1>here DEF Finish, RecordInv, FailureIsRecorded
  <1>5. CASE GateBlocked
    BY <1>5, <1>type, <1>here DEF GateBlocked, RecordInv, FailureIsRecorded, CanDispatch, Node
  <1>6. CASE GateFail
    BY <1>6, <1>type, <1>here DEF GateFail, Return, RecordInv, FailureIsRecorded
  <1>7. CASE Dispatch
    BY <1>7, <1>type, <1>here DEF Dispatch, AttemptAt, RecordInv, FailureIsRecorded, CurrentInv
  <1>8. CASE CreateWorktree
    BY <1>8, <1>work, <1>type DEF CreateWorktree
  <1>9. CASE TransientFailure
    BY <1>9, <1>work, <1>type DEF TransientFailure, AttemptAt
  <1>10. CASE InvocationFails
    <2>1. pc' = "failed" /\ UNCHANGED <<run, status, escalated>> /\ pc \in {"worktree", "invoke"}
      BY <1>10 DEF InvocationFails
    <2> QED BY <2>1, <1>work
  <1>11. CASE InvocationSucceeds
    <2>1. pc' = "save" /\ UNCHANGED <<run, status, escalated>> /\ pc = "invoke"
      BY <1>11 DEF InvocationSucceeds
    <2> QED BY <2>1, <1>work
  <1>12. CASE SaveResult
    BY <1>12, <1>type, <1>here DEF SaveResult, RecordInv, FailureIsRecorded
  <1>13. CASE Complete
    BY <1>13, <1>work, <1>type DEF Complete
  <1>14. CASE Discover
    BY <1>14, <1>type, <1>here DEF Discover, RecordInv, FailureIsRecorded
  <1>15. CASE Rerun
    BY <1>15, <1>type, <1>here DEF Rerun, AttemptAt, RecordInv, FailureIsRecorded
  <1>16. CASE Escalate
    BY <1>16, <1>type, <1>here DEF Escalate, RecordInv, FailureIsRecorded
  <1>17. CASE EscalateNode
    BY <1>17, <1>type, <1>here DEF EscalateNode, RecordInv, FailureIsRecorded, CurrentInv
  <1>18. CASE EscalateRun
    BY <1>18, <1>type, <1>here DEF EscalateRun, Return, RecordInv, FailureIsRecorded, CurrentInv
  <1>19. CASE Spawn
    BY <1>19, <1>type, <1>here DEF Spawn, RecordInv, FailureIsRecorded
  <1>20. CASE Persist
    <2>1. PICK n \in ChildNodes(depth + 1, spec[depth + 1]) :
             status[n] = "absent" /\ status' = [status EXCEPT ![n] = "pending"]
      BY <1>20 DEF Persist
    <2>2. pc = "persist" /\ pc' \in {"persist", "allocate"} /\ UNCHANGED <<run, branch, escalated>>
      BY <1>20 DEF Persist
    <2> QED BY <2>1, <2>2, <1>type DEF RecordInv, FailureIsRecorded
  <1>21. CASE PersistDuplicate
    BY <1>21, <1>type, <1>here DEF PersistDuplicate, RecordInv, FailureIsRecorded
  <1>22. CASE EnterChild
    BY <1>22, <1>type, <1>here DEF EnterChild, RecordInv, FailureIsRecorded
  <1>23. CASE Drain("drain", "increment")
    BY <1>23, <1>type, <1>here DEF Drain, RecordInv, FailureIsRecorded
  <1>24. CASE Increment("increment", "check")
    BY <1>24, <1>type, <1>here DEF Increment, RecordInv, FailureIsRecorded
  <1>25. CASE CheckPause
    BY <1>25, <1>type, <1>here DEF CheckPause, RecordInv, FailureIsRecorded
  <1>26. CASE Drain("drainPause", "incrementPause")
    BY <1>26, <1>type, <1>here DEF Drain, RecordInv, FailureIsRecorded
  <1>27. CASE Increment("incrementPause", "pause")
    BY <1>27, <1>type, <1>here DEF Increment, RecordInv, FailureIsRecorded
  <1>28. CASE Pause
    BY <1>28, <1>type, <1>here DEF Pause, Return, RecordInv, FailureIsRecorded
  <1>29. CASE UNCHANGED vars
    BY <1>29, <1>here DEF vars, RecordInv, FailureIsRecorded
  <1> QED
    BY <1>1, <1>2, <1>3, <1>4, <1>5, <1>6, <1>7, <1>8, <1>9, <1>10, <1>11, <1>12,
       <1>13, <1>14, <1>15, <1>16, <1>17, <1>18, <1>19, <1>20, <1>21, <1>22, <1>23,
       <1>24, <1>25, <1>26, <1>27, <1>28, <1>29
    DEF Next, DrainNode, DrainPause, Ended

\* Every step keeps LateInv.
LEMMA NextLate ==
    TypeInv /\ SpecInv /\ FreshInv /\ LateInv /\ [Next]_vars => LateInv'
  <1> SUFFICES ASSUME TypeInv, SpecInv, FreshInv, LateInv, [Next]_vars PROVE LateInv'
    OBVIOUS
  <1> USE DEF control, attempt, rows, ledger, budget
  <1>1. CASE Start
    <2>1. used' = 0 /\ pc' = "loop"
      BY <1>1 DEF Start, LateInv
    <2>2. ~ShouldPause(0)
      BY ConstantsAssumption DEF ShouldPause, Remaining
    <2> QED BY <2>1, <2>2 DEF LateInv
  <1>2. CASE NextNode
    BY <1>2 DEF NextNode, LateInv, ShouldPause, Remaining
  <1>3. CASE LoopEnd
    BY <1>3 DEF LoopEnd, LateInv, ShouldPause, Remaining
  <1>4. CASE Finish
    BY <1>4 DEF Finish, LateInv, ShouldPause, Remaining
  <1>5. CASE GateBlocked
    BY <1>5 DEF GateBlocked, LateInv, ShouldPause, Remaining
  <1>6. CASE GateFail
    BY <1>6 DEF GateFail, Return, LateInv, ShouldPause, Remaining
  <1>7. CASE Dispatch
    BY <1>7 DEF Dispatch, AttemptAt, LateInv, ShouldPause, Remaining
  <1>8. CASE CreateWorktree
    BY <1>8 DEF CreateWorktree, LateInv, ShouldPause, Remaining
  <1>9. CASE TransientFailure
    BY <1>9 DEF TransientFailure, AttemptAt, LateInv, ShouldPause, Remaining
  <1>10. CASE InvocationFails
    BY <1>10 DEF InvocationFails, LateInv, ShouldPause, Remaining
  <1>11. CASE InvocationSucceeds
    BY <1>11 DEF InvocationSucceeds, LateInv, ShouldPause, Remaining
  <1>12. CASE SaveResult
    BY <1>12 DEF SaveResult, LateInv, ShouldPause, Remaining
  <1>13. CASE Complete
    BY <1>13 DEF Complete, LateInv, ShouldPause, Remaining
  <1>14. CASE Discover
    BY <1>14 DEF Discover, LateInv, ShouldPause, Remaining
  <1>15. CASE Rerun
    BY <1>15 DEF Rerun, AttemptAt, LateInv, ShouldPause, Remaining
  <1>16. CASE Escalate
    BY <1>16 DEF Escalate, LateInv, ShouldPause, Remaining
  <1>17. CASE EscalateNode
    BY <1>17 DEF EscalateNode, LateInv, ShouldPause, Remaining
  <1>18. CASE EscalateRun
    BY <1>18 DEF EscalateRun, Return, LateInv, ShouldPause, Remaining
  <1>19. CASE Spawn
    BY <1>19 DEF Spawn, LateInv, ShouldPause, Remaining
  <1>20. CASE Persist
    BY <1>20 DEF Persist, LateInv, ShouldPause, Remaining
  <1>21. CASE PersistDuplicate
    BY <1>21 DEF PersistDuplicate, LateInv, ShouldPause, Remaining
  <1>22. CASE EnterChild
    <2>1. pc = "allocate" /\ UNCHANGED <<status, used>>
      BY <1>22 DEF EnterChild
    <2>2. UseComposites
      BY <2>1, ConstantsAssumption DEF SpecInv, Spawning
    <2>3. depth \in Nat /\ \A n \in Node : n.level = depth + 1 => status[n] \in {"absent", "pending"}
      BY <2>1, <2>2 DEF FreshInv, TypeInv, TypeOK, Levels
    <2>4. CASE pc' = "raised"
      BY <2>4 DEF LateInv
    <2>5. CASE pc' = "loop" /\ depth' = depth + 1
      BY <2>1, <2>3, <2>5 DEF LateInv
    <2> QED BY <1>22, <2>4, <2>5 DEF EnterChild
  <1>23. CASE Drain("drain", "increment")
    BY <1>23 DEF Drain, LateInv, ShouldPause, Remaining
  <1>24. CASE Increment("increment", "check")
    BY <1>24 DEF Increment, LateInv, ShouldPause, Remaining
  <1>25. CASE CheckPause
    BY <1>25 DEF CheckPause, LateInv, ShouldPause, Remaining
  <1>26. CASE Drain("drainPause", "incrementPause")
    BY <1>26 DEF Drain, LateInv, ShouldPause, Remaining
  <1>27. CASE Increment("incrementPause", "pause")
    BY <1>27 DEF Increment, LateInv, ShouldPause, Remaining
  <1>28. CASE Pause
    BY <1>28 DEF Pause, Return, LateInv, ShouldPause, Remaining
  <1>29. CASE UNCHANGED vars
    BY <1>29 DEF vars, LateInv, ShouldPause, Remaining
  <1> QED
    BY <1>1, <1>2, <1>3, <1>4, <1>5, <1>6, <1>7, <1>8, <1>9, <1>10, <1>11, <1>12,
       <1>13, <1>14, <1>15, <1>16, <1>17, <1>18, <1>19, <1>20, <1>21, <1>22, <1>23,
       <1>24, <1>25, <1>26, <1>27, <1>28, <1>29
    DEF Next, DrainNode, DrainPause, Ended

\* A node dispatched when the threshold has been reached is the first of its level.
LEMMA LateStep ==
    TypeInv /\ SpecInv /\ StackInv /\ LateInv /\ [Next]_vars =>
      [\A n \in Node :
          status[n] = "pending" /\ status'[n] = "running" /\ ShouldPause(used) =>
             /\ depth > 0
             /\ \A m \in Node : m.level = n.level => status[m] \in {"absent", "pending"}]_vars
  <1> SUFFICES ASSUME TypeInv, SpecInv, StackInv, LateInv, [Next]_vars, NEW n \in Node,
                      status[n] = "pending", status'[n] = "running", ShouldPause(used)
               PROVE  depth > 0 /\ \A m \in Node : m.level = n.level => status[m] \in {"absent", "pending"}
    OBVIOUS
  <1> USE DEF control, attempt, rows, ledger, budget
  <1>type. status \in [Node -> {"absent", "pending", "running", "completed", "failed"}] /\ Here \in Node
    BY DEF TypeInv, TypeOK, Here
  <1>1. CASE Start
    BY <1>1 DEF Start
  <1>2. CASE NextNode
    BY <1>2 DEF NextNode
  <1>3. CASE LoopEnd
    BY <1>3 DEF LoopEnd
  <1>4. CASE Finish
    BY <1>4 DEF Finish
  <1>5. CASE GateBlocked
    BY <1>5, <1>type DEF GateBlocked
  <1>6. CASE GateFail
    BY <1>6 DEF GateFail, Return
  <1>7. CASE Dispatch
    <2>1. pc = "gate" /\ status' = [status EXCEPT ![Here] = "running"]
      BY <1>7 DEF Dispatch, AttemptAt
    <2>2. n = Here
      BY <2>1, <1>type
    <2>3. depth > 0 /\ \A m \in Node : m.level = depth => status[m] \in {"absent", "pending"}
      BY <2>1 DEF LateInv
    <2>4. depth \in Nat /\ depth \in 0 .. depth /\ UseComposites
      BY <2>3 DEF SpecInv, TypeInv, TypeOK, Levels
    <2>5. Here \in FrameNodes(depth)
      BY <2>1 DEF StackInv, InNode, AtNode
    <2> QED BY <2>2, <2>3, <2>4, <2>5, FrameLevel
  <1>8. CASE CreateWorktree
    BY <1>8 DEF CreateWorktree
  <1>9. CASE TransientFailure
    BY <1>9 DEF TransientFailure, AttemptAt
  <1>10. CASE InvocationFails
    BY <1>10 DEF InvocationFails
  <1>11. CASE InvocationSucceeds
    BY <1>11 DEF InvocationSucceeds
  <1>12. CASE SaveResult
    BY <1>12 DEF SaveResult
  <1>13. CASE Complete
    BY <1>13, <1>type DEF Complete
  <1>14. CASE Discover
    BY <1>14 DEF Discover
  <1>15. CASE Rerun
    BY <1>15 DEF Rerun, AttemptAt
  <1>16. CASE Escalate
    BY <1>16 DEF Escalate
  <1>17. CASE EscalateNode
    BY <1>17, <1>type DEF EscalateNode
  <1>18. CASE EscalateRun
    BY <1>18 DEF EscalateRun, Return
  <1>19. CASE Spawn
    BY <1>19 DEF Spawn
  <1>20. CASE Persist
    BY <1>20, <1>type DEF Persist
  <1>21. CASE PersistDuplicate
    BY <1>21 DEF PersistDuplicate
  <1>22. CASE EnterChild
    BY <1>22 DEF EnterChild
  <1>23. CASE Drain("drain", "increment")
    BY <1>23 DEF Drain
  <1>24. CASE Increment("increment", "check")
    BY <1>24 DEF Increment
  <1>25. CASE CheckPause
    BY <1>25 DEF CheckPause
  <1>26. CASE Drain("drainPause", "incrementPause")
    BY <1>26 DEF Drain
  <1>27. CASE Increment("incrementPause", "pause")
    BY <1>27 DEF Increment
  <1>28. CASE Pause
    BY <1>28 DEF Pause, Return
  <1>29. CASE UNCHANGED vars
    BY <1>29 DEF vars
  <1> QED
    BY <1>1, <1>2, <1>3, <1>4, <1>5, <1>6, <1>7, <1>8, <1>9, <1>10, <1>11, <1>12,
       <1>13, <1>14, <1>15, <1>16, <1>17, <1>18, <1>19, <1>20, <1>21, <1>22, <1>23,
       <1>24, <1>25, <1>26, <1>27, <1>28, <1>29
    DEF Next, DrainNode, DrainPause, Ended

\* What the order of execution rests on.
OrderInv == SpecInv /\ StackInv /\ CurrentInv /\ FreshInv /\ ContextInv /\ BranchInv /\ RecordInv /\ LateInv

\* The initial state satisfies it.
LEMMA InitOrder == Init => OrderInv
  <1> SUFFICES ASSUME Init PROVE OrderInv
    OBVIOUS
  <1>0. /\ pc = "start" /\ depth = 0 /\ todo = [l \in Levels |-> {}] /\ used = 0 /\ run = "pending"
        /\ out = NoOutcome /\ 0 \in Levels /\ shared = {} /\ escalated = {}
        /\ cur = [l \in Levels |-> Plan(0)]
        /\ status = [n \in Node |-> IF n \in TopNodes THEN "pending" ELSE "absent"]
        /\ spec = [l \in Levels |-> IF l = 1 /\ ~UseComposites THEN StubSpec ELSE NoSpec]
    BY ConstantsAssumption DEF Init, Levels
  <1>1. SpecInv
    <2>1. /\ out.child = NoSpec /\ spec[0] = NoSpec
          /\ ~UseComposites => 1 \in Levels /\ spec[1] = StubSpec
      BY <1>0, ConstantsAssumption DEF NoOutcome, Levels
    <2>2. \A l \in Levels : spec[l].edges = {}
      BY <1>0 DEF NoSpec, StubSpec
    <2> QED BY <1>0, <2>1, <2>2 DEF SpecInv, Spawning
  <1>2. StackInv
    <2>1. FrameNodes(0) = TopNodes /\ todo[0] = {} /\ \A d \in 0 .. depth : d = 0
      BY <1>0 DEF FrameNodes
    <2>2. TopNodes \subseteq Persisted /\ \A n \in TopNodes : status[n] = "pending"
      BY <1>0, TopNodesType DEF Persisted
    <2>3. ASSUME NEW l \in Levels, NEW c \in Comps, status[Coding(l, c)] = "absent"
          PROVE  status[Review(l, c)] = "absent"
      <3>1. ASSUME Review(l, c) \in TopNodes PROVE Coding(l, c) \in TopNodes
        BY <3>1 DEF TopNodes, ChildNodes, Plan, Coding, Review
      <3> QED BY <1>0, <2>3, <3>1, NodeType
    <2>4. \A d \in 0 .. depth - 1 : FALSE
      BY <1>0
    <2> QED BY <1>0, <2>1, <2>2, <2>3, <2>4 DEF StackInv, InNode, AtNode, Spawning
  <1>3. CurrentInv
    BY <1>0 DEF CurrentInv, Running, Spawning
  <1>4. FreshInv
    <2>1. UseComposites => \A n \in TopNodes : ~(n.level > depth)
      BY <1>0 DEF TopNodes, Plan
    <2> QED BY <1>0, <2>1 DEF FreshInv, InNode, AtNode, Spawning
  <1>5. ContextInv
    BY <1>0 DEF ContextInv
  <1>6. BranchInv
    BY <1>0 DEF BranchInv, ReviewFollowsPush
  <1>7. RecordInv
    BY <1>0 DEF RecordInv, FailureIsRecorded
  <1>8. LateInv
    BY <1>0 DEF LateInv
  <1> QED BY <1>1, <1>2, <1>3, <1>4, <1>5, <1>6, <1>7, <1>8 DEF OrderInv

\* It is an invariant, together with those of ExecutorProofs.
THEOREM OrderHolds == Spec => []OrderInv
  <1>1. TypeInv /\ IInv /\ OrderInv /\ [Next]_vars => OrderInv'
    BY NextSpec, NextStack, NextCurrent, NextFresh, NextContext, NextBranch, NextRecord, NextLate
    DEF OrderInv, IInv
  <1> QED BY <1>1, InitOrder, TypeCorrect, IInvHolds, PTL DEF Spec

\* Whenever an agent is invoked, the results and the discoveries of all parents
\* of its node are there: build_context never leaves one out.
THEOREM ContextIsComplete == Spec => []ContextComplete
  <1>1. TypeInv /\ IInv /\ OrderInv => ContextComplete
    <2> SUFFICES ASSUME TypeInv, IInv, OrderInv, pc \in {"worktree", "invoke"}, NEW p \in Parents(Here)
                 PROVE  p \in results /\ p \in shared
      BY DEF ContextComplete
    <2>1. status[p] = "completed" /\ p \in shared
      BY DEF OrderInv, ContextInv
    <2>2. p \in Node
      BY <2>1 DEF TypeInv, TypeOK
    <2> QED BY <2>1, <2>2 DEF IInv, ResultFirst, CompletedHasResult
  <1> QED BY <1>1, OrderHolds, TypeCorrect, IInvHolds, PTL

\* A Review only runs when the push of its Coding node's last attempt went well,
\* although branch_name is set before anything is pushed.  Which name the row has
\* by then is not said.
THEOREM ReviewsFollowPush == Spec => []ReviewFollowsPush
  <1>1. OrderInv => ReviewFollowsPush
    BY DEF OrderInv, BranchInv
  <1> QED BY <1>1, OrderHolds, PTL

\* Whatever gave up has been recorded by then, and an ESCALATED run has a record.
THEOREM FailuresAreRecorded == Spec => []FailureIsRecorded
  <1>1. OrderInv => FailureIsRecorded
    BY DEF OrderInv, RecordInv
  <1> QED BY <1>1, OrderHolds, PTL

\* A run that execute() has returned from is settled, and no node of it RUNNING.
THEOREM ReturnSettles == Spec => []ReturnedIsSettled
  <1> DEFINE Settled == pc = "returned" => run # "running"
  <1>1. Init => Settled
    BY DEF Init
  <1>2. TypeInv /\ IInv /\ OrderInv /\ Settled /\ [Next]_vars => Settled'
    <2> SUFFICES ASSUME Settled, [Next]_vars PROVE Settled'
      OBVIOUS
    <2> USE DEF control, attempt, rows, ledger, budget
    <2>1. CASE Finish
      BY <2>1 DEF Finish
    <2>2. CASE GateFail \/ EscalateRun \/ Pause
      BY <2>2 DEF GateFail, EscalateRun, Pause
    <2>3. CASE UNCHANGED vars
      BY <2>3 DEF vars
    <2>4. ASSUME ~Finish, ~(GateFail \/ EscalateRun \/ Pause), ~UNCHANGED vars PROVE pc' # "returned"
      BY <2>4 DEF Next, DrainNode, DrainPause, Ended, Start, NextNode, LoopEnd, GateBlocked, Dispatch,
         CreateWorktree, TransientFailure, InvocationFails, InvocationSucceeds, SaveResult, Complete,
         Discover, Rerun, Escalate, EscalateNode, Spawn, Persist, PersistDuplicate, EnterChild,
         Drain, Increment, CheckPause, AttemptAt
    <2> QED BY <2>1, <2>2, <2>3, <2>4
  <1>3. TypeInv /\ IInv /\ OrderInv /\ Settled => ReturnedIsSettled
    BY DEF TypeInv, TypeOK, IInv, Coverage, OrderInv, CurrentInv, Running, ReturnedIsSettled
  <1> QED BY <1>1, <1>2, <1>3, OrderHolds, TypeCorrect, IInvHolds, PTL DEF Spec

\* Beyond the pause threshold only the first node of a child DAG still starts.
THEOREM LateDispatchIsFirst == Spec => LateDispatch
  <1>1. OrderInv => SpecInv /\ StackInv /\ LateInv
    BY DEF OrderInv
  <1> QED BY <1>1, LateStep, OrderHolds, TypeCorrect, PTL DEF Spec, LateDispatch

-----------------------------------------------------------------------------
(* The executor implements DagRun.                                         *)

\* Between two nodes of a run that is RUNNING, the rows are Idle.
LEMMA IdleBetween ==
    ASSUME TypeInv, IInv, OrderInv,
           pc \in Spawning \union {"gate"} \/ (pc = "finish" /\ run = "running")
    PROVE  Lifecycle!Idle
  <1>1. run = "running"
    BY DEF TypeInv, TypeOK, IInv, Coverage, QuietInv, Spawning
  <1>2. \A n \in Node : status[n] # "running" /\ status[n] # "failed"
    BY <1>1 DEF OrderInv, CurrentInv, Running, Spawning, Halted
  <1> QED BY <1>1, <1>2 DEF Lifecycle!Idle, Lifecycle!With

\* Every step is one of DagRun, or changes no row that DagRun knows of.
LEMMA StepOfDagRun ==
    ASSUME TypeInv, IInv, OrderInv, [Next]_vars
    PROVE  [Lifecycle!RunNext]_(Lifecycle!runVars)
  <1> USE DEF control, attempt, rows, ledger, budget
  <1> DEFINE needs == [n \in Node |-> Parents(n) \intersect Node]
  <1>type. /\ status \in [Node -> {"absent", "pending", "running", "completed", "failed"}]
           /\ Here \in Node /\ depth \in Nat /\ depth \in Levels
    BY DEF TypeInv, TypeOK, Here, Levels
  <1>needs. ASSUME UNCHANGED spec PROVE UNCHANGED needs
    BY <1>needs, ParentsStay
  <1>still. ASSUME UNCHANGED <<run, status, spec>> PROVE UNCHANGED Lifecycle!runVars
    BY <1>still, <1>needs DEF Lifecycle!runVars
  <1>node. ASSUME NEW n \in Node, Lifecycle!NodeStep(n) PROVE Lifecycle!RunNext
    BY <1>node DEF Lifecycle!RunNext
  <1> HIDE DEF needs
  <1>1. CASE Start
    <2>1. pc = "start" /\ run' = "running" /\ UNCHANGED <<status, spec>>
      BY <1>1 DEF Start
    <2>2. run = "pending"
      BY <2>1 DEF IInv, Coverage
    <2> QED BY <2>1, <2>2, <1>needs DEF Lifecycle!RunNext, Lifecycle!Begin, needs
  <1>2. CASE NextNode
    BY <1>2, <1>still DEF NextNode
  <1>3. CASE LoopEnd
    BY <1>3, <1>still DEF LoopEnd
  <1>4. CASE Finish
    <2>1. pc = "finish" /\ run' = (IF run = "running" THEN "completed" ELSE run) /\ UNCHANGED <<status, spec>>
      BY <1>4 DEF Finish
    <2>2. CASE run # "running"
      BY <2>1, <2>2, <1>still
    <2>3. CASE run = "running"
      <3>1. Lifecycle!Idle
        BY <2>1, <2>3, IdleBetween
      <3>2. \A n \in Node : status[n] # "absent" => status[n] = "completed"
        <4>1. depth = 0 /\ todo[0] = {} /\ \A d \in 0 .. depth : d = 0
          BY <2>1, <2>3 DEF IInv, Coverage
        <4> QED BY <2>1, <2>3, <4>1 DEF IInv, Coverage, Outstanding, AtNode, Persisted
      <3>3. Lifecycle!Rows = Lifecycle!With("completed")
        BY <3>2 DEF Lifecycle!Rows, Lifecycle!With
      <3> QED BY <2>1, <2>3, <3>1, <3>3, <1>needs DEF Lifecycle!RunNext, Lifecycle!Conclude, needs
    <2> QED BY <2>2, <2>3
  <1>5. CASE GateBlocked
    <2>1. pc = "gate" /\ status' = [status EXCEPT ![Here] = "failed"] /\ UNCHANGED <<run, spec>>
      BY <1>5 DEF GateBlocked
    <2>2. Lifecycle!Idle /\ status[Here] = "pending"
      BY <2>1, IdleBetween DEF OrderInv, CurrentInv
    <2>3. Lifecycle!Fail(Here)
      BY <2>1, <2>2, <1>needs DEF Lifecycle!Fail, Lifecycle!Idle, needs
    <2> QED BY <2>3, <1>node, <1>type DEF Lifecycle!NodeStep
  <1>6. CASE GateFail
    <2>1. pc = "gateFail" /\ run' = "failed" /\ UNCHANGED <<status, spec>>
      BY <1>6 DEF GateFail, Return
    <2>2. run = "running" /\ status[Here] = "failed"
      BY <2>1 DEF TypeInv, TypeOK, IInv, Coverage, QuietInv, OrderInv, CurrentInv
    <2>3. Lifecycle!With("running") = {} /\ Lifecycle!With("failed") # {}
      BY <2>1, <2>2, <1>type DEF OrderInv, CurrentInv, Running, Lifecycle!With
    <2>4. Lifecycle!Halt
      BY <2>1, <2>2, <2>3, <1>needs DEF Lifecycle!Halt, Lifecycle!Stopped, needs
    <2> QED BY <2>4 DEF Lifecycle!RunNext
  <1>7. CASE Dispatch
    <2>1. pc = "gate" /\ status' = [status EXCEPT ![Here] = "running"] /\ UNCHANGED <<run, spec>>
      BY <1>7 DEF Dispatch, AttemptAt
    <2>2. Lifecycle!Idle /\ status[Here] = "pending"
      BY <2>1, IdleBetween DEF OrderInv, CurrentInv
    <2>3. Parents(Here) \intersect Node \subseteq Lifecycle!With("completed")
      BY <2>1 DEF OrderInv, ContextInv, Lifecycle!With
    <2>4. Lifecycle!StartNode(Here)
      BY <2>1, <2>2, <2>3, <1>needs, <1>type DEF Lifecycle!StartNode, needs
    <2> QED BY <2>4, <1>node, <1>type DEF Lifecycle!NodeStep
  <1>8. CASE CreateWorktree
    BY <1>8, <1>still DEF CreateWorktree
  <1>9. CASE TransientFailure
    BY <1>9, <1>still DEF TransientFailure, AttemptAt
  <1>10. CASE InvocationFails
    BY <1>10, <1>still DEF InvocationFails
  <1>11. CASE InvocationSucceeds
    BY <1>11, <1>still DEF InvocationSucceeds
  <1>12. CASE SaveResult
    BY <1>12, <1>still DEF SaveResult
  <1>13. CASE Complete
    <2>1. pc = "complete" /\ status' = [status EXCEPT ![Here] = "completed"] /\ UNCHANGED <<run, spec>>
      BY <1>13 DEF Complete
    <2>2. run = "running" /\ status[Here] = "running"
      BY <2>1 DEF TypeInv, TypeOK, IInv, Coverage, QuietInv, OrderInv, CurrentInv, Running
    <2>3. Lifecycle!Succeed(Here)
      BY <2>1, <2>2, <1>needs DEF Lifecycle!Succeed, needs
    <2> QED BY <2>3, <1>node, <1>type DEF Lifecycle!NodeStep
  <1>14. CASE Discover
    BY <1>14, <1>still DEF Discover
  <1>15. CASE Rerun
    BY <1>15, <1>still DEF Rerun, AttemptAt
  <1>16. CASE Escalate
    BY <1>16, <1>still DEF Escalate
  <1>17. CASE EscalateNode
    <2>1. pc = "escalateNode" /\ status' = [status EXCEPT ![Here] = "failed"] /\ UNCHANGED <<run, spec>>
      BY <1>17 DEF EscalateNode
    <2>2. run = "running" /\ status[Here] = "running"
      BY <2>1 DEF TypeInv, TypeOK, IInv, Coverage, QuietInv, OrderInv, CurrentInv, Running
    <2>3. Lifecycle!Fail(Here)
      BY <2>1, <2>2, <1>needs DEF Lifecycle!Fail, needs
    <2> QED BY <2>3, <1>node, <1>type DEF Lifecycle!NodeStep
  <1>18. CASE EscalateRun
    <2>1. pc = "escalateRun" /\ run' = "escalated" /\ UNCHANGED <<status, spec>>
      BY <1>18 DEF EscalateRun, Return
    <2>2. run = "running" /\ status[Here] = "failed"
      BY <2>1 DEF TypeInv, TypeOK, IInv, Coverage, QuietInv, OrderInv, CurrentInv
    <2>3. Lifecycle!With("running") = {} /\ Lifecycle!With("failed") # {}
      BY <2>1, <2>2, <1>type DEF OrderInv, CurrentInv, Running, Lifecycle!With
    <2>4. Lifecycle!Halt
      BY <2>1, <2>2, <2>3, <1>needs DEF Lifecycle!Halt, Lifecycle!Stopped, needs
    <2> QED BY <2>4 DEF Lifecycle!RunNext
  <1>19. CASE Spawn
    <2>1. /\ pc = "spawn" /\ UNCHANGED <<run, status>>
          /\ UNCHANGED spec \/ spec' = [spec EXCEPT ![depth + 1] = out.child]
      BY <1>19 DEF Spawn
    <2>2. Lifecycle!Idle
      BY <2>1, IdleBetween DEF Spawning
    <2>3. \A n \in Node : n.level > depth => status[n] = "absent"
      <3>1. UseComposites /\ out.child # NoSpec
        BY <2>1, ConstantsAssumption DEF OrderInv, SpecInv, Spawning
      <3>2. Here.kind = "plan" /\ Here \in FrameNodes(depth) /\ depth \in 0 .. depth
        BY <2>1, <1>type DEF OrderInv, SpecInv, StackInv, Spawning, InNode
      <3>3. Here = Plan(depth)
        BY <3>1, <3>2, FrameLevel
      <3> QED BY <2>1, <3>1, <3>3 DEF OrderInv, FreshInv, InNode, Spawning
    <2>4. \A n \in Node : status[n] # "absent" => Parents(n)' = Parents(n)
      <3>1. ASSUME NEW n \in Node, status[n] # "absent" PROVE spec'[n.level] = spec[n.level]
        <4>1. n.level \in Levels /\ n.level \in Nat /\ ~(n.level > depth)
          BY <2>3, <3>1 DEF Node, Levels
        <4>2. n.level # depth + 1
          BY <4>1, <1>type
        <4> QED BY <2>1, <4>1, <4>2 DEF TypeInv, TypeOK
      <3> QED BY <3>1 DEF Parents
    <2>5. \A n \in Lifecycle!Rows : needs'[n] = needs[n]
      BY <2>4 DEF Lifecycle!Rows, Lifecycle!With, needs
    <2>6. needs' \in [Node -> SUBSET Node]
      BY DEF needs
    <2>7. Lifecycle!LayOut
      BY <2>1, <2>2, <2>5, <2>6 DEF Lifecycle!LayOut, needs
    <2> QED BY <2>7 DEF Lifecycle!RunNext
  <1>20. CASE Persist
    <2>1. PICK n \in ChildNodes(depth + 1, spec[depth + 1]) :
             status[n] = "absent" /\ status' = [status EXCEPT ![n] = "pending"]
      BY <1>20 DEF Persist
    <2>2. pc = "persist" /\ UNCHANGED <<run, spec>>
      BY <1>20 DEF Persist
    <2>3. depth + 1 \in Levels
      BY <2>2, ConstantsAssumption DEF TypeInv, TypeOK, SpawnDepth, Levels
    <2>4. n \in Node
      BY <2>3, ChildNodesType DEF TypeInv, TypeOK
    <2>5. Lifecycle!Idle
      BY <2>2, IdleBetween DEF Spawning
    <2>6. Lifecycle!Create(n)
      BY <2>1, <2>2, <2>5, <1>needs DEF Lifecycle!Create, needs
    <2> QED BY <2>4, <2>6, <1>node DEF Lifecycle!NodeStep
  <1>21. CASE PersistDuplicate
    BY <1>21, <1>still DEF PersistDuplicate
  <1>22. CASE EnterChild
    BY <1>22, <1>still DEF EnterChild
  <1>23. CASE Drain("drain", "increment")
    BY <1>23, <1>still DEF Drain
  <1>24. CASE Increment("increment", "check")
    BY <1>24, <1>still DEF Increment
  <1>25. CASE CheckPause
    BY <1>25, <1>still DEF CheckPause
  <1>26. CASE Drain("drainPause", "incrementPause")
    BY <1>26, <1>still DEF Drain
  <1>27. CASE Increment("incrementPause", "pause")
    BY <1>27, <1>still DEF Increment
  <1>28. CASE Pause
    <2>1. pc = "pause" /\ run' = "paused" /\ UNCHANGED <<status, spec>>
      BY <1>28 DEF Pause, Return
    <2>2. run \in {"running"} \union Halted
      BY <2>1 DEF TypeInv, TypeOK, IInv, Coverage
    <2>3. Lifecycle!With("running") = {}
      BY <2>1 DEF OrderInv, CurrentInv, Running, Lifecycle!With
    <2>4. Lifecycle!Halt
      BY <2>1, <2>2, <2>3, <1>needs DEF Lifecycle!Halt, Lifecycle!Stopped, Halted, needs
    <2> QED BY <2>4 DEF Lifecycle!RunNext
  <1>29. CASE UNCHANGED vars
    BY <1>29, <1>still DEF vars
  <1> QED
    BY <1>1, <1>2, <1>3, <1>4, <1>5, <1>6, <1>7, <1>8, <1>9, <1>10, <1>11, <1>12,
       <1>13, <1>14, <1>15, <1>16, <1>17, <1>18, <1>19, <1>20, <1>21, <1>22, <1>23,
       <1>24, <1>25, <1>26, <1>27, <1>28, <1>29
    DEF Next, DrainNode, DrainPause, Ended

\* The executor implements DagRun, for all composites, nesting, retries and costs.
THEOREM Implementation == Spec => ImplementsDagRun
  <1>1. Init => Lifecycle!RunInit
    BY DEF Init, Lifecycle!RunInit
  <1>2. TypeInv /\ IInv /\ OrderInv /\ [Next]_vars => [Lifecycle!RunNext]_(Lifecycle!runVars)
    BY StepOfDagRun
  <1> QED BY <1>1, <1>2, OrderHolds, TypeCorrect, IInvHolds, PTL
          DEF Spec, ImplementsDagRun, Lifecycle!RunSpec

-----------------------------------------------------------------------------
(* The executor keeps the contract it has with each Coding node.            *)

\* An attempt at a Coding composite has its worktree's branch in the row.
LocalInv == UseComposites /\ pc = "invoke" /\ Here.kind = "coding" => branch[Here] = "local"

\* Only CreateWorktree leads a Coding node to its invocation.
LEMMA NextLocal == TypeInv /\ LocalInv /\ [Next]_vars => LocalInv'
  <1> SUFFICES ASSUME TypeInv, LocalInv, [Next]_vars, UseComposites, pc' = "invoke",
                      Here'.kind = "coding"
               PROVE  branch'[Here'] = "local"
    BY DEF LocalInv
  <1> USE DEF control, attempt, rows, ledger, budget
  <1>type. Here \in Node /\ branch \in [Node -> {"none", "local", "pushed", "reported"}]
    BY DEF TypeInv, TypeOK, Here
  <1>here. ASSUME UNCHANGED <<depth, cur>> PROVE Here' = Here
    BY <1>here DEF Here
  <1>1. CASE CreateWorktree
    <2>1. UNCHANGED <<depth, cur>> /\ branch' = [branch EXCEPT ![Here] = "local"]
      BY <1>1 DEF CreateWorktree
    <2> QED BY <2>1, <1>here, <1>type
  <1>2. CASE Dispatch \/ TransientFailure \/ Rerun
    <2>1. UNCHANGED <<depth, cur>> /\ pc' \in {AttemptAt(Here), "failed"}
      BY <1>2 DEF Dispatch, TransientFailure, Rerun
    <2> QED BY <2>1, <1>here DEF AttemptAt
  <1>3. CASE UNCHANGED vars \/ Ended
    <2>1. UNCHANGED <<pc, depth, cur, branch>>
      BY <1>3 DEF vars, Ended
    <2> QED BY <2>1, <1>here DEF LocalInv
  <1> QED
    BY <1>1, <1>2, <1>3
    DEF Next, Start, NextNode, LoopEnd, Finish, GateBlocked, GateFail, Return, InvocationFails,
        InvocationSucceeds, SaveResult, Complete, Discover, Escalate, EscalateNode, EscalateRun,
        Spawn, Persist, PersistDuplicate, EnterChild, DrainNode, DrainPause, Drain, Increment,
        CheckPause, Pause

\* What an attempt that fails leaves in the row.
LEMMA FailureExits ==
    ASSUME TypeInv, LocalInv, UseComposites, Here.kind = "coding", pc \in {"worktree", "invoke"},
           PushOnExit(ExitsOfFailure)
    PROVE  /\ pc = "worktree" => branch'[Here] = branch[Here]
           /\ pc = "invoke" => branch'[Here] \in {"local", "pushed", "none"}
  <1>1. Here \in Node /\ branch \in [Node -> {"none", "local", "pushed", "reported"}]
    BY DEF TypeInv, TypeOK, Here
  <1>2. CASE pc = "worktree"
    BY <1>2 DEF PushOnExit
  <1>3. CASE pc = "invoke"
    <2>1. \E b \in ExitsOfFailure : branch' = [branch EXCEPT ![Here] = b]
      BY <1>3 DEF PushOnExit, LocalInv
    <2> QED BY <1>1, <1>3, <2>1 DEF ExitsOfFailure
  <1> QED BY <1>2, <1>3

\* A step that leaves the row of n alone does not take n anywhere, unless n is
\* being worked at.
LEMMA ContractStill ==
    ASSUME NEW n \in Node, status[n] \in {"absent", "pending", "completed", "failed"},
           status'[n] = status[n] \/ (status[n] = "absent" /\ status'[n] = "pending"),
           branch'[n] = branch[n]
    PROVE  UNCHANGED Contract(n)!nodeVars
  <1>1. PhaseOf(n)' = PhaseOf(n)
    BY DEF PhaseOf
  <1>2. status[n] # "running" /\ status'[n] # "running"
    OBVIOUS
  <1> QED BY <1>1, <1>2 DEF Contract!nodeVars

\* A step taken at a Coding node that is being worked at is one of the contract.
LEMMA ContractAtWork ==
    ASSUME TypeInv, CurrentInv, LocalInv, UseComposites, Next, pc \in Running,
           NEW n \in Node, n = Here, n.kind = "coding"
    PROVE  [Contract(n)!NodeNext]_(Contract(n)!nodeVars)
  <1> USE DEF attempt, rows, Contract!nodeVars, Contract!NodeNext, PhaseOf
  <1>type. /\ branch \in [Node -> {"none", "local", "pushed", "reported"}]
           /\ status \in [Node -> {"absent", "pending", "running", "completed", "failed"}]
           /\ status[n] = "running"
    BY DEF TypeInv, TypeOK, CurrentInv
  <1>1. CASE CreateWorktree
    <2>1. /\ pc = "worktree" /\ pc' = "invoke" /\ status' = status
          /\ branch' = [branch EXCEPT ![n] = "local"]
      BY <1>1 DEF CreateWorktree
    <2> QED BY <2>1, <1>type DEF Contract!NewWorktree
  <1>2. CASE TransientFailure \/ InvocationFails
    <2>1. /\ pc \in {"worktree", "invoke"} /\ pc' \in {"worktree", "failed"} /\ status' = status
          /\ PushOnExit(ExitsOfFailure)
      BY <1>2 DEF TransientFailure, InvocationFails, AttemptAt
    <2>2. CASE pc = "worktree"
      <3>1. branch'[n] = branch[n]
        BY <2>1, <2>2, FailureExits
      <3> QED BY <2>1, <2>2, <3>1, <1>type DEF Contract!AttemptFails
    <2>3. CASE pc = "invoke"
      <3>1. branch'[n] \in {"local", "pushed", "none"}
        BY <2>1, <2>3, FailureExits
      <3> QED BY <2>1, <2>3, <3>1, <1>type DEF Contract!AttemptFails
    <2> QED BY <2>1, <2>2, <2>3
  <1>3. CASE InvocationSucceeds
    <2>1. /\ pc = "invoke" /\ pc' = "save" /\ status' = status /\ out' \in Outcomes(n)
          /\ PushOnExit({"pushed"} \union (IF out'.branch = "none" THEN {"none"} ELSE {}))
      BY <1>3 DEF InvocationSucceeds
    <2>2. out'.branch \in {"none", "reported"}
      BY <2>1 DEF Outcomes
    <2>3. branch'[n] = "pushed" \/ (branch'[n] = "none" /\ out'.branch = "none")
      BY <2>1, <1>type DEF LocalInv, PushOnExit
    <2> QED BY <2>1, <2>2, <2>3, <1>type DEF Contract!AttemptAnswers
  <1>4. CASE SaveResult
    <2>1. pc = "save" /\ pc' = "complete" /\ UNCHANGED <<status, branch, out>>
      BY <1>4 DEF SaveResult
    <2> QED BY <2>1, <1>type
  <1>5. CASE Complete
    <2>1. /\ pc = "complete" /\ status' = [status EXCEPT ![n] = "completed"]
          /\ branch' = [branch EXCEPT ![n] = IF out.branch = "none" THEN @ ELSE out.branch]
      BY <1>5 DEF Complete
    <2>2. /\ status'[n] = "completed"
          /\ branch'[n] = IF out.branch = "none" THEN branch[n] ELSE out.branch
      BY <2>1, <1>type
    <2> QED BY <2>1, <2>2, <1>type DEF Contract!Complete
  <1>6. CASE Rerun
    <2>1. pc = "failed" /\ pc' = "worktree" /\ UNCHANGED <<status, branch>>
      BY <1>6 DEF Rerun, AttemptAt
    <2> QED BY <2>1, <1>type DEF Contract!TryAgain
  <1>7. CASE Escalate
    <2>1. pc = "failed" /\ pc' = "escalateNode" /\ UNCHANGED <<status, branch>>
      BY <1>7 DEF Escalate
    <2> QED BY <2>1, <1>type
  <1>8. CASE EscalateNode
    <2>1. pc = "escalateNode" /\ status'[n] = "failed" /\ UNCHANGED branch
      BY <1>8, <1>type DEF EscalateNode
    <2> QED BY <2>1, <1>type DEF Contract!GiveUp
  <1> QED
    BY <1>1, <1>2, <1>3, <1>4, <1>5, <1>6, <1>7, <1>8
    DEF Running, Next, Start, NextNode, LoopEnd, Finish, GateBlocked, GateFail, Dispatch, Discover,
        EscalateRun, Spawn, Persist, PersistDuplicate, EnterChild, DrainNode, DrainPause, Drain,
        Increment, CheckPause, Pause, Ended

\* Any other step leaves a Coding node where it is: dispatching it is none of its
\* composite's business.
LEMMA ContractElsewhere ==
    ASSUME TypeInv, CurrentInv, UseComposites, Next, NEW n \in Node, n.kind = "coding",
           pc \notin Running \/ n # Here
    PROVE  UNCHANGED Contract(n)!nodeVars
  <1> USE DEF control, attempt, rows, ledger, budget
  <1>type. /\ branch \in [Node -> {"none", "local", "pushed", "reported"}]
           /\ status \in [Node -> {"absent", "pending", "running", "completed", "failed"}]
           /\ status[n] # "running"
    BY DEF TypeInv, TypeOK, CurrentInv
  <1>1. CASE pc \in Running
    <2>1. n # Here
      BY <1>1
    <2>2. /\ status' = status \/ \E v : status' = [status EXCEPT ![Here] = v]
          /\ branch' = branch \/ \E v : branch' = [branch EXCEPT ![Here] = v]
      <3>1. CASE CreateWorktree \/ TransientFailure \/ InvocationFails \/ InvocationSucceeds
        BY <3>1, Zenon DEF CreateWorktree, TransientFailure, InvocationFails, InvocationSucceeds,
                           PushOnExit
      <3>2. CASE SaveResult \/ Complete \/ Rerun \/ Escalate \/ EscalateNode
        BY <3>2 DEF SaveResult, Complete, Rerun, Escalate, EscalateNode
      <3> QED
        BY <1>1, <3>1, <3>2
        DEF Running, Next, Start, NextNode, LoopEnd, Finish, GateBlocked, GateFail, Dispatch,
            Discover, EscalateRun, Spawn, Persist, PersistDuplicate, EnterChild, DrainNode,
            DrainPause, Drain, Increment, CheckPause, Pause, Ended
    <2>3. status'[n] = status[n] /\ branch'[n] = branch[n]
      BY <2>1, <2>2, <1>type
    <2> QED BY <2>3, <1>type, ContractStill
  <1>2. CASE pc \notin Running
    <2>1. CASE GateBlocked
      <3>1. Here # n /\ branch' = branch /\ status' = [status EXCEPT ![Here] = "failed"]
        BY <2>1 DEF GateBlocked, CanDispatch
      <3> QED BY <3>1, <1>type, ContractStill
    <2>2. CASE Dispatch
      <3>1. /\ pc = "gate" /\ pc' = AttemptAt(Here) /\ branch' = branch
            /\ status' = [status EXCEPT ![Here] = "running"]
        BY <2>2 DEF Dispatch
      <3>2. CASE n # Here
        BY <3>1, <3>2, <1>type, ContractStill
      <3>3. CASE n = Here
        <4>1. pc' = "worktree" /\ status'[n] = "running" /\ status[n] = "pending"
          BY <3>1, <3>3, <1>type DEF AttemptAt, CurrentInv
        <4> QED BY <3>1, <4>1 DEF Contract!nodeVars, PhaseOf
      <3> QED BY <3>2, <3>3
    <2>3. CASE Persist
      <3>1. /\ branch' = branch
            /\ \E m : status[m] = "absent" /\ status' = [status EXCEPT ![m] = "pending"]
        BY <2>3, Zenon DEF Persist
      <3> QED BY <3>1, <1>type, ContractStill
    <2>4. CASE UNCHANGED <<status, branch>>
      BY <2>4, <1>type, ContractStill
    <2> QED
      BY <1>2, <2>1, <2>2, <2>3, <2>4
      DEF Running, vars, Next, Start, NextNode, LoopEnd, Finish, GateFail, CreateWorktree,
          TransientFailure, InvocationFails, InvocationSucceeds, SaveResult, Complete, Discover,
          Rerun, Escalate, EscalateNode, EscalateRun, Spawn, PersistDuplicate, EnterChild,
          DrainNode, DrainPause, Drain, Increment, CheckPause, Pause, Ended
  <1> QED BY <1>1, <1>2

\* The executor makes an attempt at a Coding node only in a worktree of its own,
\* takes whatever the composite leaves in the row, and asks for no more.
THEOREM ContractsAreKept == Spec => ImplementsContracts
  <1> SUFFICES ASSUME UseComposites, NEW n \in Node, n.kind = "coding"
               PROVE  Spec => Contract(n)!NodeSpec
    BY DEF ImplementsContracts
  <1>1. Init => LocalInv /\ Contract(n)!NodeInit
    BY DEF Init, LocalInv, Contract!NodeInit, PhaseOf
  <1>2. TypeInv /\ CurrentInv /\ LocalInv /\ [Next]_vars
           => [Contract(n)!NodeNext]_(Contract(n)!nodeVars)
    <2> SUFFICES ASSUME TypeInv, CurrentInv, LocalInv, [Next]_vars
                 PROVE  [Contract(n)!NodeNext]_(Contract(n)!nodeVars)
      OBVIOUS
    <2>1. CASE Next /\ pc \in Running /\ n = Here
      BY <2>1, ContractAtWork
    <2>2. CASE Next /\ (pc \notin Running \/ n # Here)
      BY <2>2, ContractElsewhere
    <2>3. CASE UNCHANGED vars
      BY <2>3 DEF vars, attempt, rows, Contract!nodeVars, PhaseOf
    <2> QED BY <2>1, <2>2, <2>3
  <1>3. OrderInv => CurrentInv
    BY DEF OrderInv
  <1> QED
    BY <1>1, <1>2, <1>3, NextLocal, OrderHolds, TypeCorrect, PTL
    DEF Spec, Contract!NodeSpec
=============================================================================
