------------------------- MODULE OrchestratorProofs -------------------------
(***************************************************************************)
(* Theorems about Orchestrator, for every number of composites per level:  *)
(* it implements StatusServer over DagRun, what its client sees, and that  *)
(* what it returns and publishes belongs together.                         *)
(***************************************************************************)
EXTENDS Orchestrator, StatusServerProofs, WellFoundedInduction

-----------------------------------------------------------------------------
(* The parents of a node.                                                  *)

LEMMA Numbers ==
    /\ Depth \in Nat
    /\ \A l \in 1 .. Depth : Widths[l] \in Nat \ {0}
  BY OrchestratorAssumption, SMT DEF Depth

LEMMA PlanIsNode == \A l \in 0 .. Depth : Plan(l) \in Nodes
  BY OrchestratorAssumption DEF AllNodes

LEMMA CompositeIsNode ==
    \A l \in 1 .. Depth : \A w \in 1 .. Widths[l] :
        Coding(l, w) \in Nodes /\ Review(l, w) \in Nodes
  <1> SUFFICES ASSUME NEW l \in 1 .. Depth, NEW w \in 1 .. Widths[l]
               PROVE  Coding(l, w) \in Nodes /\ Review(l, w) \in Nodes
    OBVIOUS
  <1>1. <<l, w>> \in Composites
    BY DEF Composites
  <1>2. <<l, w>>[1] = l /\ <<l, w>>[2] = w
    OBVIOUS
  <1>3. Coding(<<l, w>>[1], <<l, w>>[2]) \in AllNodes /\ Review(<<l, w>>[1], <<l, w>>[2]) \in AllNodes
    BY <1>1 DEF AllNodes
  <1> QED
    BY <1>2, <1>3, OrchestratorAssumption

\* A node is a Plan of some level, or one of the two nodes of a composite.
LEMMA NodeForms ==
    ASSUME NEW n \in Nodes
    PROVE  \/ \E l \in 0 .. Depth : n = Plan(l)
           \/ \E l \in 1 .. Depth : \E w \in 1 .. Widths[l] : n = Coding(l, w) \/ n = Review(l, w)
  <1>1. n \in AllNodes
    BY OrchestratorAssumption
  <1>2. ASSUME NEW c \in Composites
        PROVE  \E l \in 1 .. Depth : \E w \in 1 .. Widths[l] : c = <<l, w>>
    BY DEF Composites
  <1>3. ASSUME NEW c \in Composites
        PROVE  \E l \in 1 .. Depth : \E w \in 1 .. Widths[l] : c[1] = l /\ c[2] = w
    <2>1. PICK l \in 1 .. Depth : \E w \in 1 .. Widths[l] : c = <<l, w>>
      BY <1>2
    <2>2. PICK w \in 1 .. Widths[l] : c = <<l, w>>
      BY <2>1
    <2> QED
      BY <2>2
  <1> QED
    BY <1>1, <1>3 DEF AllNodes

LEMMA NeedsAreNodes == Needs \in [Nodes -> SUBSET Nodes]
  <1> SUFFICES ASSUME NEW n \in Nodes PROVE Needs[n] \subseteq Nodes
    BY DEF Needs
  <1>1. CASE \E l \in 0 .. Depth : n = Plan(l)
    <2>1. PICK l \in 0 .. Depth : n = Plan(l)
      BY <1>1
    <2>2. n[1] = "plan" /\ n[2] = l
      BY <2>1 DEF Plan
    <2>3. Needs[n] = IF l = 0 THEN {} ELSE {Review(l, w) : w \in 1 .. Widths[l]}
      BY <2>2 DEF Needs
    <2>4. l # 0 => l \in 1 .. Depth
      BY Numbers, SMT
    <2> QED
      BY <2>3, <2>4, CompositeIsNode
  <1>2. ASSUME NEW l \in 1 .. Depth, NEW w \in 1 .. Widths[l], n = Coding(l, w)
        PROVE  Needs[n] \subseteq Nodes
    <2>1. n[1] = "coding" /\ n[2] = l
      BY <1>2 DEF Coding
    <2>2. Needs[n] = {Plan(l - 1)}
      BY <2>1 DEF Needs
    <2>3. l - 1 \in 0 .. Depth
      BY Numbers, SMT
    <2> QED
      BY <2>2, <2>3, PlanIsNode
  <1>3. ASSUME NEW l \in 1 .. Depth, NEW w \in 1 .. Widths[l], n = Review(l, w)
        PROVE  Needs[n] \subseteq Nodes
    <2>1. n[1] = "review" /\ n[2] = l /\ n[3] = w
      BY <1>3 DEF Review
    <2>2. Needs[n] = {Coding(l, w)}
      BY <2>1 DEF Needs
    <2> QED
      BY <2>2, CompositeIsNode
  <1> QED
    BY <1>1, <1>2, <1>3, NodeForms

-----------------------------------------------------------------------------
(* The implementation.                                                     *)

LEMMA ServesInit == Init => RunInit /\ ClientInit
  BY NeedsAreNodes DEF Init, RunInit

LEMMA DieStep == Die => [ServerNext]_serverVars
  BY DEF Die, ServerNext

LEMMA ServesStep == [Next]_vars => [ServerNext]_serverVars
  <1> SUFFICES ASSUME [Next]_vars PROVE [ServerNext]_serverVars
    OBVIOUS
  <1>1. CASE CreateNodes
    BY <1>1 DEF CreateNodes, FirstNodes, ServerNext, RunNext, NodeStep
  <1>2. CASE Execute
    <2>1. ASSUME NEW n \in Nodes, Step(n) PROVE NodeStep(n)
      BY <2>1 DEF Step, NodeStep
    <2>2. RunNext /\ UNCHANGED client
      BY <1>2, <2>1 DEF Execute, RunNext
    <2> QED
      BY <2>2 DEF ServerNext
  <1>3. CASE \/ StartServer \/ Bind \/ ExecuteReturns \/ ExecuteRaises \/ Shutdown
             \/ Extract \/ Publish \/ CloseStore \/ ServerEnds
    BY <1>3 DEF StartServer, Bind, ExecuteReturns, ExecuteRaises, Shutdown, Extract,
                Publish, CloseStore, ServerEnds
  <1>4. CASE Exit \/ Crash \/ PortConflict
    BY <1>4, DieStep DEF Exit, Crash, PortConflict
  <1>5. CASE Ask \/ Answer
    BY <1>5 DEF Ask, AskHttp, AskCli, Answer, ServerNext
  <1>6. CASE Refuse
    BY <1>6 DEF Refuse, ServerNext
  <1>7. CASE UNCHANGED vars
    BY <1>7 DEF vars
  <1> QED
    BY <1>1, <1>2, <1>3, <1>4, <1>5, <1>6, <1>7 DEF Next

\* What a client gets from the process, or from `agent-agent status' beside it and
\* after it, is what StatusServer answers over a DagRun, whatever crashes
\* (orchestrator.py, run; cli.py, _run_async and _status_async).
THEOREM Serves == Spec => ServesTheRun
  BY ServesInit, ServesStep, PTL DEF Spec, ServesTheRun, ServerSpec

\* Hence what is proved of its answers.
COROLLARY OrchestratorCompletedAnswers == Spec => []CompletedShowsAll
  BY Serves, CompletedAnswers, PTL DEF ServesTheRun

COROLLARY OrchestratorHaltAnswers == Spec => []HaltShowsCause
  BY Serves, HaltAnswers, PTL DEF ServesTheRun

-----------------------------------------------------------------------------
(* A client that is refused.                                               *)

StoreInv ==
    /\ ~store => pc \in {"exit", "down"}
    /\ refused => ~store

LEMMA StoreInit == Init => StoreInv
  BY DEF Init, StoreInv

LEMMA StoreStep == StoreInv /\ [Next]_vars => StoreInv'
  <1> SUFFICES ASSUME StoreInv, [Next]_vars PROVE StoreInv'
    OBVIOUS
  <1> USE DEF StoreInv
  <1>1. CASE \/ CreateNodes \/ StartServer \/ ExecuteReturns \/ ExecuteRaises \/ Shutdown
             \/ Extract \/ Publish
    BY <1>1 DEF CreateNodes, StartServer, ExecuteReturns, ExecuteRaises, Shutdown, Extract,
                Publish, web
  <1>2. CASE Bind \/ Execute \/ Ask \/ Answer \/ ServerEnds
    BY <1>2 DEF Bind, Execute, Ask, Answer, ServerEnds, process, web
  <1>3. CASE CloseStore
    BY <1>3 DEF CloseStore
  <1>4. CASE Exit \/ Crash \/ PortConflict
    BY <1>4 DEF Exit, Crash, PortConflict, Die
  <1>5. CASE Refuse
    BY <1>5 DEF Refuse, process, web
  <1>6. CASE UNCHANGED vars
    BY <1>6 DEF vars, process, web
  <1> QED
    BY <1>1, <1>2, <1>3, <1>4, <1>5, <1>6 DEF Next

\* A refusal comes from a closed store, after execute() (orchestrator.py:212,
\* cli.py:131): no row changes any more.
THEOREM RefusalsAreFinal == Spec => RefusedIsFinal
  <1>1. StoreInv /\ [Next]_vars => [refused => UNCHANGED runVars]_vars
    <2> SUFFICES ASSUME StoreInv, [Next]_vars, refused PROVE UNCHANGED runVars
      OBVIOUS
    <2>1. pc \in {"exit", "down"}
      BY DEF StoreInv
    <2>2. ~CreateNodes /\ ~Execute
      BY <2>1 DEF CreateNodes, Execute
    <2>3. CASE \/ StartServer \/ Bind \/ ExecuteReturns \/ ExecuteRaises \/ Shutdown
               \/ Extract \/ Publish \/ CloseStore \/ ServerEnds \/ UNCHANGED vars
      BY <2>3 DEF StartServer, Bind, ExecuteReturns, ExecuteRaises, Shutdown, Extract,
                  Publish, CloseStore, ServerEnds, vars, serverVars
    <2>4. CASE Exit \/ Crash \/ PortConflict
      BY <2>4 DEF Exit, Crash, PortConflict, Die, Drop, serverVars
    <2>5. CASE Ask \/ Answer \/ Refuse
      BY <2>5 DEF Ask, AskHttp, AskCli, Answer, Refuse, ReadRun, ReadNodes, Drop, serverVars
    <2> QED
      BY <2>2, <2>3, <2>4, <2>5 DEF Next
  <1> QED
    BY <1>1, StoreInit, StoreStep, PTL DEF Spec, RefusedIsFinal

-----------------------------------------------------------------------------
(* Types.                                                                  *)

\* What the process and the client have of their own.
ProcessOK ==
    /\ pc \in {"create", "serve", "execute", "shutdown", "abort", "extract", "publish",
               "returned", "raised", "exit", "down"}
    /\ unpushed \subseteq Nodes /\ unnamed \subseteq Nodes
    /\ server \in {"off", "starting", "serving"}
    /\ stop \in BOOLEAN /\ store \in BOOLEAN /\ refused \in BOOLEAN
ViaOK == via \in {"none", "http", "cli"} /\ (asked <=> via # "none")
OutcomeOK ==
    /\ result \in [branch : Composites \union {None}, summary : Composites \union {None}]
    /\ pr \in Composites \union {None}

\* The composites that are done are composites, and the last of them is one.
LEMMA CompletedAre == \A kind \in {"coding", "review"} : Completed(kind) \subseteq Composites
  <1> SUFFICES ASSUME NEW kind \in {"coding", "review"},
                      NEW n \in Nodes, n[1] = kind
               PROVE  CompositeOf(n) \in Composites
    BY DEF Completed, With
  <1>1. ~ \E l \in 0 .. Depth : n = Plan(l)
    BY DEF Plan
  <1>2. PICK l \in 1 .. Depth : \E w \in 1 .. Widths[l] : n = Coding(l, w) \/ n = Review(l, w)
    BY <1>1, NodeForms
  <1>3. PICK w \in 1 .. Widths[l] : n = Coding(l, w) \/ n = Review(l, w)
    BY <1>2
  <1>4. n[2] = l /\ n[3] = w
    BY <1>3 DEF Coding, Review
  <1>5. <<l, w>> \in Composites
    BY DEF Composites
  <1> QED
    BY <1>4, <1>5 DEF CompositeOf

Below == OpToRel(<, Nat)

\* Less-than as a relation.
LEMMA BelowIsLess == \A x, y \in Nat : <<x, y>> \in Below <=> x < y
  BY SMT DEF Below, OpToRel

\* A set of naturals that is not empty has a least element.
LEMMA Least ==
    ASSUME NEW T \in SUBSET Nat, T # {}
    PROVE  \E x \in T : \A y \in T : x <= y
  <1>1. IsWellFoundedOn(Below, Nat)
    BY NatLessThanWellFounded, Zenon DEF Below
  <1>2. \E x \in T : \A y \in T : <<y, x>> \notin Below
    BY <1>1, WFMin, Zenon
  <1>3. \A x, y \in T : <<y, x>> \notin Below => x <= y
    BY BelowIsLess, SMT
  <1> QED
    BY <1>2, <1>3

\* A bounded set of naturals that is not empty has a greatest element.
LEMMA Greatest ==
    ASSUME NEW b \in Nat, NEW T \in SUBSET (0 .. b), T # {}
    PROVE  \E x \in T : \A y \in T : y <= x
  <1> DEFINE D == {k \in 0 .. b : b - k \in T}
  <1>1. D \in SUBSET Nat
    OBVIOUS
  <1>2. D # {}
    <2>1. PICK x \in T : TRUE
      OBVIOUS
    <2>2. b - x \in 0 .. b /\ b - (b - x) = x
      BY <2>1
    <2> QED
      BY <2>1, <2>2
  <1>3. PICK k \in D : \A m \in D : k <= m
    <2> HIDE DEF D
    <2> QED
      BY <1>1, <1>2, Least
  <1>4. \A y \in T : y <= b - k
    <2> SUFFICES ASSUME NEW y \in T PROVE y <= b - k
      OBVIOUS
    <2>1. b - y \in 0 .. b /\ b - (b - y) = y
      OBVIOUS
    <2>2. b - y \in D
      BY <2>1
    <2>3. k <= b - y /\ k \in 0 .. b
      BY <1>3, <2>2
    <2> QED
      BY <2>1, <2>3
  <1> QED
    BY <1>3, <1>4

\* The loop over the rows ends with the composite that comes after all others.
LEMMA LastOfDone ==
    ASSUME NEW done \in SUBSET Composites
    PROVE  /\ done = {} => LastOf(done) = None
           /\ done # {} => /\ LastOf(done) \in done
                           /\ \A d \in done : d[1] <= LastOf(done)[1]
                           /\ \A d \in done \ {LastOf(done)} : Precedes(d, LastOf(done))
  <1>1. ASSUME NEW c \in Composites
        PROVE  c[1] \in 1 .. Depth /\ c[2] \in 1 .. Widths[c[1]] /\ c = <<c[1], c[2]>>
    <2>1. PICK l \in 1 .. Depth : \E w \in 1 .. Widths[l] : c = <<l, w>>
      BY DEF Composites
    <2>2. PICK w \in 1 .. Widths[l] : c = <<l, w>>
      BY <2>1
    <2> QED
      BY <2>2
  <1>2. ASSUME done # {}
        PROVE  \E c \in done : \A d \in done \ {c} : Precedes(d, c)
    <2> DEFINE Levels == {d[1] : d \in done}
    <2>1. Levels \in SUBSET (0 .. Depth) /\ Levels # {} /\ Depth \in Nat
      <3>1. \A d \in done : d[1] \in 0 .. Depth
        BY <1>1, Numbers
      <3> QED
        BY <1>2, <3>1, Numbers
    <2>2. PICK l \in Levels : \A k \in Levels : k <= l
      <3> HIDE DEF Levels
      <3> QED
        BY <2>1, Greatest
    <2> DEFINE Places == {d[2] : d \in {e \in done : e[1] = l}}
    <2>3. l \in 1 .. Depth /\ Widths[l] \in Nat
      BY <1>1, <2>2, Numbers
    <2>4. Places \in SUBSET (0 .. Widths[l]) /\ Places # {}
      <3>1. \A d \in done : d[1] = l => d[2] \in 0 .. Widths[l]
        BY <1>1, <2>3
      <3> QED
        BY <2>2, <3>1
    <2>5. PICK w \in Places : \A v \in Places : v <= w
      <3> HIDE DEF Places
      <3> QED
        BY <2>3, <2>4, Greatest
    <2>6. PICK c \in done : c[1] = l /\ c[2] = w
      BY <2>5
    <2>7. ASSUME NEW d \in done \ {c} PROVE Precedes(d, c)
      <3>1. d = <<d[1], d[2]>> /\ c = <<c[1], c[2]>> /\ d # c
        BY <1>1, <2>7
      <3>2. d[1] <= l /\ d[1] \in Int /\ l \in Int
        BY <1>1, <2>2, <2>3
      <3>3. d[1] = l => d[2] <= w /\ d[2] \in Int /\ w \in Int
        BY <1>1, <2>3, <2>4, <2>5
      <3> QED
        BY <2>6, <3>1, <3>2, <3>3 DEF Precedes
    <2> QED
      BY <2>7
  <1>3. ASSUME done # {}
        PROVE  LastOf(done) \in done /\ \A d \in done \ {LastOf(done)} : Precedes(d, LastOf(done))
    <2>1. LastOf(done) = CHOOSE c \in done : \A d \in done \ {c} : Precedes(d, c)
      BY <1>3 DEF LastOf
    <2> QED
      BY <1>2, <1>3, <2>1
  <1>4. ASSUME done # {}, NEW d \in done PROVE d[1] <= LastOf(done)[1]
    <2>1. LastOf(done)[1] \in Int /\ d[1] \in Int
      BY <1>1, <1>3, <1>4
    <2>2. d = LastOf(done) \/ d[1] < LastOf(done)[1] \/ d[1] = LastOf(done)[1]
      BY <1>3, <1>4 DEF Precedes
    <2> QED
      BY <2>1, <2>2
  <1> QED
    BY <1>3, <1>4 DEF LastOf

LEMMA NamedAre == Named \subseteq Completed("coding") /\ Named \subseteq Composites
  <1>1. Named \subseteq Completed("coding")
    BY DEF Named, Completed
  <1> QED
    BY <1>1, CompletedAre

LEMMA LastIsComposite ==
    /\ LastOf(Named) \in Composites \union {None}
    /\ LastOf(Completed("review")) \in Composites \union {None}
  BY NamedAre, CompletedAre, LastOfDone

LEMMA TypeInit == Init => TypeOK
  <1> SUFFICES ASSUME Init PROVE TypeOK
    OBVIOUS
  <1>1. ServerTypeOK /\ asked = FALSE
    BY ServesInit, ServerTypeInit DEF Init, ClientInit
  <1> QED
    BY <1>1 DEF Init, TypeOK, NoResult

LEMMA TypeStep == TypeOK /\ [Next]_vars => TypeOK'
  <1> SUFFICES ASSUME TypeOK, [Next]_vars PROVE TypeOK'
    OBVIOUS
  <1>0. ServerTypeOK' /\ ProcessOK /\ ViaOK /\ OutcomeOK
    <2>1. ServerTypeOK'
      BY ServesStep, ServerTypeStep DEF TypeOK
    <2> QED
      BY <2>1 DEF TypeOK, ProcessOK, ViaOK, OutcomeOK
  <1> SUFFICES ProcessOK' /\ ViaOK' /\ OutcomeOK'
    BY <1>0 DEF TypeOK, ProcessOK, ViaOK, OutcomeOK
  <1> USE DEF left, process, web, outcome, client, serverVars
  <1>1. CASE CreateNodes \/ StartServer \/ Bind
    BY <1>0, <1>1 DEF CreateNodes, StartServer, Bind, ProcessOK, ViaOK, OutcomeOK
  <1>2. CASE Execute
    <2>1. UNCHANGED <<client, pc, web, via, refused, outcome>>
      BY <1>2 DEF Execute
    <2>2. unpushed' \subseteq Nodes /\ unnamed' \subseteq Nodes
      BY <1>0, <1>2 DEF Execute, Leaves, ProcessOK
    <2> QED
      BY <1>0, <2>1, <2>2 DEF ProcessOK, ViaOK, OutcomeOK
  <1>3. CASE ExecuteReturns \/ ExecuteRaises \/ Shutdown
    <2>1. /\ pc' \in {"shutdown", "abort", "extract", "raised"} /\ stop' \in BOOLEAN
          /\ UNCHANGED <<serverVars, left, server, store, via, refused, outcome>>
      BY <1>0, <1>3 DEF ExecuteReturns, ExecuteRaises, Shutdown, ProcessOK
    <2> QED
      BY <1>0, <2>1 DEF ProcessOK, ViaOK, OutcomeOK
  <1>4. CASE Extract
    <2>1. /\ UNCHANGED <<serverVars, left, web, via, refused, pr>>
          /\ pc' \in {"raised", "publish"}
          /\ result' \in {result, [branch |-> LastOf(Named),
                                   summary |-> LastOf(Completed("review"))]}
      BY <1>4 DEF Extract
    <2>2. result' \in [branch : Composites \union {None}, summary : Composites \union {None}]
      BY <1>0, <2>1, LastIsComposite DEF OutcomeOK
    <2> QED
      BY <1>0, <2>1, <2>2 DEF ProcessOK, ViaOK, OutcomeOK
  <1>5. CASE Publish
    <2>1. /\ UNCHANGED <<serverVars, left, web, via, refused, result>>
          /\ pc' = "returned" /\ pr' \in {pr, result.branch}
      BY <1>5 DEF Publish
    <2>2. result.branch \in Composites \union {None}
      BY <1>0 DEF OutcomeOK
    <2> QED
      BY <1>0, <2>1, <2>2 DEF ProcessOK, ViaOK, OutcomeOK
  <1>6. CASE CloseStore \/ ServerEnds
    <2>1. UNCHANGED <<serverVars, left, stop, via, refused, outcome>>
      BY <1>6 DEF CloseStore, ServerEnds
    <2>2. ViaOK' /\ OutcomeOK'
      BY <1>0, <2>1 DEF ViaOK, OutcomeOK
    <2>3. pc' = pc \/ pc' = "exit"
      BY <1>6 DEF CloseStore, ServerEnds
    <2>4. store' = store \/ store' = FALSE
      BY <1>6 DEF CloseStore, ServerEnds
    <2>5. server' = server \/ server' = "off"
      BY <1>6 DEF CloseStore, ServerEnds
    <2>6. ProcessOK'
      BY <1>0, <2>1, <2>3, <2>4, <2>5 DEF ProcessOK
    <2> QED
      BY <2>2, <2>6
  <1>7. CASE Exit \/ Crash \/ PortConflict
    <2>1. Die
      BY <1>7 DEF Exit, Crash, PortConflict
    <2>2. /\ pc' = "down" /\ server' = "off" /\ stop' = FALSE /\ store' = FALSE
          /\ result' = NoResult /\ UNCHANGED <<left, refused, pr>>
      BY <2>1 DEF Die
    <2>3. ViaOK'
      BY <1>0, <2>1 DEF Die, Drop, ViaOK
    <2>4. NoResult \in [branch : Composites \union {None}, summary : Composites \union {None}]
      BY DEF NoResult
    <2> QED
      BY <1>0, <2>2, <2>3, <2>4 DEF ProcessOK, OutcomeOK
  <1>8. CASE Ask \/ Answer
    BY <1>0, <1>8 DEF Ask, AskHttp, AskCli, Answer, ReadRun, ReadNodes, ProcessOK, ViaOK, OutcomeOK
  <1>9. CASE Refuse
    BY <1>0, <1>9 DEF Refuse, Drop, ProcessOK, ViaOK, OutcomeOK
  <1>10. CASE UNCHANGED vars
    BY <1>0, <1>10 DEF vars, ProcessOK, ViaOK, OutcomeOK
  <1> QED
    BY <1>1, <1>2, <1>3, <1>4, <1>5, <1>6, <1>7, <1>8, <1>9, <1>10 DEF Next

\* Every variable keeps its type, and a request is in hand just while the client
\* waits on one of its two ways (orchestrator.py, run; cli.py).
THEOREM OrchestratorTyped == Spec => []TypeOK
  BY TypeInit, TypeStep, PTL DEF Spec

-----------------------------------------------------------------------------
(* What is returned and published.                                         *)

\* The nodes of a level start when all its rows are there, and only a Coding node
\* that has completed leaves its branch unpushed or unnamed.
LevelsInv ==
    /\ \A n, m \in Nodes :
          LevelOf(n) = LevelOf(m) /\ status[n] \notin {"absent", "pending"} => status[m] # "absent"
    /\ unpushed \union unnamed \subseteq {n \in With("completed") : n[1] = "coding"}

\* What was extracted is what the rows say, and what was published was extracted.
ResultsInv ==
    /\ pc \in {"publish", "returned"} =>
          /\ unpushed = {}
          /\ result = [branch |-> LastOf(Named), summary |-> LastOf(Completed("review"))]
    /\ pr # None => /\ pc \in {"returned", "exit", "down"}
                    /\ Coding(pr[1], pr[2]) \in With("completed") \ (unpushed \union unnamed)

LEMMA ResultsInit == Init => LevelsInv /\ ResultsInv
  BY DEF Init, LevelsInv, ResultsInv

\* A level is there as a whole before any of it is at work.
LEMMA LevelsStep == TypeOK /\ LevelsInv /\ [Next]_vars => LevelsInv'
  <1> SUFFICES ASSUME TypeOK, LevelsInv, [Next]_vars PROVE LevelsInv'
    OBVIOUS
  <1>0. status \in [Nodes -> NodeStatus]
    BY DEF TypeOK, ServerTypeOK
  <1>1. ASSUME UNCHANGED <<status, left>> PROVE LevelsInv'
    BY <1>1 DEF LevelsInv, With, left
  <1>2. ASSUME NEW n \in Nodes, Create(n), UNCHANGED left PROVE LevelsInv'
    <2>1. status[n] = "absent" /\ status' = [status EXCEPT ![n] = "pending"]
      BY <1>2 DEF Create
    <2>2. \A m \in Nodes : status'[m] = IF m = n THEN "pending" ELSE status[m]
      BY <1>0, <2>1
    <2>3. unpushed' \union unnamed' \subseteq {m \in With("completed")' : m[1] = "coding"}
      BY <1>2, <2>1, <2>2 DEF LevelsInv, With, left
    <2>4. \A k, m \in Nodes :
             LevelOf(k) = LevelOf(m) /\ status'[k] \notin {"absent", "pending"} => status'[m] # "absent"
      BY <2>1, <2>2 DEF LevelsInv
    <2> QED
      BY <2>3, <2>4 DEF LevelsInv
  <1>3. ASSUME NEW n \in Nodes, Step(n), Leaves(n) PROVE LevelsInv'
    <2>1. CASE Create(n)
      <3>1. status'[n] # "completed"
        BY <1>0, <2>1 DEF Create
      <3> QED
        BY <1>2, <1>3, <2>1, <3>1 DEF Leaves
    <2>2. CASE ~Create(n)
      <3>1. PICK s \in {"running", "completed", "failed"} :
              /\ status' = [status EXCEPT ![n] = s]
              /\ s = "completed" => status[n] = "running"
              /\ status[n] # "completed"
        BY <1>3, <2>2 DEF Step, StartNode, Succeed, Fail
      <3>2. \A m \in Nodes : LevelOf(m) = LevelOf(n) => status[m] # "absent"
        <4>1. CASE LevelThere(LevelOf(n))
          BY <4>1 DEF LevelThere
        <4>2. CASE status[n] = "running"
          BY <4>2 DEF LevelsInv
        <4>3. CASE Blocked(n)
          <5>1. /\ Coding(n[2], n[3]) \in unpushed \union unnamed
                /\ LevelOf(Coding(n[2], n[3])) = LevelOf(n)
            BY <4>3 DEF Blocked, Gated, Coding, LevelOf
          <5>2. Coding(n[2], n[3]) \in Nodes /\ status[Coding(n[2], n[3])] = "completed"
            BY <5>1 DEF LevelsInv, With
          <5> QED
            BY <5>1, <5>2 DEF LevelsInv
        <4> QED
          BY <1>3, <2>2, <4>1, <4>2, <4>3 DEF Step, Succeed
      <3>3. \A m \in Nodes : status'[m] = IF m = n THEN s ELSE status[m]
        BY <1>0, <3>1
      <3>4. \A k, m \in Nodes :
               LevelOf(k) = LevelOf(m) /\ status'[k] \notin {"absent", "pending"}
                  => status'[m] # "absent"
        BY <3>2, <3>3 DEF LevelsInv
      <3>5. unpushed' \union unnamed' \subseteq {m \in With("completed")' : m[1] = "coding"}
        <4>1. \A m \in With("completed") : m \in With("completed")'
          BY <3>1, <3>3 DEF With
        <4>2. unpushed' \union unnamed' \subseteq
                 (unpushed \union unnamed) \union
                 {m \in {n} : m[1] = "coding" /\ status'[m] = "completed"}
          BY <1>3 DEF Leaves, left
        <4> QED
          BY <4>1, <4>2 DEF LevelsInv, With
      <3> QED
        BY <3>4, <3>5 DEF LevelsInv
    <2> QED
      BY <2>1, <2>2
  <1> USE DEF process, web, outcome, client, serverVars, runVars
  <1>4. CASE CreateNodes
    BY <1>2, <1>4 DEF CreateNodes, FirstNodes
  <1>5. CASE Execute
    BY <1>1, <1>3, <1>5 DEF Execute, Begin, Halt, Conclude
  <1>6. CASE \/ StartServer \/ Bind \/ ExecuteReturns \/ ExecuteRaises \/ Shutdown
             \/ Extract \/ Publish \/ CloseStore \/ ServerEnds \/ UNCHANGED vars
    BY <1>1, <1>6 DEF StartServer, Bind, ExecuteReturns, ExecuteRaises, Shutdown, Extract,
                      Publish, CloseStore, ServerEnds, vars
  <1>7. CASE Exit \/ Crash \/ PortConflict
    BY <1>1, <1>7 DEF Exit, Crash, PortConflict, Die, Drop
  <1>8. CASE Ask \/ Answer \/ Refuse
    BY <1>1, <1>8 DEF Ask, AskHttp, AskCli, Answer, Refuse, ReadRun, ReadNodes, Drop
  <1> QED
    BY <1>4, <1>5, <1>6, <1>7, <1>8 DEF Next

\* After execute() the rows stay as they are, and so does what was read from them.
LEMMA ResultsStep == TypeOK /\ LevelsInv /\ ResultsInv /\ [Next]_vars => ResultsInv'
  <1> SUFFICES ASSUME TypeOK, LevelsInv, ResultsInv, [Next]_vars PROVE ResultsInv'
    OBVIOUS
  <1> USE DEF left, process, web, outcome, client, serverVars, runVars
  <1>1. ASSUME UNCHANGED <<status, left, pr>>,
               pc' \in {"publish", "returned"} => pc' = pc /\ result' = result,
               pc \in {"returned", "exit", "down"} => pc' \in {"returned", "exit", "down"}
        PROVE  ResultsInv'
    BY <1>1 DEF ResultsInv, With, Completed, Named
  <1>2. CASE CreateNodes \/ Execute
    <2>1. pr' = None /\ pc' \notin {"publish", "returned"}
      BY <1>2 DEF CreateNodes, Execute, ResultsInv
    <2> QED
      BY <2>1 DEF ResultsInv
  <1>3. CASE StartServer \/ Bind \/ ExecuteReturns \/ ExecuteRaises \/ Shutdown \/ ServerEnds
    BY <1>1, <1>3 DEF StartServer, Bind, ExecuteReturns, ExecuteRaises, Shutdown, ServerEnds
  <1>4. CASE Extract
    <2>1. pr' = None
      BY <1>4 DEF Extract, ResultsInv
    <2>2. Completed("review")' = Completed("review") /\ Named' = Named
      BY <1>4 DEF Extract, Completed, Named, With
    <2>3. pc' = "publish" => /\ unpushed' = {}
                             /\ result' = [branch |-> LastOf(Named),
                                           summary |-> LastOf(Completed("review"))]
      BY <1>4 DEF Extract
    <2>4. pc' # "returned"
      BY <1>4 DEF Extract
    <2> QED
      BY <2>1, <2>2, <2>3, <2>4 DEF ResultsInv, LastOf
  <1>5. CASE Publish
    <2>1. /\ UNCHANGED <<status, left, result>>
          /\ pc = "publish" /\ pc' = "returned" /\ pr' \in {pr, result.branch}
      BY <1>5 DEF Publish
    <2>2. Completed("review")' = Completed("review") /\ Named' = Named
      BY <2>1 DEF Completed, Named, With
    <2>3. /\ unpushed = {} /\ pr = None /\ result.branch = LastOf(Named)
          /\ result = [branch |-> LastOf(Named), summary |-> LastOf(Completed("review"))]
      BY <2>1 DEF ResultsInv
    <2>4. result.branch # None =>
             Coding(result.branch[1], result.branch[2]) \in With("completed") \ unnamed
      <3> SUFFICES ASSUME result.branch # None
                   PROVE  Coding(result.branch[1], result.branch[2]) \in With("completed") \ unnamed
        OBVIOUS
      <3>1. result.branch \in Named
        BY <2>3, NamedAre, LastOfDone
      <3>2. PICK n \in With("completed") \ unnamed :
               n[1] = "coding" /\ result.branch = CompositeOf(n)
        BY <3>1 DEF Named
      <3>3. n = Coding(n[2], n[3])
        <4>1. n \in Nodes /\ n[1] = "coding"
          BY <3>2 DEF With
        <4>2. ~ \E l \in 0 .. Depth : n = Plan(l)
          BY <4>1 DEF Plan
        <4>3. ~ \E l \in 1 .. Depth : \E w \in 1 .. Widths[l] : n = Review(l, w)
          BY <4>1 DEF Review
        <4>4. PICK l \in 1 .. Depth : \E w \in 1 .. Widths[l] : n = Coding(l, w)
          BY <4>1, <4>2, <4>3, NodeForms
        <4> QED
          BY <4>4 DEF Coding
      <3> QED
        BY <3>2, <3>3 DEF CompositeOf
    <2>5. With("completed")' = With("completed")
      BY <2>1 DEF With
    <2>6. pr' # None =>
             Coding(pr'[1], pr'[2]) \in With("completed")' \ (unpushed' \union unnamed')
      BY <2>1, <2>3, <2>4, <2>5
    <2>7. result' = [branch |-> LastOf(Named'),
                     summary |-> LastOf(Completed("review")')]
      BY <2>1, <2>2, <2>3
    <2> QED
      BY <2>1, <2>3, <2>6, <2>7 DEF ResultsInv, LastOf, Coding
  <1>6. CASE CloseStore \/ Exit \/ Crash \/ PortConflict
    <2>1. /\ UNCHANGED <<status, left, pr>> /\ pc' \in {"exit", "down"}
      BY <1>6 DEF CloseStore, Exit, Crash, PortConflict, Die, Drop
    <2> QED
      BY <1>1, <2>1
  <1>7. CASE Ask \/ Answer \/ Refuse \/ UNCHANGED vars
    <2>1. UNCHANGED <<status, left, pr, pc, result>>
      BY <1>7 DEF Ask, AskHttp, AskCli, Answer, Refuse, ReadRun, ReadNodes, Drop, vars
    <2> QED
      BY <1>1, <2>1
  <1> QED
    BY <1>2, <1>3, <1>4, <1>5, <1>6, <1>7 DEF Next

\* In a run that is over whatever Coding node has completed has its Review, and
\* the other way round.
LEMMA CompositesAreWhole ==
    ASSUME LevelsInv, Rows = With("completed")
    PROVE  Completed("coding") = Completed("review")
  <1>1. ASSUME NEW l \in 1 .. Depth, NEW w \in 1 .. Widths[l]
        PROVE  Coding(l, w) \in With("completed") <=> Review(l, w) \in With("completed")
    <2>1. Coding(l, w) \in Nodes /\ Review(l, w) \in Nodes
      BY CompositeIsNode
    <2>2. LevelOf(Coding(l, w)) = LevelOf(Review(l, w))
      BY DEF LevelOf, Coding, Review
    <2>3. \A n, m \in Nodes : n \in With("completed") /\ LevelOf(n) = LevelOf(m) =>
             m \in With("completed")
      <3> SUFFICES ASSUME NEW n \in Nodes, NEW m \in Nodes,
                          n \in With("completed"), LevelOf(n) = LevelOf(m)
                   PROVE  m \in With("completed")
        OBVIOUS
      <3>1. status[m] # "absent"
        BY DEF LevelsInv, With
      <3> QED
        BY <3>1 DEF Rows, With
    <2> QED
      BY <2>1, <2>2, <2>3
  <1>2. ASSUME NEW n \in With("completed"), n[1] \in {"coding", "review"}
        PROVE  CompositeOf(n) \in Completed("coding") /\ CompositeOf(n) \in Completed("review")
    <2>1. n \in Nodes
      BY DEF With
    <2>2. ~ \E l \in 0 .. Depth : n = Plan(l)
      BY <1>2 DEF Plan
    <2>3. PICK l \in 1 .. Depth : \E w \in 1 .. Widths[l] : n = Coding(l, w) \/ n = Review(l, w)
      BY <2>1, <2>2, NodeForms
    <2>4. PICK w \in 1 .. Widths[l] : n = Coding(l, w) \/ n = Review(l, w)
      BY <2>3
    <2>5. Coding(l, w) \in With("completed") /\ Review(l, w) \in With("completed")
      BY <1>1, <1>2, <2>4
    <2>6. /\ CompositeOf(n) = CompositeOf(Coding(l, w)) /\ CompositeOf(n) = CompositeOf(Review(l, w))
          /\ Coding(l, w)[1] = "coding" /\ Review(l, w)[1] = "review"
      BY <2>4 DEF CompositeOf, Coding, Review
    <2> QED
      BY <2>5, <2>6 DEF Completed
  <1> QED
    BY <1>2 DEF Completed

\* What the loop takes from fewer rows is from the same composite or an earlier
\* one, and all after that are among the rows left out.
LEMMA LastOfFewer ==
    ASSUME NEW all \in SUBSET Composites, NEW some \in SUBSET all, LastOf(some) # LastOf(all)
    PROVE  /\ Precedes(LastOf(some), LastOf(all))
           /\ \A c \in all : Precedes(LastOf(some), c) => c \notin some
  <1>1. ASSUME NEW c \in Composites PROVE c[1] \in Nat /\ c[1] > 0 /\ c[2] \in Int
    <2>1. PICK l \in 1 .. Depth : \E w \in 1 .. Widths[l] : c = <<l, w>>
      BY DEF Composites
    <2>2. PICK w \in 1 .. Widths[l] : c = <<l, w>>
      BY <2>1
    <2> QED
      BY <2>2, Numbers
  <1>2. all # {}
    BY LastOfDone
  <1>3. LastOf(all) \in all /\ \A d \in all \ {LastOf(all)} : Precedes(d, LastOf(all))
    BY <1>2, LastOfDone
  <1>4. CASE some = {}
    <2>1. LastOf(some) = None
      BY <1>4, LastOfDone
    <2>2. LastOf(all)[1] \in Nat /\ LastOf(all)[1] > 0
      BY <1>1, <1>3
    <2> QED
      BY <1>4, <2>1, <2>2 DEF Precedes, None
  <1>5. CASE some # {}
    <2>1. LastOf(some) \in some /\ \A d \in some \ {LastOf(some)} : Precedes(d, LastOf(some))
      BY <1>5, LastOfDone
    <2>2. \A c \in all : Precedes(LastOf(some), c) => c \notin some
      <3> SUFFICES ASSUME NEW c \in some, Precedes(LastOf(some), c) PROVE FALSE
        OBVIOUS
      <3>1. LastOf(some)[1] \in Int /\ LastOf(some)[2] \in Int /\ c[1] \in Int /\ c[2] \in Int
        BY <1>1, <2>1
      <3>2. c = LastOf(some) \/ Precedes(c, LastOf(some))
        BY <2>1
      <3> QED
        BY <3>1, <3>2 DEF Precedes
    <2> QED
      BY <1>3, <2>1, <2>2
  <1> QED
    BY <1>4, <1>5

\* In a run that COMPLETED run() returns the summary of the deepest level, and with
\* it the branch of the same composite or, when that one's name was left empty, of
\* the last composite before it that has a name; a pull request of any run is for
\* such a name, and not one whose push failed (orchestrator.py, _extract_results
\* and _create_pr).
THEOREM ResultsMatch == Spec => []CompletedResultsMatch
  <1>1. ASSUME LevelsInv, ResultsInv, RunInv PROVE CompletedResultsMatch
    <2>1. ASSUME pc = "returned", run = "completed"
          PROVE  /\ \A n \in With("completed") :
                       n[1] = "review" => LevelOf(n) <= result.summary[1]
                 /\ result.branch # result.summary =>
                       /\ Precedes(result.branch, result.summary)
                       /\ \A n \in With("completed") :
                             n[1] = "coding" /\ Precedes(result.branch, CompositeOf(n))
                                => n \in unnamed
      <3>1. Completed("coding") = Completed("review") /\ Completed("review") \subseteq Composites
        BY <1>1, <2>1, CompositesAreWhole, CompletedAre DEF RunInv
      <3>2. result.branch = LastOf(Named) /\ result.summary = LastOf(Completed("review"))
        BY <1>1, <2>1 DEF ResultsInv
      <3>3. ASSUME NEW n \in With("completed"), n[1] = "review"
            PROVE  LevelOf(n) <= result.summary[1]
        <4>1. CompositeOf(n) \in Completed("review") /\ CompositeOf(n)[1] = LevelOf(n)
          BY <3>3 DEF Completed, CompositeOf, LevelOf
        <4> QED
          BY <3>1, <3>2, <4>1, LastOfDone
      <3>4. ASSUME result.branch # result.summary
            PROVE  /\ Precedes(result.branch, result.summary)
                   /\ \A c \in Completed("coding") :
                         Precedes(result.branch, c) => c \notin Named
        BY <3>1, <3>2, <3>4, NamedAre, LastOfFewer
      <3>5. \A n \in With("completed") :
               n[1] = "coding" => /\ CompositeOf(n) \in Completed("coding")
                                  /\ CompositeOf(n) \notin Named => n \in unnamed
        BY DEF Completed, Named
      <3> QED
        BY <3>3, <3>4, <3>5
    <2> QED
      BY <1>1, <2>1 DEF CompletedResultsMatch, ResultsInv
  <1>2. Spec => []RunInv
    <2>1. PollInv => RunInv
      BY DEF PollInv
    <2> QED
      BY <2>1, Serves, PollsHold, PTL DEF ServesTheRun
  <1> QED
    BY <1>1, <1>2, TypeInit, TypeStep, ResultsInit, LevelsStep, ResultsStep, PTL DEF Spec
=============================================================================
