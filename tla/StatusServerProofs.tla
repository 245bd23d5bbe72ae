------------------------- MODULE StatusServerProofs -------------------------
(***************************************************************************)
(* Theorems about StatusServer, for every set of nodes: what a poll shows  *)
(* of a run that is over, and what one poll shows after another.           *)
(***************************************************************************)
EXTENDS StatusServer, TLAPS

Over == {"completed"} \union Stopped

\* What the rows of a run say of each other.
RunInv ==
    /\ run \in RunStatus
    /\ status \in [Nodes -> NodeStatus]
    /\ run = "completed" => Rows = With("completed")
    /\ run \in {"failed", "escalated"} => With("failed") # {}

\* A status does not go back, and COMPLETED and FAILED are final.
Leads(s, t) == Progress(s) <= Progress(t) /\ (Progress(s) = 3 => t = s)

\* The rows a request or the client has in hand, and the rows of the run.
FirstInv ==
    /\ first = "completed" => run = "completed"
    /\ first \in {"failed", "escalated"} => With("failed") # {}
    /\ first \in Over => run \in Over
    /\ asked /\ answer.run \in Over => first \in Over
    /\ asked /\ answer.run = "completed" => first = "completed"

AnswerInv ==
    /\ answer = [run |-> answer.run, nodes |-> answer.nodes]
    /\ answer.nodes \in [Nodes -> NodeStatus]
    /\ \A n \in Nodes : Leads(answer.nodes[n], status[n])
    /\ answer.run = "completed" => run = "completed" /\ answer.nodes = status
    /\ answer.run \in Over => run \in Over
    /\ HaltShowsCause

PollInv == RunInv /\ FirstInv /\ AnswerInv

-----------------------------------------------------------------------------
LEMMA ProgressOf ==
    /\ Progress("absent") = 0 /\ Progress("pending") = 1 /\ Progress("running") = 2
    /\ Progress("completed") = 3 /\ Progress("failed") = 3
  BY SMT DEF Progress

LEMMA LeadsOn ==
    ASSUME NEW s \in NodeStatus, NEW t \in NodeStatus, NEW u \in NodeStatus
    PROVE  /\ Leads(s, s)
           /\ Leads("absent", s)
           /\ Leads(s, t) /\ Leads(t, u) => Leads(s, u)
  <1>1. \A x \in NodeStatus : Progress(x) \in 0 .. 3
    BY ProgressOf, SMT DEF NodeStatus
  <1>2. Progress("absent") = 0 /\ (Progress(s) = 3 \/ Progress(s) < 3)
    BY <1>1, ProgressOf, SMT
  <1>3. Leads(s, s)
    BY <1>1, SMT DEF Leads
  <1>4. Leads("absent", s)
    BY <1>1, <1>2, SMT DEF Leads
  <1>5. ASSUME Leads(s, t), Leads(t, u) PROVE Leads(s, u)
    BY <1>1, <1>5, SMT DEF Leads
  <1> QED
    BY <1>3, <1>4, <1>5

\* A step of the run takes no row back.
LEMMA RunStep ==
    ASSUME RunInv, [RunNext]_runVars
    PROVE  /\ RunInv'
           /\ \A n \in Nodes : Leads(status[n], status'[n])
           /\ run = "completed" => UNCHANGED <<run, status>>
           /\ run \in Over => run' \in Over
           /\ With("failed") # {} => With("failed")' # {}
  <1> USE DEF RunInv
  <1>1. CASE UNCHANGED runVars
    <2>1. \A n \in Nodes : Leads(status[n], status[n])
      BY LeadsOn
    <2> QED
      BY <1>1, <2>1 DEF runVars, With, Rows
  <1>2. CASE Begin
    <2>1. run = "pending" /\ run' = "running" /\ status' = status
      BY <1>2 DEF Begin
    <2>2. \A n \in Nodes : Leads(status[n], status[n])
      BY LeadsOn
    <2> QED
      BY <2>1, <2>2 DEF With, Rows, RunStatus, Over, Stopped
  <1>3. CASE LayOut
    <2>1. run' = run /\ status' = status
      BY <1>3 DEF LayOut
    <2>2. \A n \in Nodes : Leads(status[n], status[n])
      BY LeadsOn
    <2> QED
      BY <2>1, <2>2 DEF With, Rows
  <1>4. CASE Halt
    <2>1. /\ run \in {"running"} \union Stopped /\ status' = status
          /\ run' \in Stopped /\ (With("failed") = {} => run' = "paused")
      BY <1>4 DEF Halt, Stopped
    <2>2. \A n \in Nodes : Leads(status[n], status[n])
      BY LeadsOn
    <2>3. With("failed")' = With("failed")
      BY <2>1 DEF With
    <2> QED
      BY <2>1, <2>2, <2>3 DEF RunStatus, Over, Stopped
  <1>5. CASE Conclude
    <2>1. run = "running" /\ run' = "completed" /\ status' = status /\ Rows = With("completed")
      BY <1>5 DEF Conclude, Idle
    <2>2. \A n \in Nodes : Leads(status[n], status[n])
      BY LeadsOn
    <2>3. With("completed")' = With("completed") /\ Rows' = Rows /\ With("failed")' = With("failed")
      BY <2>1 DEF With, Rows
    <2> QED
      BY <2>1, <2>2, <2>3 DEF RunStatus, Over, Stopped
  <1>6. ASSUME NEW n \in Nodes, NodeStep(n)
        PROVE  /\ run \in {"running", "pending"} /\ run' = run
               /\ \E t \in NodeStatus : /\ status' = [status EXCEPT ![n] = t]
                                        /\ Leads(status[n], t)
               /\ status[n] # "failed"
    <2>1. CASE Create(n)
      <3>1. Leads("absent", "pending")
        BY LeadsOn DEF NodeStatus
      <3> QED
        BY <2>1, <3>1 DEF Create, Idle, NodeStatus
    <2>2. CASE StartNode(n)
      <3>1. Leads("pending", "running")
        BY ProgressOf, SMT DEF Leads
      <3> QED
        BY <2>2, <3>1 DEF StartNode, Idle, NodeStatus
    <2>3. CASE Succeed(n)
      <3>1. Leads("running", "completed")
        BY ProgressOf, SMT DEF Leads
      <3> QED
        BY <2>3, <3>1 DEF Succeed, NodeStatus
    <2>4. CASE Fail(n)
      <3>1. Leads("running", "failed") /\ Leads("pending", "failed")
        BY ProgressOf, SMT DEF Leads
      <3>2. status[n] \in {"running", "pending"} /\ run = "running" /\ run' = run
        BY <2>4 DEF Fail
      <3> QED
        BY <2>4, <3>1, <3>2 DEF Fail, NodeStatus
    <2> QED
      BY <1>6, <2>1, <2>2, <2>3, <2>4 DEF NodeStep
  <1>7. ASSUME NEW n \in Nodes, NodeStep(n)
        PROVE  /\ RunInv'
               /\ \A m \in Nodes : Leads(status[m], status'[m])
               /\ run = "completed" => UNCHANGED <<run, status>>
               /\ run \in Over => run' \in Over
               /\ With("failed") # {} => With("failed")' # {}
    <2>1. PICK t \in NodeStatus : status' = [status EXCEPT ![n] = t] /\ Leads(status[n], t)
      BY <1>6, <1>7
    <2>2. run \in {"running", "pending"} /\ run' = run /\ status[n] # "failed"
      BY <1>6, <1>7
    <2>3. status' \in [Nodes -> NodeStatus]
      BY <2>1
    <2>4. ASSUME NEW m \in Nodes PROVE Leads(status[m], status'[m])
      <3>1. CASE m = n
        BY <2>1, <3>1
      <3>2. CASE m # n
        <4>1. Leads(status[m], status[m])
          BY LeadsOn
        <4> QED
          BY <2>1, <3>2, <4>1
      <3> QED
        BY <3>1, <3>2
    <2>5. ASSUME NEW m \in With("failed") PROVE m \in With("failed")'
      <3>1. m \in Nodes /\ m # n /\ status[m] = "failed"
        BY <2>2 DEF With
      <3> QED
        BY <2>1, <3>1 DEF With
    <2> QED
      BY <2>2, <2>3, <2>4, <2>5 DEF Over, Stopped, RunStatus
  <1> QED
    BY <1>1, <1>2, <1>3, <1>4, <1>5, <1>7 DEF RunNext

-----------------------------------------------------------------------------
(* The request and the answer.                                             *)

LEMMA PollInit == RunInit /\ ClientInit => PollInv
  <1> SUFFICES ASSUME RunInit, ClientInit PROVE PollInv
    OBVIOUS
  <1> USE DEF RunInit, ClientInit, NoAnswer
  <1>1. RunInv
    BY DEF RunInv, RunStatus, NodeStatus
  <1>2. FirstInv
    BY DEF FirstInv, Over, Stopped
  <1>3. answer.run = "none" /\ answer.nodes = [n \in Nodes |-> "absent"]
    OBVIOUS
  <1>4. \A n \in Nodes : Leads(answer.nodes[n], status[n])
    BY <1>1, <1>3, LeadsOn DEF RunInv, NodeStatus
  <1>5. answer.nodes \in [Nodes -> NodeStatus]
    BY <1>3 DEF NodeStatus
  <1>6. AnswerInv
    BY <1>3, <1>4, <1>5 DEF AnswerInv, HaltShowsCause, Over, Stopped
  <1> QED
    BY <1>1, <1>2, <1>6 DEF PollInv

\* What the next answer may show after this one.
Forward ==
    /\ \A n \in Nodes : Leads(answer.nodes[n], answer'.nodes[n])
    /\ answer.run \in Over => answer'.run \in Over
    /\ answer.run = "completed" => answer' = answer

LEMMA ForwardIfUnchanged == AnswerInv /\ answer' = answer => Forward
  <1> SUFFICES ASSUME AnswerInv, answer' = answer PROVE Forward
    OBVIOUS
  <1>1. \A n \in Nodes : Leads(answer.nodes[n], answer.nodes[n])
    BY LeadsOn DEF AnswerInv
  <1> QED
    BY <1>1 DEF Forward

LEMMA PollStep == PollInv /\ [ServerNext]_serverVars => PollInv' /\ Forward
  <1> SUFFICES ASSUME PollInv, [ServerNext]_serverVars PROVE PollInv' /\ Forward
    OBVIOUS
  <1> USE DEF PollInv
  <1>1. CASE [RunNext]_runVars /\ UNCHANGED client
    <2>1. /\ RunInv'
          /\ \A n \in Nodes : Leads(status[n], status'[n])
          /\ run = "completed" => UNCHANGED <<run, status>>
          /\ run \in Over => run' \in Over
          /\ With("failed") # {} => With("failed")' # {}
      BY <1>1, RunStep
    <2>2. UNCHANGED <<asked, first, answer>>
      BY <1>1 DEF client
    <2>3. FirstInv'
      BY <2>1, <2>2 DEF FirstInv
    <2>4. ASSUME NEW n \in Nodes PROVE Leads(answer.nodes[n], status'[n])
      <3>1. /\ answer.nodes[n] \in NodeStatus /\ status[n] \in NodeStatus /\ status'[n] \in NodeStatus
            /\ Leads(answer.nodes[n], status[n])
        BY <2>1 DEF RunInv, AnswerInv
      <3> QED
        BY <2>1, <3>1, LeadsOn
    <2>5. HaltShowsCause'
      BY <2>2 DEF AnswerInv, HaltShowsCause, Shown
    <2>6. AnswerInv'
      BY <2>1, <2>2, <2>4, <2>5 DEF AnswerInv
    <2> QED
      BY <2>1, <2>2, <2>3, <2>6, ForwardIfUnchanged
  <1>2. CASE ReadRun
    <2>1. asked' = TRUE /\ first' = run /\ UNCHANGED <<run, status, needs, answer>>
      BY <1>2 DEF ReadRun, runVars
    <2>2. RunInv' /\ With("failed")' = With("failed")
      BY <2>1 DEF RunInv, With, Rows
    <2>3. FirstInv'
      BY <2>1, <2>2 DEF FirstInv, AnswerInv, RunInv
    <2>4. AnswerInv'
      BY <2>1 DEF AnswerInv, HaltShowsCause, Shown
    <2> QED
      BY <2>1, <2>2, <2>3, <2>4, ForwardIfUnchanged
  <1>3. CASE ReadNodes
    <2>1. /\ asked /\ ~asked' /\ first' = "none" /\ UNCHANGED <<run, status, needs>>
          /\ answer' = [run |-> first, nodes |-> status]
      BY <1>3 DEF ReadNodes, runVars
    <2>2. answer'.run = first /\ answer'.nodes = status
      BY <2>1
    <2>3. RunInv' /\ With("failed")' = With("failed")
      BY <2>1 DEF RunInv, With, Rows
    <2>4. FirstInv'
      BY <2>1 DEF FirstInv, Over, Stopped
    <2>5. \A n \in Nodes : Leads(status[n], status[n])
      BY LeadsOn DEF RunInv
    <2>6. HaltShowsCause'
      <3>1. Shown("failed")' = With("failed")
        BY <2>2 DEF Shown, With
      <3> QED
        BY <2>2, <3>1 DEF HaltShowsCause, FirstInv
    <2>7. AnswerInv'
      BY <2>1, <2>2, <2>5, <2>6 DEF AnswerInv, FirstInv, RunInv
    <2>8. Forward
      <3>1. answer.run = "completed" => answer' = answer
        BY <2>1 DEF FirstInv, AnswerInv
      <3> QED
        BY <2>1, <2>2, <3>1 DEF Forward, FirstInv, AnswerInv
    <2> QED
      BY <2>3, <2>4, <2>7, <2>8
  <1>4. CASE Drop
    <2>1. ~asked' /\ first' = "none" /\ UNCHANGED <<run, status, needs, answer>>
      BY <1>4 DEF Drop, runVars
    <2>2. RunInv' /\ With("failed")' = With("failed")
      BY <2>1 DEF RunInv, With, Rows
    <2>3. FirstInv'
      BY <2>1 DEF FirstInv, Over, Stopped
    <2>4. AnswerInv'
      BY <2>1 DEF AnswerInv, HaltShowsCause, Shown
    <2> QED
      BY <2>1, <2>2, <2>3, <2>4, ForwardIfUnchanged
  <1> QED
    BY <1>1, <1>2, <1>3, <1>4 DEF ServerNext, serverVars

LEMMA PollsHold == ServerSpec => []PollInv
  BY PollInit, PollStep, PTL DEF ServerSpec

-----------------------------------------------------------------------------
\* An answer that says COMPLETED shows every row, and all COMPLETED, although the
\* run was read before the nodes (server.py, get_dag_status; cli.py, _status_async).
THEOREM CompletedAnswers == ServerSpec => []CompletedShowsAll
  <1>1. PollInv => CompletedShowsAll
    BY DEF PollInv, AnswerInv, RunInv, CompletedShowsAll, Shown, With
  <1> QED
    BY <1>1, PollsHold, PTL

\* One that says FAILED or ESCALATED shows the failed node (executor.py, _escalate,
\* which fails the node before the run).
THEOREM HaltAnswers == ServerSpec => []HaltShowsCause
  <1>1. PollInv => HaltShowsCause
    BY DEF PollInv, AnswerInv
  <1> QED
    BY <1>1, PollsHold, PTL

\* What a client polls never goes back.
THEOREM PollsGoForward == ServerSpec => PollsMoveForward
  <1> DEFINE Moves == /\ \A n \in Nodes :
                            LET s == answer.nodes[n] t == answer'.nodes[n]
                            IN  Progress(s) <= Progress(t) /\ (Progress(s) = 3 => t = s)
                      /\ answer.run \in {"completed"} \union Stopped =>
                            answer'.run \in {"completed"} \union Stopped
                      /\ answer.run = "completed" => answer' = answer
  <1>1. PollInv /\ [ServerNext]_serverVars => [Moves]_serverVars
    BY PollStep DEF Forward, Leads, Over
  <1> QED
    BY <1>1, PollsHold, PTL DEF ServerSpec, PollsMoveForward

-----------------------------------------------------------------------------
LEMMA ServerTypeInit == RunInit /\ ClientInit => ServerTypeOK
  <1> SUFFICES ASSUME RunInit, ClientInit PROVE ServerTypeOK
    OBVIOUS
  <1>1. /\ run = "pending" /\ status \in [Nodes -> {"absent", "pending"}]
        /\ needs \in [Nodes -> SUBSET Nodes] /\ asked = FALSE /\ first = "none"
        /\ answer = [run |-> "none", nodes |-> [n \in Nodes |-> "absent"]]
    BY DEF RunInit, ClientInit, NoAnswer
  <1>2. status \in [Nodes -> NodeStatus]
    BY <1>1 DEF NodeStatus
  <1>3. answer \in [run : RunStatus \union {"none"}, nodes : [Nodes -> NodeStatus]]
    BY <1>1 DEF NodeStatus
  <1> QED
    BY <1>1, <1>2, <1>3 DEF ServerTypeOK, RunStatus

LEMMA ServerTypeStep == ServerTypeOK /\ [ServerNext]_serverVars => ServerTypeOK'
  <1> SUFFICES ASSUME ServerTypeOK, [ServerNext]_serverVars PROVE ServerTypeOK'
    OBVIOUS
  <1> USE DEF ServerTypeOK, RunStatus, NodeStatus, Stopped
  <1>1. ASSUME RunNext, UNCHANGED client PROVE ServerTypeOK'
    <2>1. UNCHANGED <<asked, first, answer>>
      BY <1>1 DEF client
    <2>2. CASE Begin \/ Halt \/ Conclude
      BY <2>1, <2>2 DEF Begin, Halt, Conclude
    <2>3. CASE LayOut
      BY <2>1, <2>3 DEF LayOut
    <2>4. ASSUME NEW n \in Nodes, NodeStep(n) PROVE ServerTypeOK'
      BY <2>1, <2>4 DEF NodeStep, Create, StartNode, Succeed, Fail
    <2> QED
      BY <1>1, <2>2, <2>3, <2>4 DEF RunNext
  <1>2. CASE ReadRun
    BY <1>2 DEF ReadRun, runVars
  <1>3. CASE ReadNodes \/ Drop
    <2>1. /\ UNCHANGED <<run, status, needs>> /\ asked' = FALSE /\ first' = "none"
          /\ answer' = [run |-> first, nodes |-> status] \/ answer' = answer
      BY <1>3 DEF ReadNodes, Drop, runVars
    <2>2. answer' \in [run : RunStatus \union {"none"}, nodes : [Nodes -> NodeStatus]]
      BY <2>1
    <2> QED
      BY <2>1, <2>2
  <1>4. CASE UNCHANGED serverVars
    BY <1>4 DEF serverVars, runVars, client
  <1> QED
    BY <1>1, <1>2, <1>3, <1>4 DEF ServerNext

\* Rows and answers keep their types, and the first query's row is in hand just
\* while a request is being answered.
THEOREM ServerTyped == ServerSpec => []ServerTypeOK
  BY ServerTypeInit, ServerTypeStep, PTL DEF ServerSpec
=============================================================================
