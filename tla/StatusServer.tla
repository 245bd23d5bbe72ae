---------------------------- MODULE StatusServer ----------------------------
(***************************************************************************)
(* GET /dags/{id}/status (server.py), and `agent-agent status' (cli.py),   *)
(* which reads the same rows: the run's row is fetched, then, in a second  *)
(* query, the nodes' rows.  The executor writes on in between.  A client   *)
(* polls: it keeps the answer it got last.                                 *)
(***************************************************************************)
EXTENDS DagRun, Integers

VARIABLES asked,   \* a request is being answered
          first,   \* the row its first query returned
          answer   \* the last answer

client == <<asked, first, answer>>
serverVars == <<runVars, client>>

NoAnswer == [run |-> "none", nodes |-> [n \in Nodes |-> "absent"]]

ClientInit == asked = FALSE /\ first = "none" /\ answer = NoAnswer

\* get_dag_status up to its second await.
ReadRun ==
    /\ ~asked
    /\ asked' = TRUE
    /\ first' = run
    /\ UNCHANGED <<runVars, answer>>

\* Mutants of ReadNodes: the row read stays for the next request, or the nodes
\* are the ones found the last time.
ReadNodesKeepsRow ==
    /\ asked
    /\ asked' = FALSE
    /\ answer' = [run |-> first, nodes |-> status]
    /\ UNCHANGED <<runVars, first>>
ReadNodesCached ==
    /\ asked
    /\ asked' = FALSE
    /\ first' = "none"
    /\ \E nodes \in {status, answer.nodes} : answer' = [run |-> first, nodes |-> nodes]
    /\ UNCHANGED runVars

ReadNodes ==
    /\ asked
    /\ asked' = FALSE
    /\ first' = "none"
    /\ answer' = [run |-> first, nodes |-> status]
    /\ UNCHANGED runVars

\* The request fails or is lost half-way: the client has what it had.
Drop ==
    /\ asked
    /\ asked' = FALSE
    /\ first' = "none"
    /\ UNCHANGED <<runVars, answer>>

ServerNext == (RunNext /\ UNCHANGED client) \/ ReadRun \/ ReadNodes \/ Drop

ServerSpec == RunInit /\ ClientInit /\ [][ServerNext]_serverVars

-----------------------------------------------------------------------------
RunStatus == {"pending", "running", "completed"} \union Stopped
NodeStatus == {"absent", "pending", "running", "completed", "failed"}

\* Every variable keeps its type, and only a request in hand has read a row.
ServerTypeOK ==
    /\ run \in RunStatus
    /\ status \in [Nodes -> NodeStatus]
    /\ needs \in [Nodes -> SUBSET Nodes]
    /\ asked \in BOOLEAN
    /\ first \in RunStatus \union {"none"}
    /\ asked <=> first # "none"
    /\ answer \in [run : RunStatus \union {"none"}, nodes : [Nodes -> NodeStatus]]

Shown(s) == {n \in Nodes : answer.nodes[n] = s}

\* An answer that says COMPLETED lists every node of the run, all COMPLETED,
\* although the run's row is older than the nodes' (server.py:78-82).
CompletedShowsAll ==
    answer.run = "completed" => Shown("completed") = Rows

\* An answer that says FAILED or ESCALATED shows the node that is to blame: the
\* executor fails the node before the run, and the run is read before the nodes.
HaltShowsCause ==
    answer.run \in {"failed", "escalated"} => Shown("failed") # {}

\* From one answer to the next a node never goes back, a row never vanishes and
\* a run that was over is not at work again.
Progress(s) ==
    CASE s = "absent" -> 0 [] s = "pending" -> 1 [] s = "running" -> 2 [] OTHER -> 3
PollsMoveForward ==
    [][/\ \A n \in Nodes :
            LET s == answer.nodes[n] t == answer'.nodes[n]
            IN  Progress(s) <= Progress(t) /\ (Progress(s) = 3 => t = s)
       /\ answer.run \in {"completed"} \union Stopped =>
            answer'.run \in {"completed"} \union Stopped
       /\ answer.run = "completed" => answer' = answer]_serverVars
=============================================================================
