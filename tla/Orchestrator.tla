---------------------------- MODULE Orchestrator ----------------------------
(***************************************************************************)
(* One start of `agent-agent run' (cli.py, orchestrator.py): create the    *)
(* run and its first node, start the status server, execute the DAG, stop  *)
(* the server, read the results back, open a pull request, close the       *)
(* store, exit.  The process may be killed at any await.  Meanwhile a      *)
(* client polls the run: over HTTP, or, also when the process is gone,     *)
(* with `agent-agent status'.  A process started again works on a run of   *)
(* its own and only reads the rows of this one, as `agent-agent status'.   *)
(*                                                                         *)
(* execute() takes the steps of DagRun that Executor can take.  How many   *)
(* composites each level has is given, which level is the last is not.     *)
(* What a Coding node writes for a branch is here only whether it is a     *)
(* name: which one, and whether that one is on the remote, is the matter   *)
(* of CodingComposite.                                                     *)
(***************************************************************************)
EXTENDS StatusServer, Sequences

CONSTANTS Widths,         \* composites per level, numbered in the order of their ids
          UseComposites,  \* real composites: the command line leaves it False
          DryRun          \* settings.dry_run_github

Plan(l) == <<"plan", l, 0>>
Coding(l, w) == <<"coding", l, w>>
Review(l, w) == <<"review", l, w>>
LevelOf(n) == n[2]
CompositeOf(n) == <<n[2], n[3]>>

Depth == Len(Widths)
Composites == UNION {{l} \X (1 .. Widths[l]) : l \in 1 .. Depth}
None == <<0, 0>>
AllNodes == {Plan(l) : l \in 0 .. Depth} \union
            {Coding(c[1], c[2]) : c \in Composites} \union
            {Review(c[1], c[2]) : c \in Composites}

ASSUME OrchestratorAssumption ==
    /\ Widths \in Seq(Nat \ {0})
    /\ UseComposites \in BOOLEAN
    /\ ~UseComposites => Widths # <<>> /\ Widths[1] = 1
    /\ DryRun \in BOOLEAN
    /\ Nodes = AllNodes

VARIABLES
    pc,
    unpushed,  \* Coding nodes that left a CodeOutput whose branch_name is None
    unnamed,   \* those that left one whose branch_name is ""
    server,    \* "off", "starting" or "serving"
    stop,      \* should_exit
    store,     \* the state store of the process is open
    via,       \* how the client asks: "http" or "cli", "none" when it does not
    refused,   \* an accepted HTTP request was answered with 500
    result,    \* [branch, summary]: the composites they are taken from
    pr         \* the composite whose branch the pull request is for

left == <<unpushed, unnamed>>
process == <<pc, left>>
web == <<server, stop, store>>
outcome == <<result, pr>>
vars == <<serverVars, process, web, via, refused, outcome>>

NoResult == [branch |-> None, summary |-> None]

Needs == [n \in Nodes |->
    CASE n[1] = "review" -> {Coding(n[2], n[3])}
      [] n[1] = "coding" -> {Plan(n[2] - 1)}
      [] n[1] = "plan"   -> IF n[2] = 0 THEN {} ELSE {Review(n[2], w) : w \in 1 .. Widths[n[2]]}]

\* The run's row has just been written.
Init ==
    /\ run = "pending" /\ status = [n \in Nodes |-> "absent"] /\ needs = Needs
    /\ ClientInit
    /\ pc = "create" /\ unpushed = {} /\ unnamed = {}
    /\ server = "off" /\ stop = FALSE /\ store = TRUE
    /\ via = "none" /\ refused = FALSE
    /\ result = NoResult /\ pr = None

\* Composite by composite, Coding before Review, the terminal Plan last.
NextRow(n) ==
    LET l == LevelOf(n) Have(m) == status[m] # "absent" IN
    CASE n[1] = "coding" -> /\ Have(Plan(l - 1))
                            /\ \A w \in 1 .. Widths[l] : Have(Coding(l, w)) = Have(Review(l, w))
      [] n[1] = "review" -> Have(Coding(l, n[3]))
      [] n[1] = "plan"   -> \A m \in Needs[n] : Have(m)

-----------------------------------------------------------------------------
(* Up to the server.                                                       *)

\* build_l0_dag: the first Plan.  build_stub_dag: a level of composites too.
FirstNodes == {n \in Nodes : LevelOf(n) <= IF UseComposites THEN 0 ELSE 1}

\* One row after the other, while the client may already be reading.
CreateNodes ==
    /\ pc = "create"
    /\ \E n \in FirstNodes : NextRow(n) /\ Create(n)
    /\ pc' = IF \E n \in FirstNodes : status'[n] = "absent" THEN pc ELSE "serve"
    /\ UNCHANGED <<client, left, web, via, refused, outcome>>

\* _start_server: the task that binds the port is created, not awaited.
StartServer ==
    /\ pc = "serve"
    /\ server' = "starting"
    /\ pc' = "execute"
    /\ UNCHANGED <<serverVars, left, stop, store, via, refused, outcome>>

Bind ==
    /\ server = "starting"
    /\ server' = "serving"
    /\ UNCHANGED <<serverVars, process, stop, store, via, refused, outcome>>

-----------------------------------------------------------------------------
(* execute().                                                              *)

LevelThere(l) == \A n \in Nodes : LevelOf(n) = l => status[n] # "absent"

\* The row of the Coding node has no branch.  That of a composite has the one it
\* pushed, whatever its output says; that of a stub has only what the output says.
Gated == IF UseComposites THEN unpushed ELSE unnamed
Blocked(n) == n[1] = "review" /\ Coding(n[2], n[3]) \in Gated

\* A level's rows are written when the Plan above has completed, and its nodes
\* start when all are there; the gate fails the Review of a branch not in the row.
Step(n) ==
    \/ LevelOf(n) > 0 /\ status[Plan(LevelOf(n) - 1)] = "completed" /\ NextRow(n) /\ Create(n)
    \/ LevelThere(LevelOf(n)) /\ ~Blocked(n) /\ StartNode(n)
    \/ Succeed(n)
    \/ (Blocked(n) \/ status[n] = "running") /\ Fail(n)

\* The output of a Coding node that succeeds names a branch, or the agent has
\* left the name empty, or the composite has replaced it by None for want of a push.
Leaves(n) ==
    IF n[1] = "coding" /\ status'[n] = "completed"
    THEN \/ UNCHANGED left
         \/ unnamed' = unnamed \union {n} /\ UNCHANGED unpushed
         \/ UseComposites /\ unpushed' = unpushed \union {n} /\ UNCHANGED unnamed
    ELSE UNCHANGED left

Execute ==
    /\ pc = "execute"
    /\ \/ (Begin \/ Halt \/ Conclude) /\ UNCHANGED left
       \/ \E n \in Nodes : Step(n) /\ Leaves(n)
    /\ UNCHANGED <<client, pc, web, via, refused, outcome>>

ExecuteReturns ==
    /\ pc = "execute"
    /\ run \in {"completed"} \union Stopped
    /\ pc' = "shutdown"
    /\ UNCHANGED <<serverVars, left, web, via, refused, outcome>>

\* Mutant of ExecuteRaises: the run's row is set FAILED on the way out.
ExecuteRaisesFailing ==
    /\ pc = "execute"
    /\ Idle /\ With("completed") # {}
    /\ run' = "failed"
    /\ pc' = "abort"
    /\ UNCHANGED <<status, needs, client, left, web, via, refused, outcome>>

\* An exception of _spawn_child_dag, with all or part of the rows of a child DAG,
\* or of record_usage: some node has completed and none is at work.
ExecuteRaises ==
    /\ pc = "execute"
    /\ Idle /\ With("completed") # {}
    /\ pc' = "abort"
    /\ UNCHANGED <<serverVars, left, web, via, refused, outcome>>

\* `finally: server.should_exit = True'.
Shutdown ==
    /\ pc \in {"shutdown", "abort"}
    /\ stop' = TRUE
    /\ pc' = IF pc = "shutdown" THEN "extract" ELSE "raised"
    /\ UNCHANGED <<serverVars, left, server, store, via, refused, outcome>>

-----------------------------------------------------------------------------
(* After it.                                                               *)

\* list_dag_nodes: ORDER BY level, id.  Within a level the Coding nodes come
\* before the Review nodes.
Precedes(c, d) == c[1] < d[1] \/ (c[1] = d[1] /\ c[2] < d[2])

\* The loop of _extract_results: a later node replaces an earlier one.
LastOf(done) ==
    IF done = {} THEN None ELSE CHOOSE c \in done : \A d \in done \ {c} : Precedes(d, c)
Completed(kind) == {CompositeOf(n) : n \in {m \in With("completed") : m[1] = kind}}

Named == {CompositeOf(n) : n \in {m \in With("completed") : m[1] = "coding"} \ unnamed}

\* Mutant of Extract: the last CodeOutput counts, also when its name is empty.
ExtractUnnamed ==
    /\ pc = "extract"
    /\ IF unpushed # {}
       THEN pc' = "raised" /\ UNCHANGED result
       ELSE /\ LET last == LastOf(Completed("coding")) IN
                  result' = [branch |-> IF last \in Named THEN last ELSE None,
                             summary |-> LastOf(Completed("review"))]
            /\ pc' = "publish"
    /\ UNCHANGED <<serverVars, left, web, via, refused, pr>>

\* get_node_result cannot read a CodeOutput without a branch_name back: the
\* field is a `str', and the ValidationError leaves run().  One whose name is
\* empty is passed over, its Review is not.
Extract ==
    /\ pc = "extract"
    /\ IF unpushed # {}
       THEN pc' = "raised" /\ UNCHANGED result
       ELSE /\ result' = [branch |-> LastOf(Named), summary |-> LastOf(Completed("review"))]
            /\ pc' = "publish"
    /\ UNCHANGED <<serverVars, left, web, via, refused, pr>>

\* The pull request, which may fail without consequence.
Publish ==
    /\ pc = "publish"
    /\ pr' \in {pr} \union (IF DryRun THEN {} ELSE {result.branch})
    /\ pc' = "returned"
    /\ UNCHANGED <<serverVars, left, web, via, refused, result>>

\* Mutant of CloseStore: run() is not awaited inside the `async with'.
CloseStoreEarly ==
    /\ pc \in {"execute", "returned", "raised"}
    /\ store' = FALSE
    /\ pc' = IF pc = "execute" THEN pc ELSE "exit"
    /\ UNCHANGED <<serverVars, left, server, stop, via, refused, outcome>>

\* The end of `async with open_state_store': the server may still be at work.
CloseStore ==
    /\ pc \in {"returned", "raised"}
    /\ store' = FALSE
    /\ pc' = "exit"
    /\ UNCHANGED <<serverVars, left, server, stop, via, refused, outcome>>

\* The event loop ends, however: the server's task and its request with it.
Die ==
    /\ IF via = "http" THEN Drop ELSE UNCHANGED serverVars
    /\ pc' = "down"
    /\ server' = "off"
    /\ stop' = FALSE
    /\ store' = FALSE
    /\ result' = NoResult
    /\ via' = IF via = "http" THEN "none" ELSE via
    /\ UNCHANGED <<left, refused, pr>>

Exit == pc = "exit" /\ Die

\* The process is killed.
Crash == pc \notin {"down", "exit"} /\ Die

\* The port was free in _check_port.  If it is not any more, uvicorn calls
\* sys.exit in its task, which ends the event loop.
PortConflict == server = "starting" /\ Die

-----------------------------------------------------------------------------
(* The client and the server.                                              *)

Serving == server = "serving" /\ store

AskHttp == Serving /\ ReadRun /\ via' = "http"
AskCli == ReadRun /\ via' = "cli"

Ask ==
    /\ AskHttp \/ AskCli
    /\ UNCHANGED <<process, web, refused, outcome>>

Answer ==
    /\ via = "http" => Serving
    /\ ReadNodes
    /\ via' = "none"
    /\ UNCHANGED <<process, web, refused, outcome>>

\* A query on a closed connection: 500.
Refuse ==
    /\ server = "serving" /\ ~store
    /\ \/ via = "http" /\ Drop
       \/ ~asked /\ UNCHANGED serverVars
    /\ via' = "none"
    /\ refused' = TRUE
    /\ UNCHANGED <<process, web, outcome>>

\* uvicorn has seen should_exit and answered what it had accepted.
ServerEnds ==
    /\ server = "serving" /\ stop
    /\ via # "http"
    /\ server' = "off"
    /\ UNCHANGED <<serverVars, process, stop, store, via, refused, outcome>>

Next ==
    \/ CreateNodes \/ StartServer \/ Bind
    \/ Execute \/ ExecuteReturns \/ ExecuteRaises \/ Shutdown
    \/ Extract \/ Publish \/ CloseStore \/ Exit
    \/ Crash \/ PortConflict
    \/ Ask \/ Answer \/ Refuse \/ ServerEnds

Spec == Init /\ [][Next]_vars

-----------------------------------------------------------------------------
TypeOK ==
    /\ ServerTypeOK
    /\ pc \in {"create", "serve", "execute", "shutdown", "abort", "extract", "publish",
               "returned", "raised", "exit", "down"}
    /\ unpushed \subseteq Nodes /\ unnamed \subseteq Nodes
    /\ server \in {"off", "starting", "serving"}
    /\ stop \in BOOLEAN /\ store \in BOOLEAN /\ refused \in BOOLEAN
    /\ via \in {"none", "http", "cli"} /\ (asked <=> via # "none")
    /\ result \in [branch : Composites \union {None}, summary : Composites \union {None}]
    /\ pr \in Composites \union {None}

\* In a run that COMPLETED the summary is of the deepest level, and the branch is
\* that of the same composite unless its Coding node left the name empty: then it
\* is an earlier one's, and no Coding node after that one has named any.  A pull
\* request of any run has the name that a Coding node gave, and not one whose push
\* failed; that the name is that of what was pushed is not said (BranchIsPushed).
CompletedResultsMatch ==
    /\ pc = "returned" /\ run = "completed" =>
          /\ \A n \in With("completed") : n[1] = "review" => LevelOf(n) <= result.summary[1]
          /\ result.branch # result.summary =>
                /\ Precedes(result.branch, result.summary)
                /\ \A n \in With("completed") :
                      n[1] = "coding" /\ Precedes(result.branch, CompositeOf(n)) => n \in unnamed
    /\ pr # None => Coding(pr[1], pr[2]) \in With("completed") \ (unpushed \union unnamed)

\* A client that is answered 500, because the store is closed before the server
\* has stopped (orchestrator.py:212, cli.py:131), has lost nothing: the rows of
\* the run do not change any more, and `agent-agent status' has the last of them.
RefusedIsFinal == [][refused => UNCHANGED runVars]_vars

\* What the client gets, from the process or after its end, is what StatusServer
\* answers over a DagRun.
ServesTheRun == ServerSpec

-----------------------------------------------------------------------------
(* What the documents say and the code does not do.                        *)

\* orchestrator.py:300-305: the branch is that of the last CodeOutput with a
\* non-empty branch_name; one without is passed over.
ResultsAreRead == pc = "raised" => run = "running"
=============================================================================
