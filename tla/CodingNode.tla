----------------------------- MODULE CodingNode -----------------------------
(***************************************************************************)
(* What the executor and a Coding composite expect of each other: the      *)
(* contract of _dispatch_coding.  Executor takes an attempt for one step   *)
(* and has to be ready for any end of it that the composite may come to;   *)
(* CodingComposite has to come to no other.  Both implement this module,   *)
(* the one for each of its Coding nodes.                                   *)
(*                                                                         *)
(* The branch in the row is "none", "local", "pushed" or the one the       *)
(* result "reported".  A branch is pushed when _push_branch has returned   *)
(* True for it: it also does when pushing is disabled (coding.py:523), and *)
(* a Review then works on the local branch.                                *)
(***************************************************************************)
VARIABLES
    phase,    \* where the node is
    row,      \* dag_nodes.branch_name
    answer    \* the branch_name of a result that is not in the row yet

nodeVars == <<phase, row, answer>>

NodeInit == phase = "worktree" /\ row = "none" /\ answer = "none"

\* A new worktree: its branch goes into the row before anything is pushed.
NewWorktree ==
    /\ phase = "worktree"
    /\ row' = "local"
    /\ phase' = "invoke"
    /\ UNCHANGED answer

\* An attempt fails, and another may follow at once.  The composite has pushed its
\* branch, or failed to and cleared the row, or it did not come to that.
AttemptFails ==
    /\ \/ phase = "worktree" /\ UNCHANGED row
       \/ phase = "invoke" /\ row' \in {"local", "pushed", "none"}
    /\ phase' \in {"worktree", "failed"}
    /\ UNCHANGED answer

\* An attempt answers: its branch is pushed, or neither the row nor the
\* result names one.
AttemptAnswers ==
    /\ phase = "invoke"
    /\ \/ row' = "pushed" /\ answer' \in {"none", "reported"}
       \/ row' = "none" /\ answer' = "none"
    /\ phase' = "answered"

\* COMPLETED, with COALESCE(reported, stored) for the branch.
Complete ==
    /\ phase = "answered"
    /\ row' = IF answer = "none" THEN row ELSE answer
    /\ answer' = "none"
    /\ phase' = "completed"

TryAgain == phase = "failed" /\ phase' = "worktree" /\ UNCHANGED <<row, answer>>
GiveUp == phase = "failed" /\ phase' = "gaveUp" /\ UNCHANGED <<row, answer>>

NodeNext == NewWorktree \/ AttemptFails \/ AttemptAnswers \/ Complete \/ TryAgain \/ GiveUp

NodeSpec == NodeInit /\ [][NodeNext]_nodeVars
=============================================================================
