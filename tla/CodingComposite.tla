-------------------------- MODULE CodingComposite ---------------------------
(***************************************************************************)
(* One Coding node (agents/coding.py) over all the attempts the executor   *)
(* makes at it: _dispatch_coding gives each attempt a new worktree on a    *)
(* new branch, the composite resumes from the sub-agent outputs persisted  *)
(* by earlier attempts, runs its cycles of Programmer, Tester and          *)
(* Debugger, and pushes its branch on the way out.                         *)
(*                                                                         *)
(* A commit is the cycle and role of the sub-agent that made it, a branch  *)
(* is the number of the attempt it was made for.  Why an attempt fails,    *)
(* and so whether the executor tries again, is left open: Executor has it. *)
(***************************************************************************)
EXTENDS Integers

CONSTANTS MaxCycles,     \* 3 in the code
          MaxAttempts,   \* attempts of the executor: 6 in the code
          PushEnabled,   \* settings.git_push_enabled
          Misnaming      \* an agent may report a branch that is not its own

ASSUME CodingAssumption ==
    /\ MaxCycles \in Nat \ {0}
    /\ MaxAttempts \in Nat \ {0}
    /\ PushEnabled \in BOOLEAN
    /\ Misnaming \in BOOLEAN

Cycles == 0 .. MaxCycles - 1
Attempts == 1 .. MaxAttempts

NoBranch == 0    \* branch_name = None
Other == -1      \* a name that is no branch of this node
Branches == {NoBranch, Other} \union Attempts

\* A CodeOutput: who wrote it, tests_passed and branch_name.
CodeOutput == [cycle : Cycles, role : {"programmer", "debugger"},
               claim : BOOLEAN, branch : Branches]
NoCode == [cycle |-> 0, role |-> "none", claim |-> FALSE, branch |-> NoBranch]

NoTest == [cycle |-> -1, passed |-> FALSE]

VARIABLES
    attempt,    \* attempts begun; the running one's branch
    dbBranch,   \* dag_nodes.branch_name
    code,       \* persisted outputs of Programmer and Debugger, per cycle
    test,       \* persisted verdicts of the Tester, per cycle
    work,       \* commits on each branch
    remote,     \* branches on the remote
    pc, cycle, lastCode, lastTest,
    raising     \* an exception is on its way out of execute()

vars == <<attempt, dbBranch, code, test, work, remote, pc, cycle, lastCode,
          lastTest, raising>>
rows == <<code, test>>
git == <<work, remote>>

Init ==
    /\ attempt = 0
    /\ dbBranch = NoBranch
    /\ code = [c \in Cycles |-> [r \in {"programmer", "debugger"} |-> NoCode]]
    /\ test = [c \in Cycles |-> "none"]
    /\ work = [k \in Attempts |-> {}]
    /\ remote = {}
    /\ pc = "idle"
    /\ cycle = 0
    /\ lastCode = NoCode
    /\ lastTest = NoTest
    /\ raising = FALSE

-----------------------------------------------------------------------------
\* _dispatch_coding: a worktree on a new branch from HEAD, and its name in the row.
StartAttempt ==
    /\ pc = "idle"
    /\ attempt < MaxAttempts
    /\ attempt' = attempt + 1
    /\ dbBranch' = attempt + 1
    /\ pc' = "resume"
    /\ UNCHANGED <<rows, git, cycle, lastCode, lastTest, raising>>

\* create_coding_worktree raises: the attempt is over before it has a branch.
WorktreeFails ==
    /\ pc = "idle"
    /\ attempt < MaxAttempts
    /\ attempt' = attempt + 1
    /\ pc' = "failed"
    /\ UNCHANGED <<dbBranch, rows, git, cycle, lastCode, lastTest, raising>>

\* _reconstruct_resume_point: a cycle is behind us when its tests failed and,
\* but for the last cycle, its Debugger has answered.
Closed(c) ==
    /\ test[c] = "failed"
    /\ c + 1 = MaxCycles \/ code[c]["debugger"] # NoCode

ResumeCycle == CHOOSE c \in 0 .. MaxCycles :
    /\ \A b \in 0 .. c - 1 : Closed(b)
    /\ c < MaxCycles => ~Closed(c)

\* Mutants of ResumeStep: it starts the cycle again, or takes the Programmer's
\* output for granted.
ResumeFromScratch(c) == IF c = MaxCycles \/ test[c] = "passed" THEN "push" ELSE "programmer"
ResumeSkips(c) ==
    IF c = MaxCycles \/ test[c] = "passed" THEN "push"
    ELSE IF test[c] = "none" THEN "tester" ELSE "debugger"

ResumeStep(c) ==
    IF c = MaxCycles \/ test[c] = "passed" THEN "push"
    ELSE IF code[c]["programmer"] = NoCode THEN "programmer"
    ELSE IF test[c] = "none" THEN "tester" ELSE "debugger"

\* The last CodeOutput written before cycle c.
CodeBefore(c) ==
    IF c = 0 THEN NoCode
    ELSE IF code[c - 1]["debugger"] # NoCode THEN code[c - 1]["debugger"]
    ELSE code[c - 1]["programmer"]

VerdictOf(c) == [cycle |-> c, passed |-> test[c] = "passed"]

\* _restore_worktree_to_prior_branch resets the worktree to the branch in the
\* row when that is another one.
Restore(resuming) ==
    IF resuming /\ dbBranch \in Attempts \ {attempt}
    THEN work' = [work EXCEPT ![attempt] = work[dbBranch]]
    ELSE UNCHANGED work

Resume ==
    LET c == ResumeCycle
        step == ResumeStep(c)
    IN  /\ pc = "resume"
        /\ cycle' = c
        /\ pc' = step
        /\ lastCode' = IF c < MaxCycles /\ code[c]["programmer"] # NoCode
                       THEN code[c]["programmer"] ELSE CodeBefore(c)
        /\ lastTest' = IF c < MaxCycles /\ test[c] # "none" THEN VerdictOf(c)
                       ELSE IF c > 0 THEN VerdictOf(c - 1) ELSE NoTest
        /\ Restore(lastCode' # NoCode)
        /\ UNCHANGED <<attempt, dbBranch, rows, remote, raising>>

-----------------------------------------------------------------------------
\* The branch an agent writes into its output: the one it works on, or anything.
Reported == {attempt} \union (IF Misnaming THEN {NoBranch, Other} ELSE {})

\* Programmer and Debugger commit their changes and say whether tests pass.
Codes(role, next) ==
    /\ pc = role
    /\ \E claim \in BOOLEAN, b \in Reported :
          lastCode' = [cycle |-> cycle, role |-> role, claim |-> claim, branch |-> b]
    /\ code' = [code EXCEPT ![cycle][role] = lastCode']
    /\ work' = [work EXCEPT ![attempt] = @ \union {<<cycle, role>>}]
    /\ pc' = next
    /\ UNCHANGED <<attempt, dbBranch, test, remote, lastTest, raising>>

Programmer == Codes("programmer", "tester") /\ UNCHANGED cycle
Debugger == Codes("debugger", "programmer") /\ cycle' = cycle + 1

\* The Tester has left the source alone (_validate_no_source_modifications).
Tester ==
    /\ pc = "tester"
    /\ \E verdict \in {"passed", "failed"} :
          /\ test' = [test EXCEPT ![cycle] = verdict]
          /\ lastTest' = [cycle |-> cycle, passed |-> verdict = "passed"]
    /\ pc' = "verdict"
    /\ UNCHANGED <<attempt, dbBranch, code, git, cycle, lastCode, raising>>

\* Any of the three raises, the Tester also when it has touched the source; a
\* coding agent may have committed before it did.
SubAgentFails ==
    /\ pc \in {"programmer", "tester", "debugger"}
    /\ work' \in {work} \union
          (IF pc = "tester" THEN {}
           ELSE {[work EXCEPT ![attempt] = @ \union {<<cycle, pc>>}]})
    /\ raising' = TRUE
    /\ pc' = "push"
    /\ UNCHANGED <<attempt, dbBranch, rows, remote, cycle, lastCode, lastTest>>

\* Mutant of Verdict: off by one, the last cycle gets a Debugger.
VerdictOffByOne ==
    /\ pc = "verdict"
    /\ IF lastTest.passed
       THEN lastCode' = [lastCode EXCEPT !.claim = TRUE, !.branch = attempt] /\ pc' = "push"
       ELSE pc' = "debugger" /\ UNCHANGED lastCode
    /\ UNCHANGED <<attempt, dbBranch, rows, git, cycle, lastTest, raising>>

\* After the Tester: done when the tests pass or no cycle is left.  Of the two
\* rewrites of the output, the second spares one that claims success.
Verdict ==
    /\ pc = "verdict"
    /\ IF lastTest.passed
       THEN /\ lastCode' = [lastCode EXCEPT !.claim = TRUE, !.branch = attempt]
            /\ pc' = "push"
       ELSE IF cycle + 1 < MaxCycles
       THEN pc' = "debugger" /\ UNCHANGED lastCode
       ELSE /\ lastCode' = IF lastCode.claim THEN lastCode
                           ELSE [lastCode EXCEPT !.branch = attempt]
            /\ pc' = "push"
    /\ UNCHANGED <<attempt, dbBranch, rows, git, cycle, lastTest, raising>>

\* Mutant of Push: a failed push leaves the row alone.
PushKeepsRow ==
    /\ pc = "push"
    /\ \/ remote' = remote \union {attempt} /\ UNCHANGED lastCode
       \/ lastCode' = [lastCode EXCEPT !.branch = NoBranch] /\ UNCHANGED remote
    /\ pc' = "cleanup"
    /\ UNCHANGED <<attempt, dbBranch, rows, work, cycle, lastTest, raising>>

\* _push_branch, in `finally', and what execute() makes of its result.
Push ==
    /\ pc = "push"
    /\ \/ /\ remote' = IF PushEnabled THEN remote \union {attempt} ELSE remote
          /\ UNCHANGED <<dbBranch, lastCode>>
       \/ /\ PushEnabled
          /\ dbBranch' = NoBranch
          /\ lastCode' = [lastCode EXCEPT !.branch = NoBranch]
          /\ UNCHANGED remote
    /\ pc' = "cleanup"
    /\ UNCHANGED <<attempt, rows, work, cycle, lastTest, raising>>

\* `finally: remove_worktree': it can raise too, and then the result is lost.
Cleanup ==
    /\ pc = "cleanup"
    /\ pc' \in {"failed"} \union (IF raising THEN {} ELSE {"return"})
    /\ raising' = FALSE
    /\ UNCHANGED <<attempt, dbBranch, rows, git, cycle, lastCode, lastTest>>

\* The executor's COALESCE of the reported branch.
Return ==
    /\ pc = "return"
    /\ dbBranch' = IF lastCode.branch = NoBranch THEN dbBranch ELSE lastCode.branch
    /\ pc' = "done"
    /\ UNCHANGED <<attempt, rows, git, cycle, lastCode, lastTest, raising>>

\* Mutant of Retry: a failed attempt does not count.
RetryUncounted ==
    /\ pc = "failed"
    /\ pc' = "idle"
    /\ attempt' = attempt - 1
    /\ lastCode' = NoCode
    /\ lastTest' = NoTest
    /\ UNCHANGED <<dbBranch, rows, git, cycle, raising>>

\* A failed attempt is retried or not.
Retry ==
    /\ pc = "failed"
    /\ pc' = IF attempt < MaxAttempts THEN "idle" ELSE "gaveUp"
    /\ lastCode' = NoCode
    /\ lastTest' = NoTest
    /\ UNCHANGED <<attempt, dbBranch, rows, git, cycle, raising>>

GiveUp ==
    /\ pc = "failed"
    /\ pc' = "gaveUp"
    /\ UNCHANGED <<attempt, dbBranch, rows, git, cycle, lastCode, lastTest, raising>>

Ended == pc \in {"done", "gaveUp"} /\ UNCHANGED vars

Next == \/ StartAttempt \/ WorktreeFails \/ Resume
        \/ Programmer \/ Tester \/ Debugger \/ SubAgentFails \/ Verdict
        \/ Push \/ Cleanup \/ Return \/ Retry \/ GiveUp \/ Ended

\* Sub-agents answer or fail, so do git commands.
Spec == Init /\ [][Next]_vars /\ WF_vars(Next)

-----------------------------------------------------------------------------
TypeOK ==
    /\ attempt \in 0 .. MaxAttempts
    /\ dbBranch \in Branches
    /\ code \in [Cycles -> [{"programmer", "debugger"} -> CodeOutput \union {NoCode}]]
    /\ test \in [Cycles -> {"none", "passed", "failed"}]
    /\ work \in [Attempts -> SUBSET (Cycles \X {"programmer", "debugger"})]
    /\ remote \subseteq Attempts
    /\ pc \in {"idle", "resume", "programmer", "tester", "verdict", "debugger", "push",
               "cleanup", "return", "failed", "done", "gaveUp"}
    /\ cycle \in 0 .. MaxCycles
    /\ lastCode \in CodeOutput \union {NoCode}
    /\ lastTest \in [cycle : Cycles, passed : BOOLEAN] \union {NoTest}
    /\ raising \in BOOLEAN

\* P10.5: a sub-agent whose output is persisted is never invoked again, whatever
\* attempt it was that persisted it.
NothingRepeated ==
    /\ pc \in {"programmer", "debugger"} => code[cycle][pc] = NoCode
    /\ pc = "tester" => test[cycle] = "none"

\* The persisted outputs are a prefix of Programmer, Tester, Debugger of cycle 0,
\* then of cycle 1, and so on; the last cycle has no Debugger, and nothing
\* follows tests that passed.  What a resume reads is always such a prefix.
RowsArePrefix ==
    \A c \in Cycles :
        /\ test[c] # "none" => code[c]["programmer"] # NoCode
        /\ code[c]["debugger"] # NoCode => test[c] = "failed" /\ c + 1 < MaxCycles
        /\ code[c]["programmer"] # NoCode /\ c > 0 => code[c - 1]["debugger"] # NoCode

\* Each sub-agent is given the outputs it is meant to build on, resumed or not:
\* the Tester this cycle's code, the Debugger this cycle's failed tests too, the
\* Programmer the tests of the cycle before.
InputsAreFresh ==
    /\ pc \in {"tester", "debugger"} => lastCode = code[cycle]["programmer"]
    /\ pc = "debugger" => lastTest = [cycle |-> cycle, passed |-> FALSE]
    /\ pc = "programmer" => lastTest.cycle = cycle - 1 /\ ~lastTest.passed

\* A failed push keeps the Review gate shut: a node that completes without its
\* last branch on the remote has no branch_name (coding.py:563-568, HG-1).
FailedPushBlocksReview ==
    pc = "done" /\ PushEnabled /\ attempt \notin remote => dbBranch = NoBranch

\* The output a node completes with and the verdict that let it complete are
\* records of one cycle, whichever attempts wrote them: the output is that of the
\* Programmer whose cycle was judged last, and its tests have passed, or those of
\* every cycle have failed (coding.py:251-285).  This is about the records alone:
\* whether the Tester of a resumed attempt had that code in its worktree is what
\* WorkIsVisible asks, and the output may claim more than its tests have shown.
OutputMatchesVerdict ==
    pc = "done" =>
        /\ lastCode.role = "programmer"
        /\ lastCode.cycle = lastTest.cycle
        /\ lastTest.passed \/ \A c \in Cycles : test[c] = "failed"

\* The row as the executor sees it: an attempt under way is a single step there.
RowSeen ==
    CASE pc \in {"resume", "programmer", "tester", "verdict", "debugger", "push", "cleanup"}
           -> "local"
      [] pc = "done" /\ lastCode.branch # NoBranch -> "reported"
      [] OTHER -> IF dbBranch = NoBranch THEN "none"
                  ELSE IF dbBranch \in remote \/ ~PushEnabled THEN "pushed" ELSE "local"

Contract == INSTANCE CodingNode WITH
    phase <- CASE pc = "idle" -> "worktree"
               [] pc = "return" -> "answered"
               [] pc = "done" -> "completed"
               [] pc \in {"failed", "gaveUp"} -> pc
               [] OTHER -> "invoke",
    row <- RowSeen,
    answer <- IF pc = "return" /\ lastCode.branch # NoBranch THEN "reported" ELSE "none"

\* Whatever an attempt comes to, it leaves the row as the executor expects.
ImplementsContract == Contract!NodeSpec

\* Every attempt ends, and so does the node.
CodingEnds == <>(pc \in {"done", "gaveUp"})

-----------------------------------------------------------------------------
(* What the comments and documents say and the code does not do.           *)

\* coding.py:166: "If push succeeds, CodeOutput.branch_name == self._worktree.branch".
\* So the row of a node that completes with its branch pushed, from which the
\* Review takes the branch it works on, names a branch that is on the remote.
BranchIsPushed == pc = "done" /\ attempt \in remote => dbBranch \in remote

\* P10.13: a sub-agent sees in the worktree what earlier sub-agents committed.
WorkIsVisible ==
    pc \in {"tester", "debugger"} => <<cycle, "programmer">> \in work[attempt]
=============================================================================
