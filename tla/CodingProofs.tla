---------------------------- MODULE CodingProofs ----------------------------
(***************************************************************************)
(* Theorems about CodingComposite, for any number of cycles and attempts,  *)
(* with and without pushing: what a resumed attempt finds, that it pays    *)
(* for nothing twice, and what a failed push leaves behind.                *)
(***************************************************************************)
EXTENDS CodingComposite, WellFoundedInduction, TLAPS

SubAgents == {"programmer", "tester", "debugger"}

\* The outputs persisted so far end exactly where the composite stands.
Position ==
    /\ pc # "idle" => attempt \in Attempts
    /\ pc \in SubAgents \union {"verdict"} => cycle \in Cycles
    /\ pc = "programmer" => /\ code[cycle]["programmer"] = NoCode
                            /\ cycle > 0 => code[cycle - 1]["debugger"] # NoCode
    /\ pc \in {"tester", "verdict", "debugger"} => /\ code[cycle]["programmer"] # NoCode
                                                   /\ code[cycle]["debugger"] = NoCode
    /\ pc = "tester" => test[cycle] = "none"
    /\ pc = "verdict" => test[cycle] # "none"
    /\ pc = "debugger" => test[cycle] = "failed" /\ cycle + 1 < MaxCycles

\* What the composite has in hand is what was persisted last.
InHand ==
    /\ pc \in {"tester", "verdict", "debugger"} => lastCode = code[cycle]["programmer"]
    /\ pc \in {"verdict", "debugger"} => lastTest = VerdictOf(cycle)
    /\ pc = "programmer" => lastTest.cycle = cycle - 1 /\ ~lastTest.passed

\* Between the failed push and the node's end the row and the output agree.
PushInv ==
    /\ pc \in {"cleanup", "return"} /\ PushEnabled /\ attempt \notin remote
        => dbBranch = NoBranch /\ lastCode.branch = NoBranch
    /\ FailedPushBlocksReview

CInv == TypeOK /\ RowsArePrefix /\ Position /\ InHand /\ PushInv

-----------------------------------------------------------------------------
Below == OpToRel(<, Nat)

\* Less-than as a relation.
LEMMA BelowIsLess == \A x, y \in Nat : <<x, y>> \in Below <=> x < y
  BY SMT DEF Below, OpToRel

\* A set of naturals that is not empty has a least element.
LEMMA Least ==
    ASSUME NEW T \in SUBSET Nat, T # {}
    PROVE  \E x \in T : \A y \in T : x <= y
  <1>1. IsWellFoundedOn(Below, Nat)
    BY NatLessThanWellFounded, Zenon DEF Below
  <1>2. \E x \in T : \A y \in T : <<y, x>> \notin Below
    BY <1>1, WFMin, Zenon
  <1>3. \A x, y \in T : <<y, x>> \notin Below => x <= y
    BY BelowIsLess, SMT
  <1> QED
    BY <1>2, <1>3

\* _reconstruct_resume_point finds the first cycle that is not behind us.
LEMMA ResumePoint ==
    /\ ResumeCycle \in 0 .. MaxCycles
    /\ \A b \in 0 .. ResumeCycle - 1 : Closed(b)
    /\ ResumeCycle < MaxCycles => ~Closed(ResumeCycle)
  <1> DEFINE Open == {c \in 0 .. MaxCycles : c = MaxCycles \/ ~Closed(c)}
  <1>1. MaxCycles \in Open /\ Open \in SUBSET Nat
    BY CodingAssumption
  <1>2. PICK c \in Open : \A b \in Open : c <= b
    BY <1>1, Least, Zenon
  <1>3. \A b \in 0 .. c - 1 : Closed(b)
    <2> SUFFICES ASSUME NEW b \in 0 .. c - 1 PROVE Closed(b)
      OBVIOUS
    <2>1. b \in 0 .. MaxCycles /\ b # MaxCycles /\ ~(c <= b)
      BY <1>1, <1>2, CodingAssumption
    <2>2. b \notin Open
      BY <1>2, <2>1, Zenon
    <2> QED
      BY <2>1, <2>2
  <1>4. c < MaxCycles => ~Closed(c)
    BY <1>1, <1>2, CodingAssumption
  <1>5. \E d \in 0 .. MaxCycles : /\ \A b \in 0 .. d - 1 : Closed(b)
                                  /\ d < MaxCycles => ~Closed(d)
    BY <1>2, <1>3, <1>4, Zenon
  <1> QED
    BY <1>5, Zenon DEF ResumeCycle

\* No output is an output.
LEMMA NoCodeIs == NoCode \notin CodeOutput /\ NoCode.branch = NoBranch
  BY DEF NoCode, CodeOutput, NoBranch

\* The start.
LEMMA InitCInv == Init => CInv
  <1> SUFFICES ASSUME Init PROVE CInv
    OBVIOUS
  <1>1. TypeOK
    <2>1. code \in [Cycles -> [{"programmer", "debugger"} -> CodeOutput \union {NoCode}]]
      BY DEF Init
    <2>2. work \in [Attempts -> SUBSET (Cycles \X {"programmer", "debugger"})]
      BY DEF Init
    <2>3. /\ attempt \in 0 .. MaxAttempts /\ cycle \in 0 .. MaxCycles
          /\ dbBranch \in Branches /\ remote \subseteq Attempts
      BY CodingAssumption DEF Init, Branches
    <2>4. test \in [Cycles -> {"none", "passed", "failed"}]
      BY DEF Init
    <2> QED
      BY <2>1, <2>2, <2>3, <2>4 DEF Init, TypeOK
  <1>2. RowsArePrefix
    BY CodingAssumption DEF Init, RowsArePrefix, Cycles
  <1>3. Position /\ InHand /\ PushInv
    BY DEF Init, Position, InHand, PushInv, FailedPushBlocksReview, SubAgents
  <1> QED
    BY <1>1, <1>2, <1>3 DEF CInv

\* A new attempt moves no row.
LEMMA StartAttemptCInv == CInv /\ StartAttempt => CInv'
  <1> SUFFICES ASSUME CInv, StartAttempt PROVE CInv'
    OBVIOUS
  <1>1. /\ pc = "idle" /\ pc' = "resume" /\ attempt' = attempt + 1 /\ dbBranch' = attempt'
        /\ attempt' \in Attempts
        /\ UNCHANGED <<code, test, work, remote, cycle, lastCode, lastTest, raising>>
    BY CodingAssumption DEF StartAttempt, CInv, TypeOK, rows, git, Attempts
  <1>2. TypeOK'
    BY <1>1 DEF CInv, TypeOK, Branches, Attempts
  <1>3. RowsArePrefix'
    BY <1>1 DEF CInv, RowsArePrefix
  <1>4. Position' /\ InHand' /\ PushInv'
    BY <1>1 DEF Position, InHand, PushInv, FailedPushBlocksReview, SubAgents
  <1> QED
    BY <1>2, <1>3, <1>4 DEF CInv

\* Nor does one that gets no worktree.
LEMMA WorktreeFailsCInv == CInv /\ WorktreeFails => CInv'
  <1> SUFFICES ASSUME CInv, WorktreeFails PROVE CInv'
    OBVIOUS
  <1>1. /\ pc' = "failed" /\ attempt' = attempt + 1 /\ attempt' \in Attempts
        /\ UNCHANGED <<dbBranch, code, test, work, remote, cycle, lastCode, lastTest, raising>>
    BY CodingAssumption DEF WorktreeFails, CInv, TypeOK, rows, git, Attempts
  <1>2. TypeOK'
    BY <1>1 DEF CInv, TypeOK, Attempts
  <1>3. RowsArePrefix'
    BY <1>1 DEF CInv, RowsArePrefix
  <1>4. Position' /\ InHand' /\ PushInv'
    BY <1>1 DEF Position, InHand, PushInv, FailedPushBlocksReview, SubAgents
  <1> QED
    BY <1>2, <1>3, <1>4 DEF CInv

\* A resumed attempt continues where the persisted outputs end, with the last of
\* them in hand.
LEMMA ResumeCInv == CInv /\ Resume => CInv'
  <1> SUFFICES ASSUME CInv, Resume PROVE CInv'
    OBVIOUS
  <1> DEFINE c == ResumeCycle
  <1>1. /\ pc = "resume" /\ cycle' = c /\ pc' = ResumeStep(c)
        /\ lastCode' = IF c < MaxCycles /\ code[c]["programmer"] # NoCode
                       THEN code[c]["programmer"] ELSE CodeBefore(c)
        /\ lastTest' = IF c < MaxCycles /\ test[c] # "none" THEN VerdictOf(c)
                       ELSE IF c > 0 THEN VerdictOf(c - 1) ELSE NoTest
        /\ Restore(lastCode' # NoCode)
        /\ UNCHANGED <<attempt, dbBranch, code, test, remote, raising>>
    BY Zenon DEF Resume, rows
  <1>2. /\ c \in 0 .. MaxCycles /\ (c < MaxCycles => ~Closed(c))
        /\ c > 0 => c - 1 \in Cycles /\ Closed(c - 1)
        /\ c < MaxCycles => c \in Cycles
        /\ c \in Nat /\ MaxCycles \in Nat
    BY ResumePoint, CodingAssumption DEF Cycles
  <1> HIDE DEF c
  <1> USE DEF CInv
  <1>3. TypeOK'
    <2>1. \A d \in Cycles : /\ code[d]["programmer"] \in CodeOutput \union {NoCode}
                            /\ code[d]["debugger"] \in CodeOutput \union {NoCode}
                            /\ VerdictOf(d) \in [cycle : Cycles, passed : BOOLEAN]
      BY DEF TypeOK, VerdictOf
    <2>2. CodeBefore(c) \in CodeOutput \union {NoCode}
      BY <1>2, <2>1 DEF CodeBefore
    <2>3. lastCode' \in CodeOutput \union {NoCode}
      BY <1>1, <1>2, <2>1, <2>2
    <2>4. lastTest' \in [cycle : Cycles, passed : BOOLEAN] \union {NoTest}
      BY <1>1, <1>2, <2>1
    <2>5. work' \in [Attempts -> SUBSET (Cycles \X {"programmer", "debugger"})]
      BY <1>1 DEF TypeOK, Restore
    <2>6. pc' \in {"programmer", "tester", "debugger", "push"}
      BY <1>1 DEF ResumeStep
    <2> QED
      BY <1>1, <1>2, <2>3, <2>4, <2>5, <2>6 DEF TypeOK
  <1>4. RowsArePrefix'
    BY <1>1 DEF RowsArePrefix
  <1>5. ASSUME pc' # "push"
        PROVE  /\ c < MaxCycles /\ c \in Cycles /\ test[c] # "passed"
               /\ pc' = "programmer" => code[c]["programmer"] = NoCode /\ test[c] = "none"
               /\ pc' = "tester" => code[c]["programmer"] # NoCode /\ test[c] = "none"
               /\ pc' = "debugger" => code[c]["programmer"] # NoCode /\ test[c] = "failed"
               /\ test[c] = "failed" => c + 1 < MaxCycles
               /\ code[c]["debugger"] = NoCode
    <2>1. c # MaxCycles /\ test[c] # "passed"
      BY <1>1, <1>5 DEF ResumeStep
    <2>2. c < MaxCycles /\ c \in Cycles
      BY <1>2, <2>1
    <2>3. /\ test[c] # "none" => code[c]["programmer"] # NoCode
          /\ code[c]["debugger"] # NoCode => test[c] = "failed"
          /\ test[c] \in {"none", "passed", "failed"}
      BY <2>2 DEF RowsArePrefix, TypeOK
    <2>4. test[c] = "failed" => c + 1 # MaxCycles /\ code[c]["debugger"] = NoCode
      BY <1>2, <2>2 DEF Closed
    <2> QED
      BY <1>1, <1>2, <2>1, <2>2, <2>3, <2>4 DEF ResumeStep
  <1>6. pc' \in SubAgents \union {"push"}
    BY <1>1 DEF ResumeStep, SubAgents
  <1>7. c > 0 /\ pc' = "programmer" => code[c - 1]["debugger"] # NoCode /\ test[c - 1] = "failed"
    BY <1>2, <1>5 DEF Closed
  <1>8. Position'
    BY <1>1, <1>5, <1>6, <1>7 DEF Position, SubAgents
  <1>9. InHand'
    <2>1. pc' \in {"tester", "debugger"} => lastCode' = code[c]["programmer"]
      BY <1>1, <1>5
    <2>2. pc' = "debugger" => lastTest' = VerdictOf(c)
      BY <1>1, <1>5
    <2>3. pc' = "programmer" => lastTest'.cycle = c - 1 /\ ~lastTest'.passed
      <3> SUFFICES ASSUME pc' = "programmer" PROVE lastTest'.cycle = c - 1 /\ ~lastTest'.passed
        OBVIOUS
      <3>1. lastTest' = IF c > 0 THEN VerdictOf(c - 1) ELSE NoTest
        BY <1>1, <1>5
      <3>2. CASE c > 0
        <4>1. lastTest' = [cycle |-> c - 1, passed |-> FALSE]
          BY <1>7, <3>1, <3>2 DEF VerdictOf
        <4> QED
          BY <4>1
      <3>3. CASE c = 0
        BY <3>1, <3>3 DEF NoTest
      <3> QED
        BY <1>2, <3>2, <3>3
    <2> QED
      BY <1>1, <1>6, <2>1, <2>2, <2>3 DEF InHand, SubAgents, VerdictOf
  <1>10. PushInv'
    BY <1>6 DEF PushInv, FailedPushBlocksReview, SubAgents
  <1> QED
    BY <1>3, <1>4, <1>8, <1>9, <1>10

-----------------------------------------------------------------------------
\* The Programmer's and the Debugger's outputs extend the rows at their end.
LEMMA CodesCInv == CInv /\ (Programmer \/ Debugger) => CInv'
  <1> SUFFICES ASSUME CInv, Programmer \/ Debugger PROVE CInv'
    OBVIOUS
  <1> USE DEF CInv
  <1>1. PICK role \in {"programmer", "debugger"} :
          /\ pc = role /\ pc' = (IF role = "programmer" THEN "tester" ELSE "programmer")
          /\ \E claim \in BOOLEAN, b \in Reported :
                lastCode' = [cycle |-> cycle, role |-> role, claim |-> claim, branch |-> b]
          /\ code' = [code EXCEPT ![cycle][role] = lastCode']
          /\ work' = [work EXCEPT ![attempt] = @ \union {<<cycle, role>>}]
          /\ cycle' = (IF role = "programmer" THEN cycle ELSE cycle + 1)
          /\ UNCHANGED <<attempt, dbBranch, test, remote, lastTest, raising>>
    <2>1. CASE Programmer
      BY <2>1 DEF Programmer, Codes
    <2>2. CASE Debugger
      BY <2>2 DEF Debugger, Codes
    <2> QED
      BY <2>1, <2>2
  <1>2. /\ attempt \in Attempts /\ cycle \in Cycles /\ cycle \in Nat /\ MaxCycles \in Nat
        /\ role = "debugger" => cycle + 1 \in Cycles
    BY <1>1, CodingAssumption DEF Position, SubAgents, Cycles
  <1>3. lastCode' \in CodeOutput
    BY <1>1, <1>2 DEF Reported, CodeOutput, Branches, NoBranch, Other
  <1>4. /\ code' \in [Cycles -> [{"programmer", "debugger"} -> CodeOutput \union {NoCode}]]
        /\ \A c \in Cycles, r \in {"programmer", "debugger"} :
              code'[c][r] = IF c = cycle /\ r = role THEN lastCode' ELSE code[c][r]
    BY <1>1, <1>2, <1>3 DEF TypeOK
  <1>5. TypeOK'
    <2>1. work' \in [Attempts -> SUBSET (Cycles \X {"programmer", "debugger"})]
      BY <1>1, <1>2 DEF TypeOK
    <2>2. cycle' \in 0 .. MaxCycles
      BY <1>1, <1>2 DEF Cycles
    <2>3. pc' \in {"tester", "programmer"}
      BY <1>1
    <2> QED
      BY <1>1, <1>3, <1>4, <2>1, <2>2, <2>3 DEF TypeOK
  <1>6. lastCode' # NoCode
    BY <1>3, NoCodeIs
  <1>7. RowsArePrefix'
    <2> SUFFICES ASSUME NEW c \in Cycles
                 PROVE  /\ test[c] # "none" => code'[c]["programmer"] # NoCode
                        /\ code'[c]["debugger"] # NoCode => test[c] = "failed" /\ c + 1 < MaxCycles
                        /\ code'[c]["programmer"] # NoCode /\ c > 0
                             => code'[c - 1]["debugger"] # NoCode
      BY <1>1 DEF RowsArePrefix
    <2>1. test[c] # "none" => code'[c]["programmer"] # NoCode
      BY <1>4, <1>6 DEF RowsArePrefix
    <2>2. code'[c]["debugger"] # NoCode => test[c] = "failed" /\ c + 1 < MaxCycles
      BY <1>1, <1>4 DEF RowsArePrefix, Position
    <2>3. code'[c]["programmer"] # NoCode /\ c > 0 => code'[c - 1]["debugger"] # NoCode
      <3>1. c > 0 => c - 1 \in Cycles
        BY <1>2 DEF Cycles
      <3>2. code'[c]["programmer"] # NoCode /\ c > 0 => code[c - 1]["debugger"] # NoCode
        BY <1>1, <1>4 DEF RowsArePrefix, Position
      <3> QED
        BY <1>4, <1>6, <3>1, <3>2
    <2> QED
      BY <2>1, <2>2, <2>3
  <1>8. CASE role = "programmer"
    <2>1. code'[cycle]["programmer"] = lastCode' /\ code'[cycle]["debugger"] = code[cycle]["debugger"]
      BY <1>2, <1>4, <1>8
    <2>2. test[cycle] = "none" /\ code[cycle]["debugger"] = NoCode
      <3>1. code[cycle]["programmer"] = NoCode
        BY <1>1, <1>8 DEF Position
      <3> QED
        BY <1>2, <3>1 DEF RowsArePrefix
    <2>3. Position' /\ InHand'
      BY <1>1, <1>2, <1>6, <1>8, <2>1, <2>2 DEF Position, InHand, SubAgents
    <2>4. PushInv'
      BY <1>1, <1>8 DEF PushInv, FailedPushBlocksReview
    <2> QED
      BY <1>5, <1>7, <2>3, <2>4
  <1>9. CASE role = "debugger"
    <2>1. /\ pc = "debugger" /\ pc' = "programmer" /\ cycle' = cycle + 1
          /\ cycle' \in Cycles /\ cycle' - 1 = cycle /\ cycle' # cycle
      BY <1>1, <1>2, <1>9
    <2>2. code'[cycle' - 1]["debugger"] # NoCode
      BY <1>2, <1>4, <1>6, <1>9, <2>1
    <2>3. code'[cycle']["programmer"] = NoCode
      <3>1. code[cycle]["debugger"] = NoCode
        BY <2>1 DEF Position
      <3>2. code[cycle']["programmer"] = NoCode
        BY <1>2, <2>1, <3>1 DEF RowsArePrefix, Cycles
      <3> QED
        BY <1>4, <1>9, <2>1, <3>2
    <2>4. Position'
      BY <1>1, <1>2, <2>1, <2>2, <2>3 DEF Position, SubAgents
    <2>5. lastTest = [cycle |-> cycle, passed |-> FALSE]
      BY <2>1 DEF Position, InHand, VerdictOf
    <2>6. InHand'
      BY <1>1, <2>1, <2>5 DEF InHand
    <2>7. PushInv'
      BY <2>1 DEF PushInv, FailedPushBlocksReview
    <2> QED
      BY <1>5, <1>7, <2>4, <2>6, <2>7
  <1> QED
    BY <1>8, <1>9

\* The Tester's verdict extends the rows at their end.
LEMMA TesterCInv == CInv /\ Tester => CInv'
  <1> SUFFICES ASSUME CInv, Tester PROVE CInv'
    OBVIOUS
  <1> USE DEF CInv
  <1>1. PICK verdict \in {"passed", "failed"} :
          /\ test' = [test EXCEPT ![cycle] = verdict]
          /\ lastTest' = [cycle |-> cycle, passed |-> verdict = "passed"]
    BY DEF Tester
  <1>2. /\ pc = "tester" /\ pc' = "verdict"
        /\ UNCHANGED <<attempt, dbBranch, code, work, remote, cycle, lastCode, raising>>
    BY DEF Tester, git
  <1>3. /\ attempt \in Attempts /\ cycle \in Cycles /\ test[cycle] = "none"
        /\ code[cycle]["programmer"] # NoCode /\ code[cycle]["debugger"] = NoCode
    BY <1>2 DEF Position, SubAgents
  <1>4. \A c \in Cycles : test'[c] = IF c = cycle THEN verdict ELSE test[c]
    BY <1>1 DEF TypeOK
  <1>5. TypeOK'
    BY <1>1, <1>2, <1>3 DEF TypeOK
  <1>6. RowsArePrefix'
    BY <1>2, <1>3, <1>4 DEF RowsArePrefix
  <1>7. Position'
    BY <1>2, <1>3, <1>4 DEF Position, SubAgents
  <1>8. InHand'
    BY <1>1, <1>2, <1>3, <1>4 DEF InHand, VerdictOf
  <1>9. PushInv'
    BY <1>2 DEF PushInv, FailedPushBlocksReview
  <1> QED
    BY <1>5, <1>6, <1>7, <1>8, <1>9

\* Whatever does not touch the rows and leaves the loop for the push.
LEMMA SubAgentFailsCInv == CInv /\ SubAgentFails => CInv'
  <1> SUFFICES ASSUME CInv, SubAgentFails PROVE CInv'
    OBVIOUS
  <1> USE DEF CInv
  <1>1. /\ pc \in SubAgents /\ pc' = "push" /\ raising' = TRUE
        /\ UNCHANGED <<attempt, dbBranch, code, test, remote, cycle, lastCode, lastTest>>
        /\ work' = work \/ /\ pc # "tester"
                           /\ work' = [work EXCEPT ![attempt] = @ \union {<<cycle, pc>>}]
    BY DEF SubAgentFails, SubAgents, rows
  <1>2. attempt \in Attempts /\ cycle \in Cycles
    BY <1>1 DEF Position, SubAgents
  <1>3. work' \in [Attempts -> SUBSET (Cycles \X {"programmer", "debugger"})]
    BY <1>1, <1>2 DEF TypeOK, SubAgents
  <1>4. TypeOK'
    BY <1>1, <1>3 DEF TypeOK
  <1>5. RowsArePrefix'
    BY <1>1 DEF RowsArePrefix
  <1>6. Position' /\ InHand' /\ PushInv'
    BY <1>1, <1>2 DEF Position, InHand, PushInv, FailedPushBlocksReview, SubAgents
  <1> QED
    BY <1>4, <1>5, <1>6

\* After a verdict the loop goes on to the Debugger of this cycle or ends.
LEMMA VerdictCInv == CInv /\ Verdict => CInv'
  <1> SUFFICES ASSUME CInv, Verdict PROVE CInv'
    OBVIOUS
  <1> USE DEF CInv
  <1>1. /\ pc = "verdict"
        /\ UNCHANGED <<attempt, dbBranch, code, test, work, remote, cycle, lastTest, raising>>
    BY DEF Verdict, rows, git
  <1>2. /\ attempt \in Attempts /\ cycle \in Cycles /\ cycle \in 0 .. MaxCycles
        /\ lastCode \in CodeOutput /\ lastTest = VerdictOf(cycle) /\ test[cycle] # "none"
        /\ code[cycle]["programmer"] # NoCode /\ code[cycle]["debugger"] = NoCode
        /\ lastCode = code[cycle]["programmer"]
    BY <1>1 DEF Position, InHand, TypeOK
  <1>3. RowsArePrefix'
    BY <1>1 DEF RowsArePrefix
  <1>4. CASE pc' = "push" /\ lastCode' \in CodeOutput
    <2>1. TypeOK'
      BY <1>1, <1>4 DEF TypeOK
    <2>2. Position' /\ InHand' /\ PushInv'
      BY <1>1, <1>2, <1>4 DEF Position, InHand, PushInv, FailedPushBlocksReview, SubAgents
    <2> QED
      BY <1>3, <2>1, <2>2
  <1>5. CASE /\ ~lastTest.passed /\ cycle + 1 < MaxCycles
             /\ pc' = "debugger" /\ UNCHANGED lastCode
    <2>1. TypeOK'
      BY <1>1, <1>5 DEF TypeOK
    <2>2. test[cycle] = "failed"
      BY <1>2, <1>5 DEF TypeOK, VerdictOf
    <2>3. Position'
      BY <1>1, <1>2, <1>5, <2>2 DEF Position, SubAgents
    <2>4. InHand'
      BY <1>1, <1>2, <1>5 DEF InHand, VerdictOf
    <2>5. PushInv'
      BY <1>5 DEF PushInv, FailedPushBlocksReview
    <2> QED
      BY <1>3, <2>1, <2>3, <2>4, <2>5
  <1>6. /\ [lastCode EXCEPT !.claim = TRUE, !.branch = attempt] \in CodeOutput
        /\ [lastCode EXCEPT !.branch = attempt] \in CodeOutput
    BY <1>2 DEF CodeOutput, Branches
  <1> QED
    BY <1>2, <1>4, <1>5, <1>6 DEF Verdict

\* A push that fails empties the branch of the row and that of the output.
LEMMA PushCInv == CInv /\ Push => CInv'
  <1> SUFFICES ASSUME CInv, Push PROVE CInv'
    OBVIOUS
  <1> USE DEF CInv
  <1>1. /\ pc = "push" /\ pc' = "cleanup" /\ attempt \in Attempts
        /\ UNCHANGED <<attempt, code, test, work, cycle, lastTest, raising>>
    BY DEF Push, rows, Position
  <1>2. RowsArePrefix'
    BY <1>1 DEF RowsArePrefix
  <1>3. Position' /\ InHand'
    BY <1>1 DEF Position, InHand, SubAgents
  <1>4. CASE /\ remote' = IF PushEnabled THEN remote \union {attempt} ELSE remote
             /\ UNCHANGED <<dbBranch, lastCode>>
    <2>1. TypeOK'
      BY <1>1, <1>4 DEF TypeOK
    <2>2. PushInv'
      BY <1>1, <1>4 DEF PushInv, FailedPushBlocksReview
    <2> QED
      BY <1>2, <1>3, <2>1, <2>2
  <1>5. CASE /\ dbBranch' = NoBranch /\ lastCode' = [lastCode EXCEPT !.branch = NoBranch]
             /\ UNCHANGED remote
    <2>1. /\ lastCode' \in CodeOutput \union {NoCode}
          /\ lastCode'.branch = NoBranch
      <3>1. CASE lastCode \in CodeOutput
        BY <1>5, <3>1 DEF CodeOutput, Branches
      <3>2. CASE lastCode = NoCode
        <4>1. lastCode' = NoCode
          BY <1>5, <3>2 DEF NoCode
        <4> QED
          BY <4>1, NoCodeIs
      <3> QED
        BY <3>1, <3>2 DEF TypeOK
    <2>2. TypeOK'
      BY <1>1, <1>5, <2>1 DEF TypeOK, Branches
    <2>3. PushInv'
      BY <1>1, <1>5, <2>1 DEF PushInv, FailedPushBlocksReview
    <2> QED
      BY <1>2, <1>3, <2>2, <2>3
  <1> QED
    BY <1>4, <1>5 DEF Push

\* The attempt's way out: cleanup, the COALESCE of the executor, the next attempt.
LEMMA LeaveCInv == CInv /\ (Cleanup \/ Return \/ Retry \/ GiveUp) => CInv'
  <1> SUFFICES ASSUME CInv, Cleanup \/ Return \/ Retry \/ GiveUp PROVE CInv'
    OBVIOUS
  <1> USE DEF CInv
  <1>1. /\ pc \in {"cleanup", "return", "failed"} /\ attempt \in Attempts
        /\ pc' \in {"failed", "return", "done", "idle", "gaveUp"}
        /\ UNCHANGED <<attempt, code, test, work, remote, cycle>>
    BY DEF Cleanup, Return, Retry, GiveUp, rows, git, Position
  <1>2. RowsArePrefix'
    BY <1>1 DEF RowsArePrefix
  <1>3. Position' /\ InHand'
    BY <1>1 DEF Position, InHand, SubAgents
  <1>4. CASE Cleanup
    <2>1. pc = "cleanup" /\ UNCHANGED <<dbBranch, lastCode, lastTest>> /\ raising' = FALSE
          /\ pc' \in {"failed", "return"}
      BY <1>4 DEF Cleanup
    <2>2. TypeOK'
      BY <1>1, <2>1 DEF TypeOK
    <2>3. PushInv'
      BY <1>1, <2>1 DEF PushInv, FailedPushBlocksReview
    <2> QED
      BY <1>2, <1>3, <2>2, <2>3
  <1>5. CASE Return
    <2>1. /\ pc = "return" /\ pc' = "done" /\ UNCHANGED <<lastCode, lastTest, raising>>
          /\ dbBranch' = IF lastCode.branch = NoBranch THEN dbBranch ELSE lastCode.branch
      BY <1>5 DEF Return
    <2>2. dbBranch' \in Branches
      BY <2>1 DEF TypeOK, CodeOutput, NoCode
    <2>3. TypeOK'
      BY <1>1, <2>1, <2>2 DEF TypeOK
    <2>4. PushInv'
      BY <1>1, <2>1 DEF PushInv, FailedPushBlocksReview
    <2> QED
      BY <1>2, <1>3, <2>3, <2>4
  <1>6. CASE Retry \/ GiveUp
    <2>1. /\ pc' \in {"idle", "gaveUp"} /\ UNCHANGED <<dbBranch, raising>>
          /\ lastCode' \in {lastCode, NoCode} /\ lastTest' \in {lastTest, NoTest}
      BY <1>6 DEF Retry, GiveUp
    <2>2. TypeOK'
      BY <1>1, <2>1 DEF TypeOK
    <2>3. PushInv'
      BY <2>1 DEF PushInv, FailedPushBlocksReview
    <2> QED
      BY <1>2, <1>3, <2>2, <2>3
  <1> QED
    BY <1>4, <1>5, <1>6

-----------------------------------------------------------------------------
\* The invariant of the node.
THEOREM CInvHolds == Spec => []CInv
  <1>1. CInv /\ [Next]_vars => CInv'
    <2> SUFFICES ASSUME CInv, [Next]_vars PROVE CInv'
      OBVIOUS
    <2>1. CASE Ended \/ UNCHANGED vars
      <3>1. UNCHANGED vars
        BY <2>1 DEF Ended
      <3> QED
        BY <3>1 DEF vars, CInv, TypeOK, RowsArePrefix, Position, InHand, VerdictOf, PushInv,
                    FailedPushBlocksReview
    <2> QED
      BY <2>1, StartAttemptCInv, WorktreeFailsCInv, ResumeCInv, CodesCInv, TesterCInv,
         SubAgentFailsCInv, VerdictCInv, PushCInv, LeaveCInv DEF Next
  <1> QED
    BY InitCInv, <1>1, PTL DEF Spec

\* Types, for any caps and both settings of git_push_enabled.
THEOREM CodingTypes == Spec => []TypeOK
  <1>1. CInv => TypeOK
    BY DEF CInv
  <1> QED
    BY CInvHolds, <1>1, PTL

\* What is persisted is a prefix of the loop's outputs, whichever attempts wrote
\* it and wherever they failed: what _reconstruct_resume_point relies on.
THEOREM RowsStayPrefix == Spec => []RowsArePrefix
  <1>1. CInv => RowsArePrefix
    BY DEF CInv
  <1> QED
    BY CInvHolds, <1>1, PTL

\* No sub-agent whose output is persisted is invoked again.
THEOREM NothingIsRepeated == Spec => []NothingRepeated
  <1>1. CInv => NothingRepeated
    BY DEF CInv, Position, NothingRepeated
  <1> QED
    BY CInvHolds, <1>1, PTL

\* A sub-agent is given what it is meant to build on, resumed or not.
THEOREM InputsStayFresh == Spec => []InputsAreFresh
  <1>1. CInv => InputsAreFresh
    BY DEF CInv, Position, InHand, InputsAreFresh, VerdictOf
  <1> QED
    BY CInvHolds, <1>1, PTL

\* A node that completes without its branch on the remote leaves no branch_name.
THEOREM FailedPushBlocks == Spec => []FailedPushBlocksReview
  <1>1. CInv => FailedPushBlocksReview
    BY DEF CInv, PushInv
  <1> QED
    BY CInvHolds, <1>1, PTL

-----------------------------------------------------------------------------
\* Each output says who wrote it and when.
Tagged ==
    \A c \in Cycles, r \in {"programmer", "debugger"} :
        code[c][r] # NoCode => code[c][r].cycle = c /\ code[c][r].role = r

\* What a completed node promises of its output.
Judged ==
    /\ lastCode.role = "programmer"
    /\ lastCode.cycle = lastTest.cycle
    /\ lastTest.passed \/ \A c \in Cycles : test[c] = "failed"

\* The loop is only at a cycle when the tests of all cycles before it have failed,
\* and an attempt that has not raised leaves it with the output last judged.
TestedInv ==
    /\ Tagged
    /\ pc \in SubAgents \union {"verdict"} => \A b \in Cycles : b < cycle => test[b] = "failed"
    /\ (pc \in {"push", "cleanup"} /\ ~raising) \/ pc \in {"return", "done"} => Judged

\* A resumed attempt with nothing left to do holds the output that was judged last.
LEMMA ResumeTested == CInv /\ TestedInv /\ Resume => TestedInv'
  <1> SUFFICES ASSUME CInv, TestedInv, Resume PROVE TestedInv'
    OBVIOUS
  <1> DEFINE c == ResumeCycle
  <1>1. /\ cycle' = c /\ pc' = ResumeStep(c)
        /\ lastCode' = IF c < MaxCycles /\ code[c]["programmer"] # NoCode
                       THEN code[c]["programmer"] ELSE CodeBefore(c)
        /\ lastTest' = IF c < MaxCycles /\ test[c] # "none" THEN VerdictOf(c)
                       ELSE IF c > 0 THEN VerdictOf(c - 1) ELSE NoTest
        /\ UNCHANGED <<code, test>>
    BY Zenon DEF Resume, rows
  <1>2. /\ c \in 0 .. MaxCycles /\ MaxCycles \in Nat \ {0}
        /\ \A b \in Cycles : b < c => test[b] = "failed"
    <2>1. \A b \in 0 .. c - 1 : test[b] = "failed"
      BY ResumePoint DEF Closed
    <2> QED
      BY <2>1, ResumePoint, CodingAssumption DEF Cycles
  <1> HIDE DEF c
  <1>3. Tagged'
    BY <1>1 DEF TestedInv, Tagged
  <1>4. pc' \in SubAgents \union {"push"}
    BY <1>1 DEF ResumeStep, SubAgents
  <1>5. ASSUME pc' = "push" PROVE Judged'
    <2>1. CASE c = MaxCycles
      <3>1. c - 1 \in Cycles /\ c - 1 + 1 = MaxCycles /\ c > 0 /\ ~(c < MaxCycles)
        BY <1>2, <2>1 DEF Cycles
      <3>2. test[c - 1] = "failed" /\ \A b \in Cycles : test[b] = "failed"
        BY <1>2, <2>1, <3>1 DEF Cycles
      <3>3. code[c - 1]["debugger"] = NoCode /\ code[c - 1]["programmer"] # NoCode
        BY <1>2, <3>1, <3>2 DEF CInv, RowsArePrefix
      <3>4. lastCode' = code[c - 1]["programmer"] /\ lastTest' = VerdictOf(c - 1)
        BY <1>1, <3>1, <3>3 DEF CodeBefore
      <3>5. lastCode'.cycle = c - 1 /\ lastCode'.role = "programmer"
        BY <3>1, <3>3, <3>4 DEF TestedInv, Tagged
      <3> QED
        BY <1>1, <3>2, <3>4, <3>5 DEF Judged, VerdictOf
    <2>2. CASE c # MaxCycles
      <3>1. c < MaxCycles /\ c \in Cycles
        BY <1>2, <2>2 DEF Cycles
      <3>2. test[c] = "passed"
        BY <1>1, <1>5, <2>2 DEF ResumeStep
      <3>3. code[c]["programmer"] # NoCode
        BY <3>1, <3>2 DEF CInv, RowsArePrefix
      <3>4. lastCode' = code[c]["programmer"] /\ lastTest' = VerdictOf(c)
        BY <1>1, <3>1, <3>2, <3>3
      <3>5. lastCode'.cycle = c /\ lastCode'.role = "programmer"
        BY <3>1, <3>3, <3>4 DEF TestedInv, Tagged
      <3> QED
        BY <3>2, <3>4, <3>5 DEF Judged, VerdictOf
    <2> QED
      BY <2>1, <2>2
  <1> QED
    BY <1>1, <1>2, <1>3, <1>4, <1>5 DEF TestedInv, SubAgents

\* The Verdict is on the Programmer's output of its cycle; when it is the last one,
\* all verdicts were bad.
LEMMA VerdictTested == CInv /\ TestedInv /\ Verdict => TestedInv'
  <1> SUFFICES ASSUME CInv, TestedInv, Verdict PROVE TestedInv'
    OBVIOUS
  <1>1. pc = "verdict" /\ UNCHANGED <<code, test, cycle, lastTest>>
    BY DEF Verdict, rows
  <1>2. /\ cycle \in Cycles /\ lastCode = code[cycle]["programmer"] /\ lastCode # NoCode
        /\ lastTest = VerdictOf(cycle) /\ test[cycle] \in {"passed", "failed"}
        /\ \A b \in Cycles : b < cycle => test[b] = "failed"
    BY <1>1 DEF CInv, Position, InHand, SubAgents, TypeOK, TestedInv
  <1>3. lastCode.cycle = cycle /\ lastCode.role = "programmer" /\ lastCode \in CodeOutput
    BY <1>2 DEF TestedInv, Tagged, CInv, TypeOK
  <1>4. Tagged'
    BY <1>1 DEF TestedInv, Tagged
  <1>5. CASE pc' = "debugger"
    BY <1>1, <1>2, <1>4, <1>5 DEF TestedInv
  <1>6. ASSUME pc' # "debugger" PROVE pc' = "push" /\ Judged'
    <2>1. lastCode'.cycle = lastCode.cycle /\ lastCode'.role = lastCode.role /\ pc' = "push"
      BY <1>1, <1>3, <1>6 DEF Verdict, CodeOutput
    <2>2. CASE lastTest.passed
      BY <1>1, <1>2, <1>3, <2>1, <2>2 DEF Judged, VerdictOf
    <2>3. CASE ~lastTest.passed
      <3>1. ~(cycle + 1 < MaxCycles) /\ test[cycle] = "failed"
        BY <1>2, <1>6, <2>3 DEF Verdict, VerdictOf
      <3>2. \A b \in Cycles : test[b] = "failed"
        BY <1>2, <3>1, CodingAssumption DEF Cycles
      <3> QED
        BY <1>1, <1>2, <1>3, <2>1, <3>2 DEF Judged, VerdictOf
    <2> QED
      BY <2>1, <2>2, <2>3
  <1> QED
    BY <1>4, <1>5, <1>6 DEF TestedInv, SubAgents

\* The other sub-agents extend the rows and stay in the loop, or raise.
LEMMA SubAgentTested ==
    CInv /\ TestedInv /\ (Programmer \/ Debugger \/ Tester \/ SubAgentFails) => TestedInv'
  <1> SUFFICES ASSUME CInv, TestedInv, Programmer \/ Debugger \/ Tester \/ SubAgentFails
               PROVE TestedInv'
    OBVIOUS
  <1>1. pc \in SubAgents /\ cycle \in Cycles
    BY DEF Programmer, Debugger, Codes, Tester, SubAgentFails, SubAgents, CInv, Position
  <1>2. \A b \in Cycles : b < cycle => test[b] = "failed"
    BY <1>1 DEF TestedInv
  <1>3. CASE Programmer \/ Debugger
    <2>1. PICK role \in {"programmer", "debugger"} :
            /\ pc = role /\ pc' = (IF role = "programmer" THEN "tester" ELSE "programmer")
            /\ \E claim \in BOOLEAN, b \in Reported :
                  lastCode' = [cycle |-> cycle, role |-> role, claim |-> claim, branch |-> b]
            /\ code' = [code EXCEPT ![cycle][role] = lastCode']
            /\ cycle' = (IF role = "programmer" THEN cycle ELSE cycle + 1)
            /\ UNCHANGED test
      BY <1>3 DEF Programmer, Debugger, Codes
    <2>2. \A c \in Cycles, r \in {"programmer", "debugger"} :
             code'[c][r] = IF c = cycle /\ r = role THEN lastCode' ELSE code[c][r]
      BY <1>1, <2>1 DEF CInv, TypeOK
    <2>3. Tagged'
      BY <1>1, <2>1, <2>2 DEF TestedInv, Tagged
    <2>4. role = "debugger" => test[cycle] = "failed"
      BY <2>1 DEF CInv, Position
    <2>5. \A b \in Cycles : b < cycle' => test'[b] = "failed"
      BY <1>1, <1>2, <2>1, <2>4 DEF Cycles
    <2> QED
      BY <2>1, <2>3, <2>5 DEF TestedInv
  <1>4. CASE Tester
    <2>1. /\ pc' = "verdict" /\ UNCHANGED <<code, cycle>>
          /\ \A b \in Cycles : b # cycle => test'[b] = test[b]
      BY <1>1, <1>4 DEF Tester, CInv, TypeOK
    <2>2. Tagged'
      BY <2>1 DEF TestedInv, Tagged
    <2>3. \A b \in Cycles : b < cycle => b # cycle
      BY DEF Cycles
    <2> QED
      BY <1>2, <2>1, <2>2, <2>3 DEF TestedInv
  <1>5. CASE SubAgentFails
    <2>1. pc' = "push" /\ raising' = TRUE /\ UNCHANGED code
      BY <1>5 DEF SubAgentFails, rows
    <2> QED
      BY <2>1 DEF TestedInv, Tagged, SubAgents
  <1> QED
    BY <1>3, <1>4, <1>5

\* The way out changes neither the rows nor what was judged.
LEMMA LeaveTested ==
    CInv /\ TestedInv /\ (\/ StartAttempt \/ WorktreeFails \/ Push \/ Cleanup
                          \/ Return \/ Retry \/ GiveUp)
        => TestedInv'
  <1> SUFFICES ASSUME CInv, TestedInv,
                      \/ StartAttempt \/ WorktreeFails \/ Push \/ Cleanup
                      \/ Return \/ Retry \/ GiveUp
               PROVE  TestedInv'
    OBVIOUS
  <1>1. UNCHANGED <<code, test>>
    BY DEF StartAttempt, WorktreeFails, Push, Cleanup, Return, Retry, GiveUp, rows
  <1>2. Tagged'
    BY <1>1 DEF TestedInv, Tagged
  <1>3. CASE StartAttempt \/ WorktreeFails \/ Retry \/ GiveUp
    <2>1. pc' \in {"resume", "failed", "idle", "gaveUp"}
      BY <1>3 DEF StartAttempt, WorktreeFails, Retry, GiveUp
    <2> QED
      BY <1>2, <2>1 DEF TestedInv, SubAgents
  <1>4. CASE Push
    <2>1. pc = "push" /\ pc' = "cleanup" /\ UNCHANGED <<lastTest, raising>>
      BY <1>4 DEF Push
    <2>2. lastCode \in CodeOutput \union {NoCode}
      BY DEF CInv, TypeOK
    <2>3. lastCode'.role = lastCode.role /\ lastCode'.cycle = lastCode.cycle
      BY <1>4, <2>2 DEF Push, CodeOutput, NoCode
    <2>4. Judged => Judged'
      BY <1>1, <2>1, <2>3 DEF Judged
    <2> QED
      BY <1>2, <2>1, <2>4 DEF TestedInv, SubAgents
  <1>5. CASE Cleanup \/ Return
    <2>1. /\ UNCHANGED <<lastCode, lastTest>>
          /\ \/ pc = "cleanup" /\ (pc' = "failed" \/ (pc' = "return" /\ ~raising))
             \/ pc = "return" /\ pc' = "done"
      BY <1>5 DEF Cleanup, Return
    <2>2. Judged => Judged'
      BY <1>1, <2>1 DEF Judged
    <2> QED
      BY <1>2, <2>1, <2>2 DEF TestedInv, SubAgents
  <1> QED
    BY <1>3, <1>4, <1>5

\* The output a Coding node completes with and the last verdict are records of
\* one cycle, however many attempts it took.
THEOREM OutputsMatchVerdicts == Spec => []OutputMatchesVerdict
  <1>1. Init => TestedInv
    BY DEF Init, TestedInv, Tagged, SubAgents
  <1>2. CInv /\ TestedInv /\ [Next]_vars => TestedInv'
    <2> SUFFICES ASSUME CInv, TestedInv, [Next]_vars PROVE TestedInv'
      OBVIOUS
    <2>1. CASE Ended \/ UNCHANGED vars
      <3>1. UNCHANGED vars
        BY <2>1 DEF Ended
      <3> QED
        BY <3>1 DEF vars, TestedInv, Tagged, Judged
    <2> QED
      BY <2>1, ResumeTested, VerdictTested, SubAgentTested, LeaveTested DEF Next
  <1>3. TestedInv => OutputMatchesVerdict
    BY DEF TestedInv, Judged, OutputMatchesVerdict
  <1> QED
    BY CInvHolds, <1>1, <1>2, <1>3, PTL DEF Spec

-----------------------------------------------------------------------------
(* A Coding node keeps the contract it has with the executor.               *)

\* An attempt's branch is new to the remote until the attempt pushes it, and in
\* the row until a push of it fails.
RemoteInv ==
    /\ remote \subseteq 1 .. attempt
    /\ pc \in SubAgents \union {"resume", "verdict", "push"} => dbBranch = attempt /\ attempt \notin remote
    /\ pc \in {"cleanup", "return"} /\ (attempt \in remote \/ ~PushEnabled) => dbBranch = attempt

\* Only Push writes to the remote, and only for the attempt it belongs to.
LEMMA NextRemote == CInv /\ RemoteInv /\ [Next]_vars => RemoteInv'
  <1> SUFFICES ASSUME CInv, RemoteInv, [Next]_vars PROVE RemoteInv'
    OBVIOUS
  <1>1. attempt \in 0 .. MaxAttempts /\ MaxAttempts \in Nat /\ (pc # "idle" => attempt \in Attempts)
    BY CodingAssumption DEF CInv, TypeOK, Position
  <1>2. CASE StartAttempt
    <2>1. attempt' = attempt + 1 /\ dbBranch' = attempt' /\ pc' = "resume" /\ remote' = remote
      BY <1>2 DEF StartAttempt, git
    <2> QED
      BY <1>1, <2>1 DEF RemoteInv
  <1>3. CASE Resume
    BY <1>3 DEF Resume, ResumeStep, RemoteInv, SubAgents
  <1>4. CASE Programmer \/ Debugger \/ Tester \/ SubAgentFails \/ Verdict
    <2>1. /\ UNCHANGED <<attempt, dbBranch, remote>> /\ pc \in SubAgents \union {"verdict"}
          /\ pc' \in SubAgents \union {"verdict", "push"}
      BY <1>4 DEF Programmer, Debugger, Codes, Tester, SubAgentFails, Verdict, git, SubAgents
    <2> QED
      BY <2>1 DEF RemoteInv, SubAgents
  <1>5. CASE Push
    <2>1. pc = "push" /\ pc' = "cleanup" /\ attempt' = attempt /\ attempt \in Attempts
      BY <1>1, <1>5 DEF Push
    <2>2. CASE remote' \in {remote, remote \union {attempt}} /\ UNCHANGED dbBranch
      BY <2>1, <2>2 DEF RemoteInv, SubAgents, Attempts
    <2>3. CASE PushEnabled /\ UNCHANGED remote
      BY <2>1, <2>3 DEF RemoteInv, SubAgents
    <2> QED
      BY <1>5, <2>2, <2>3 DEF Push
  <1>6. CASE Cleanup \/ Return \/ Retry \/ GiveUp
    <2>1. /\ UNCHANGED <<attempt, remote>> /\ pc' \in {"failed", "return", "done", "idle", "gaveUp"}
          /\ pc' = "return" => pc = "cleanup" /\ UNCHANGED dbBranch
      BY <1>6 DEF Cleanup, Return, Retry, GiveUp, git
    <2> QED
      BY <2>1 DEF RemoteInv, SubAgents
  <1>7. CASE Ended \/ UNCHANGED vars
    BY <1>7 DEF Ended, vars, RemoteInv
  <1>8. CASE WorktreeFails
    <2>1. attempt' = attempt + 1 /\ pc' = "failed" /\ remote' = remote
      BY <1>8 DEF WorktreeFails, git
    <2> QED
      BY <1>1, <2>1 DEF RemoteInv, SubAgents
  <1> QED
    BY <1>2, <1>3, <1>4, <1>5, <1>6, <1>7, <1>8 DEF Next

\* Every step of the node is a step of the contract or one that the executor does
\* not see.
LEMMA StepOfContract ==
    ASSUME CInv, RemoteInv, [Next]_vars
    PROVE  [Contract!NodeNext]_(Contract!nodeVars)
  <1> USE DEF Contract!nodeVars, Contract!NodeNext
  <1>1. CASE StartAttempt
    BY <1>1 DEF StartAttempt, RowSeen, Contract!NewWorktree
  <1>2. CASE Resume
    BY <1>2 DEF Resume, ResumeStep, RowSeen
  <1>3. CASE Programmer \/ Debugger \/ Tester \/ SubAgentFails \/ Verdict \/ Push
    <2>1. /\ pc \in SubAgents \union {"verdict", "push"}
          /\ pc' \in SubAgents \union {"verdict", "push", "cleanup"}
      BY <1>3 DEF Programmer, Debugger, Codes, Tester, SubAgentFails, Verdict, Push, SubAgents
    <2> QED
      BY <2>1 DEF RowSeen, SubAgents
  <1>4. CASE Cleanup
    <2>1. /\ pc = "cleanup" /\ pc' \in {"failed", "return"}
          /\ UNCHANGED <<attempt, dbBranch, remote, lastCode>>
      BY <1>4 DEF Cleanup, git
    <2>2. CASE pc' = "failed"
      BY <2>1, <2>2 DEF RowSeen, Contract!AttemptFails
    <2>3. CASE pc' = "return"
      <3>1. CASE attempt \in remote \/ ~PushEnabled
        <4>1. dbBranch = attempt /\ attempt # NoBranch
          BY <2>1, <3>1 DEF RemoteInv, CInv, Position, Attempts, NoBranch
        <4> QED
          BY <2>1, <2>3, <3>1, <4>1 DEF RowSeen, Contract!AttemptAnswers
      <3>2. CASE attempt \notin remote /\ PushEnabled
        <4>1. dbBranch = NoBranch /\ lastCode.branch = NoBranch
          BY <2>1, <3>2 DEF CInv, PushInv
        <4> QED
          BY <2>1, <2>3, <4>1 DEF RowSeen, Contract!AttemptAnswers
      <3> QED
        BY <3>1, <3>2
    <2> QED
      BY <2>1, <2>2, <2>3
  <1>5. CASE Return
    <2>1. /\ pc = "return" /\ pc' = "done" /\ UNCHANGED <<remote, lastCode>>
          /\ dbBranch' = IF lastCode.branch = NoBranch THEN dbBranch ELSE lastCode.branch
      BY <1>5 DEF Return, git
    <2> QED
      BY <2>1 DEF RowSeen, Contract!Complete
  <1>6. CASE Retry \/ GiveUp
    <2>1. pc = "failed" /\ pc' \in {"idle", "gaveUp"} /\ UNCHANGED <<dbBranch, remote>>
      BY <1>6 DEF Retry, GiveUp, git
    <2> QED
      BY <2>1 DEF RowSeen, Contract!TryAgain, Contract!GiveUp
  <1>7. CASE Ended \/ UNCHANGED vars
    BY <1>7 DEF Ended, vars, RowSeen
  <1>8. CASE WorktreeFails
    BY <1>8 DEF WorktreeFails, RowSeen, git, Contract!AttemptFails
  <1> QED
    BY <1>1, <1>2, <1>3, <1>4, <1>5, <1>6, <1>7, <1>8 DEF Next

\* Whatever happens in an attempt, it ends as the executor expects: an answer only
\* with the branch pushed, or with none named.
THEOREM ContractIsKept == Spec => ImplementsContract
  <1>1. Init => RemoteInv /\ Contract!NodeInit
    BY DEF Init, RemoteInv, SubAgents, RowSeen, Contract!NodeInit
  <1>2. CInv /\ RemoteInv /\ [Next]_vars => [Contract!NodeNext]_(Contract!nodeVars)
    BY StepOfContract
  <1> QED
    BY CInvHolds, NextRemote, <1>1, <1>2, PTL DEF Spec, ImplementsContract, Contract!NodeSpec

-----------------------------------------------------------------------------
(* What CodingEnds rests on besides fairness: the steps are counted.        *)

\* Where an attempt stands among the steps it can take.
Stage ==
    CASE pc = "resume" -> 0
      [] pc = "programmer" -> 4 * cycle + 1
      [] pc = "tester" -> 4 * cycle + 2
      [] pc = "verdict" -> 4 * cycle + 3
      [] pc = "debugger" -> 4 * cycle + 4
      [] pc = "push" -> 4 * MaxCycles + 1
      [] pc = "cleanup" -> 4 * MaxCycles + 2
      [] pc \in {"return", "failed"} -> 4 * MaxCycles + 3
      [] pc \in {"idle", "done", "gaveUp"} -> 4 * MaxCycles + 4

StepsPerAttempt == 4 * MaxCycles + 5
StepsLeft == (MaxAttempts - attempt) * StepsPerAttempt + 4 * MaxCycles + 4 - Stage

\* The stages, place by place.
LEMMA StagesOf ==
    /\ pc = "resume" => Stage = 0
    /\ pc = "programmer" => Stage = 4 * cycle + 1
    /\ pc = "tester" => Stage = 4 * cycle + 2
    /\ pc = "verdict" => Stage = 4 * cycle + 3
    /\ pc = "debugger" => Stage = 4 * cycle + 4
    /\ pc = "push" => Stage = 4 * MaxCycles + 1
    /\ pc = "cleanup" => Stage = 4 * MaxCycles + 2
    /\ pc \in {"return", "failed"} => Stage = 4 * MaxCycles + 3
    /\ pc \in {"idle", "done", "gaveUp"} => Stage = 4 * MaxCycles + 4
  BY DEF Stage

\* There is a number of steps left, in every state the node can be in.
LEMMA StepsLeftIsNat ==
    ASSUME CInv
    PROVE  Stage \in 0 .. 4 * MaxCycles + 4 /\ StepsLeft \in Nat
  <1>1. /\ MaxCycles \in Nat \ {0} /\ MaxAttempts \in Nat
        /\ attempt \in 0 .. MaxAttempts /\ cycle \in 0 .. MaxCycles
        /\ pc \in SubAgents \union {"verdict"} => cycle < MaxCycles
        /\ pc = "debugger" => cycle + 1 < MaxCycles
        /\ pc \in SubAgents \union {"resume", "verdict", "push", "cleanup", "return", "failed",
                                    "idle", "done", "gaveUp"}
    BY CodingAssumption DEF CInv, TypeOK, Position, Cycles, SubAgents
  <1>2. Stage \in 0 .. 4 * MaxCycles + 4
    <2>1. CASE pc \in SubAgents \union {"verdict"}
      BY <1>1, <2>1, StagesOf DEF SubAgents
    <2>2. CASE pc \notin SubAgents \union {"verdict"}
      BY <1>1, <2>2, StagesOf DEF SubAgents
    <2> QED
      BY <2>1, <2>2
  <1>3. MaxAttempts - attempt \in Nat /\ StepsPerAttempt \in Nat
    BY <1>1 DEF StepsPerAttempt
  <1>4. (MaxAttempts - attempt) * StepsPerAttempt \in Nat
    BY <1>3
  <1> QED
    BY <1>1, <1>2, <1>4 DEF StepsLeft

\* Within an attempt each step is a step forward.
LEMMA StageGrows ==
    ASSUME CInv, CInv', Next, ~Ended, ~(StartAttempt \/ WorktreeFails)
    PROVE  attempt' = attempt /\ Stage' > Stage
  <1>1. /\ MaxCycles \in Nat \ {0} /\ cycle \in Int /\ cycle' \in Int
        /\ pc \in SubAgents \union {"verdict"} => cycle < MaxCycles
        /\ pc = "debugger" => cycle + 1 < MaxCycles
        /\ pc' \in SubAgents \union {"verdict"} => cycle' < MaxCycles /\ cycle' >= 0
        /\ pc' = "debugger" => cycle' + 1 < MaxCycles
    <2>1. cycle \in 0 .. MaxCycles /\ cycle' \in 0 .. MaxCycles
      BY DEF CInv, TypeOK
    <2>2. /\ pc \in SubAgents \union {"verdict"} => cycle \in Cycles
          /\ pc = "debugger" => cycle + 1 < MaxCycles
      BY DEF CInv, Position
    <2>3. /\ pc' \in SubAgents \union {"verdict"} => cycle' \in Cycles
          /\ pc' = "debugger" => cycle' + 1 < MaxCycles
      BY DEF CInv, Position
    <2>4. MaxCycles \in Nat \ {0} /\ \A c \in Cycles : c \in Nat /\ c < MaxCycles
      BY CodingAssumption DEF Cycles
    <2>5. cycle \in Int /\ cycle' \in Int
      BY <2>1, <2>4
    <2>6. pc \in SubAgents \union {"verdict"} => cycle < MaxCycles
      BY <2>2, <2>4
    <2>7. pc' \in SubAgents \union {"verdict"} => cycle' < MaxCycles /\ cycle' >= 0
      BY <2>3, <2>4
    <2> QED
      BY <2>2, <2>3, <2>4, <2>5, <2>6, <2>7
  <1>2. /\ attempt' = attempt
        /\ \/ pc = "resume" /\ pc' \in SubAgents \union {"push"}
           \/ pc \in SubAgents \union {"verdict"} /\ pc' = "push"
           \/ pc = "programmer" /\ pc' = "tester" /\ cycle' = cycle
           \/ pc = "tester" /\ pc' = "verdict" /\ cycle' = cycle
           \/ pc = "verdict" /\ pc' = "debugger" /\ cycle' = cycle
           \/ pc = "debugger" /\ pc' = "programmer" /\ cycle' = cycle + 1
           \/ pc = "push" /\ pc' = "cleanup"
           \/ pc = "cleanup" /\ pc' \in {"return", "failed"}
           \/ pc = "return" /\ pc' = "done"
           \/ pc = "failed" /\ pc' \in {"idle", "gaveUp"}
    <2>1. CASE Resume
      BY <2>1 DEF Resume, ResumeStep, SubAgents
    <2>2. CASE Programmer \/ Debugger \/ Tester \/ SubAgentFails
      BY <2>2 DEF Programmer, Debugger, Codes, Tester, SubAgentFails, SubAgents
    <2>3. CASE Verdict
      BY <2>3 DEF Verdict
    <2>4. CASE Push \/ Cleanup \/ Return \/ Retry \/ GiveUp
      BY <2>4 DEF Push, Cleanup, Return, Retry, GiveUp
    <2> QED
      BY <2>1, <2>2, <2>3, <2>4 DEF Next
  <1> QED
    BY <1>1, <1>2 DEF Stage, SubAgents

\* Every step of a Coding node leaves fewer steps to take, so it ends after at
\* most MaxAttempts * (4 * MaxCycles + 5) of them, whatever fails: the resume
\* point and the two caps leave no way round.
THEOREM CodingRunsDown == Spec => [](StepsLeft \in Nat) /\ [][StepsLeft' < StepsLeft]_vars
  <1>1. CInv => StepsLeft \in Nat
    BY StepsLeftIsNat
  <1>2. CInv => Stage \in Int
    BY StepsLeftIsNat, CodingAssumption
  <1>3. CInv' => (Stage \in Int)'
    BY <1>2, PTL
  <1>4. CInv /\ CInv' /\ [Next]_vars => [StepsLeft' < StepsLeft]_vars
    <2> SUFFICES ASSUME CInv, CInv', Next, vars' # vars PROVE StepsLeft' < StepsLeft
      OBVIOUS
    <2>1. /\ MaxCycles \in Nat /\ MaxAttempts \in Nat /\ attempt \in Int
          /\ Stage \in 0 .. 4 * MaxCycles + 4
      BY StepsLeftIsNat, CodingAssumption DEF CInv, TypeOK
    <2>2. ~Ended
      BY DEF Ended
    <2>3. CASE StartAttempt \/ WorktreeFails
      <3>1. attempt' = attempt + 1 /\ pc = "idle" /\ pc' \in {"resume", "failed"}
        BY <2>3 DEF StartAttempt, WorktreeFails
      <3>2. Stage = 4 * MaxCycles + 4 /\ Stage' \in {0, 4 * MaxCycles + 3}
        BY <3>1 DEF Stage
      <3>3. (MaxAttempts - attempt') * StepsPerAttempt
               = (MaxAttempts - attempt) * StepsPerAttempt - StepsPerAttempt
        BY <2>1, <3>1 DEF StepsPerAttempt
      <3>4. (MaxAttempts - attempt) * StepsPerAttempt \in Int
        BY <2>1 DEF StepsPerAttempt
      <3> QED
        BY <2>1, <3>2, <3>3, <3>4 DEF StepsLeft, StepsPerAttempt
    <2>4. CASE ~(StartAttempt \/ WorktreeFails)
      <3>1. attempt' = attempt /\ Stage' > Stage
        BY <2>2, <2>4, StageGrows
      <3>2. Stage' \in Int /\ (MaxAttempts - attempt) * StepsPerAttempt \in Int
        BY <1>3, <2>1 DEF StepsPerAttempt
      <3> QED
        BY <2>1, <3>1, <3>2 DEF StepsLeft
    <2> QED
      BY <2>3, <2>4
  <1> QED
    BY CInvHolds, <1>1, <1>4, PTL DEF Spec
=============================================================================
