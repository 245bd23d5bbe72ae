--------------------------- MODULE DispatchProofs ---------------------------
(***************************************************************************)
(* Theorems about Dispatch, for every value of its constants: what a node  *)
(* is shown is durable, and what it and the whole run can really spend is  *)
(* bounded.                                                                *)
(***************************************************************************)
EXTENDS Dispatch, FiniteSetTheorems, WellFoundedInduction, TLAPS

Known == [by : Nat, pos : Nat, cat : Nat, size : Nat]

\* How many sessions of the node's type answer in a composite that ends.
Calls(k) == IF k = "plan" THEN 1 ELSE IF k = "review" THEN 2 ELSE MaxCalls

\* The parts of TypeOK.
PlaceOK ==
    /\ turn \in Nat \ {0}
    /\ kind \in {"plan", "coding", "review"}
    /\ rest \in [coding : 0 .. MaxComposites, review : 0 .. MaxComposites]
    /\ rest.coding <= rest.review
    /\ level \in 0 .. MaxLevel
SessionsOK == done \in 0 .. MaxCalls /\ over \in BOOLEAN /\ cost \in Nat
RetriesOK ==
    /\ tries \in 0 .. MaxTransientAttempts - 1
    /\ reruns \in 0 .. MaxReruns
    /\ failure \in {"none", "agent_error", "unknown", "deterministic", "resource_exhaustion"}
OutputOK == found \in Seq(Discovery) /\ at \in Nat \ {0}
MoneyOK == share \in Nat /\ funded \in BOOLEAN /\ {used, paid, spent} \subseteq Nat
PcOK == pc \in {"next", "build", "view", "invoke", "failed", "append", "commit",
                "ended", "raised"}

\* TypeOK, the records' type, and how the sessions that have answered relate to
\* the composite's being over.
TypeInv ==
    /\ TypeOK
    /\ memory \subseteq Known
    /\ unseen \subseteq memory
    /\ done <= Calls(kind)
    /\ ~over => done < Calls(kind)
    /\ pc = "failed" /\ kind # "coding" => done = 0
    /\ pc \in {"append", "commit"} => at <= Len(found) + 1
    /\ pc = "commit" => at <= Len(found)

Working == pc \in {"build", "view", "invoke", "failed"}

\* Between two discoveries of append_discoveries memory and table agree.
MemoryInv ==
    /\ rows \subseteq memory
    /\ pc # "commit" => rows = memory
    /\ pc = "commit" => memory = rows \union {Record(turn, at, found[at])}
    /\ \A r \in memory : r.by <= turn
    /\ Working => \A r \in memory : r.by < turn
    /\ pc \in {"view", "invoke"} => view \subseteq rows
    /\ pc \in {"view", "invoke"} /\ ~Capped => unseen = {} /\ view = memory

\* What _build_shared_view has come to is newer than what it has not, and fills
\* what each dropped record found no room in.
ViewInv ==
    /\ IsFiniteSet(memory)
    /\ pc = "invoke" => unseen = {}
    /\ pc \in {"view", "invoke"} /\ Capped =>
          /\ view \subseteq memory \ unseen
          /\ bytes = SizeOf(view) /\ bytes <= SharedContextCap
          /\ \A r \in memory \ unseen, s \in unseen : Newer(r, s)
          /\ \A r \in (memory \ unseen) \ view :
                SizeOf({s \in view : Newer(s, r)}) + r.size > SharedContextCap

\* What the node has charged beyond its cost was charged by attempts that failed.
UsedInv == IF Working THEN used + cost <= spent ELSE used <= spent

\* The attempts at the node that have failed, and the sessions they and the
\* present attempt have opened.
Failed == IF pc = "failed" THEN (reruns + 1) * MaxTransientAttempts
                           ELSE reruns * MaxTransientAttempts + tries
Opened == IF kind = "review" THEN 2 * Failed + done ELSE Failed + done

PaidInv ==
    /\ Working => paid <= Opened * Limit
    /\ NodeSpendIsBounded

\* What the frame has left to run may still spend.
Left == rest.coding + rest.review + (IF pc = "next" \/ kind # "plan" THEN 1 ELSE 0)
NodeBound == MaxSessions * (share + Over)
SpentInv ==
    IF pc = "next"
    THEN spent + Left * NodeBound <= (level + 1) * FrameBound
    ELSE spent - paid + (Left + 1) * NodeBound <= (level + 1) * FrameBound

-----------------------------------------------------------------------------
(* Arithmetic.                                                             *)

\* Sums of natural numbers are natural numbers.
LEMMA Sum == \A a, b \in Nat : a + b \in Nat
  BY SMT

\* Products of natural numbers grow with either factor and distribute.
LEMMA Product ==
    ASSUME NEW a \in Nat, NEW b \in Nat
    PROVE  a * b \in Nat
  BY SMT

LEMMA Grows ==
    ASSUME NEW a \in Nat, NEW b \in Nat, NEW c \in Nat, a <= b
    PROVE  a * c <= b * c /\ c * a <= c * b
  <1>1. PICK d \in Nat : b = a + d
    BY SMT
  <1>2. (a + d) * c = a * c + d * c
    BY SMT
  <1>3. c * (a + d) = c * a + c * d
    BY SMT
  <1>4. d * c \in Nat /\ c * d \in Nat /\ a * c \in Nat /\ c * a \in Nat
    BY Product
  <1> QED
    BY <1>1, <1>2, <1>3, <1>4, SMT

LEMMA Distributes ==
    ASSUME NEW a \in Nat, NEW b \in Nat, NEW c \in Nat
    PROVE  /\ (a + b) * c = a * c + b * c
           /\ c * (a + b) = c * a + c * b
  BY SMT

LEMMA Rearranged ==
    ASSUME NEW a \in Nat, NEW b \in Nat, NEW c \in Nat
    PROVE  a * (b * c) = b * (a * c)
  BY SMT

\* Shares of a budget do not exceed it.
LEMMA Shares ==
    ASSUME NEW r \in Nat, NEW k \in Nat \ {0}
    PROVE  /\ r \div k \in Nat
           /\ k * (r \div k) <= r
  BY SMT

\* What a session may charge.
LEMMA Limits ==
    ASSUME share \in Nat
    PROVE  /\ Backstop \in Nat
           /\ Limit \in Nat
           /\ Over \in Nat
           /\ Limit <= share + Over
  BY BudgetAssumption, SMT DEF Backstop, Limit, Over

LEMMA Bills ==
    ASSUME share \in Nat, NEW n \in Nat, NEW usd \in Bill(n)
    PROVE  usd \in Nat /\ usd <= n * Limit
  <1>1. n * Limit \in Nat
    BY Limits, Product
  <1> QED
    BY <1>1, BudgetAssumption, SMT DEF Bill

\* The sessions of a node.
LEMMA Counts ==
    /\ MaxCalls \in Nat /\ MaxCalls >= 2
    /\ Attempts \in Nat \ {0}
    /\ \A k \in {"plan", "coding", "review"} :
          /\ Calls(k) \in Nat \ {0}
          /\ Calls(k) <= MaxCalls
          /\ Sessions(k) \in Nat
          /\ Sessions(k) <= MaxSessions
    /\ MaxSessions \in Nat
  <1>1. MaxCalls \in Nat /\ MaxCalls >= 2
    BY DispatchAssumption, SMT DEF MaxCalls
  <1>2. Attempts \in Nat \ {0}
    <2>1. MaxTransientAttempts * (MaxReruns + 1) = MaxTransientAttempts * MaxReruns + MaxTransientAttempts
      BY DispatchAssumption, SMT
    <2>2. MaxTransientAttempts * MaxReruns \in Nat
      BY DispatchAssumption, Product
    <2> QED
      BY <2>1, <2>2, DispatchAssumption, SMT DEF Attempts
  <1> QED
    BY <1>1, <1>2, SMT DEF Calls, Sessions, MaxSessions

-----------------------------------------------------------------------------
(* Type correctness.                                                       *)

\* A failure leaves the counters in their ranges.
LEMMA FailsTyped ==
    ASSUME TypeInv, pc = "invoke", NEW c \in {Category[e] : e \in DOMAIN Category},
           Fails(c)
    PROVE  /\ pc' \in {"invoke", "failed"}
           /\ failure' \in {"none", "agent_error", "unknown", "deterministic", "resource_exhaustion"}
           /\ tries' \in 0 .. MaxTransientAttempts - 1
           /\ cost' = 0
           /\ over' \in BOOLEAN
           /\ IF kind = "coding" THEN done' = done /\ (over' <=> over) ELSE done' = 0 /\ ~over'
  <1>1. c \in {"agent_error", "unknown", "deterministic", "resource_exhaustion", "transient"}
    BY DEF Category
  <1>2. /\ over \in BOOLEAN /\ cost' = 0
        /\ IF c = "transient" /\ tries + 1 < MaxTransientAttempts
           THEN tries' = tries + 1 /\ UNCHANGED <<pc, failure>>
           ELSE /\ pc' = "failed"
                /\ failure' = IF c = "transient" THEN "agent_error" ELSE c
                /\ UNCHANGED tries
    BY DEF Fails, TypeInv, TypeOK
  <1>3. /\ over' \in BOOLEAN
        /\ IF kind = "coding" THEN done' = done /\ (over' <=> over) ELSE done' = 0 /\ ~over'
    BY <1>2 DEF Fails
  <1> QED
    BY <1>1, <1>2, <1>3, DispatchAssumption, SMT DEF TypeInv, TypeOK

\* The node types that matter here.
LEMMA CallsOf ==
    /\ Calls("plan") = 1 /\ Calls("review") = 2 /\ Calls("coding") = MaxCalls
    /\ MaxCalls \in Nat /\ MaxCalls >= 2
  BY Counts DEF Calls

LEMMA TypeInit == Init => TypeInv
  <1> SUFFICES ASSUME Init PROVE TypeInv
    OBVIOUS
  <1> USE DEF Init, BudgetInit, ContextInit, Nothing
  <1>1. found \in Seq(Discovery)
    BY SMT
  <1>2. rest \in [coding : 0 .. MaxComposites, review : 0 .. MaxComposites] /\ rest.coding <= rest.review
    BY DispatchAssumption, SMT
  <1>3. MaxCalls \in Nat /\ tries \in 0 .. MaxTransientAttempts - 1 /\ reruns \in 0 .. MaxReruns
    BY CallsOf, DispatchAssumption, SMT
  <1>5. over \in BOOLEAN
    OBVIOUS
  <1>4. TypeOK
    BY <1>1, <1>2, <1>3, <1>5, DispatchAssumption, BudgetAssumption, SMT DEF TypeOK
  <1>6. Calls(kind) \in Nat /\ done \in Nat /\ done < Calls(kind)
    BY CallsOf, SMT
  <1>7. memory \subseteq Known /\ unseen \subseteq memory
    OBVIOUS
  <1>8. pc = "build"
    OBVIOUS
  <1> HIDE DEF Init
  <1> QED
    BY <1>4, <1>6, <1>7, <1>8, SMT DEF TypeInv

LEMMA TypeStep == TypeInv /\ [Next]_vars => TypeInv'
  <1> SUFFICES ASSUME TypeInv, [Next]_vars PROVE TypeInv'
    OBVIOUS
  <1> USE DEF TypeInv, TypeOK, place, sessions, retries, output, money, charged, context
  <1>0. cost \in Nat /\ used \in Nat /\ paid \in Nat /\ spent \in Nat /\ share \in Nat
    OBVIOUS
  <1>1. CASE NextNode
    <2>1. /\ rest' \in [coding : 0 .. MaxComposites, review : 0 .. MaxComposites]
          /\ rest'.coding <= rest'.review
          /\ kind' \in {"plan", "coding", "review"}
      <3>1. rest.coding \in 0 .. MaxComposites /\ rest.review \in 0 .. MaxComposites
        OBVIOUS
      <3>2. CASE rest.coding > 0 /\ kind' = "coding" /\ rest' = [rest EXCEPT !.coding = @ - 1]
        <4>1. rest' = [coding |-> rest.coding - 1, review |-> rest.review]
          BY <3>2
        <4>2. rest.coding > 0 /\ kind' = "coding"
          BY <3>2
        <4> QED
          BY <3>1, <4>1, <4>2, DispatchAssumption, SMT
      <3>3. CASE rest.review > rest.coding /\ kind' = "review" /\ rest' = [rest EXCEPT !.review = @ - 1]
        <4>1. rest' = [coding |-> rest.coding, review |-> rest.review - 1]
          BY <3>3
        <4>2. rest.review > rest.coding /\ kind' = "review"
          BY <3>3
        <4> QED
          BY <3>1, <4>1, <4>2, DispatchAssumption, SMT
      <3>4. CASE rest = Nothing /\ kind' = "plan" /\ UNCHANGED rest
        BY <3>4
      <3> QED
        BY <1>1, <3>2, <3>3, <3>4 DEF NextNode
    <2>2. Calls(kind)' \in Nat \ {0}
      BY <2>1, CallsOf, SMT DEF Calls
    <2>3. tries' \in 0 .. MaxTransientAttempts - 1 /\ reruns' \in 0 .. MaxReruns /\ done' \in 0 .. MaxCalls
      <3>1. tries' = 0 /\ reruns' = 0 /\ done' = 0
        BY <1>1 DEF NextNode
      <3> QED
        BY <3>1, DispatchAssumption, CallsOf, SMT
    <2>4. over' \in BOOLEAN
      BY <1>1 DEF NextNode
    <2>5. TypeOK'
      <3>1. (PcOK /\ SessionsOK)'
        BY <1>1, <2>3, <2>4 DEF NextNode, PcOK, SessionsOK
      <3>2. (RetriesOK /\ OutputOK /\ MoneyOK /\ bytes \in Nat)'
        BY <1>1, <2>3 DEF NextNode, RetriesOK, OutputOK, MoneyOK
      <3>3. PlaceOK'
        <4>0. turn' = turn + 1 /\ level' = level
          BY <1>1 DEF NextNode
        <4>1. turn' \in Nat \ {0} /\ level' \in 0 .. MaxLevel
          BY <4>0, SMT
        <4> QED
          BY <2>1, <4>1 DEF PlaceOK
      <3> QED
        BY <3>1, <3>2, <3>3 DEF TypeOK, PcOK, PlaceOK, SessionsOK, RetriesOK, OutputOK, MoneyOK
    <2>6. pc' = "build" /\ done' = 0 /\ UNCHANGED context
      BY <1>1 DEF NextNode
    <2>7. (done <= Calls(kind) /\ done < Calls(kind))'
      BY <2>2, <2>6, SMT
    <2>8. (memory \subseteq Known /\ unseen \subseteq memory)'
      BY <2>6
    <2>9. (pc \notin {"failed", "append", "commit"})'
      BY <2>6
    <2> HIDE DEF TypeOK
    <2> QED
      BY <2>5, <2>7, <2>8, <2>9
  <1>2. CASE BuildContext
    BY <1>2, SMT DEF BuildContext, StartView
  <1>3. CASE TakeRecord
    <2>1. PICK r \in unseen :
             /\ unseen' = unseen \ {r}
             /\ bytes' \in {bytes, bytes + r.size}
      BY <1>3, SMT DEF TakeRecord, TakeNext
    <2>2. r.size \in Nat
      BY SMT DEF Known
    <2>3. bytes' \in Nat
      BY <2>1, <2>2, Sum
    <2> QED
      BY <1>3, <2>1, <2>3, SMT DEF TakeRecord, TakeNext
  <1>4. CASE ContextReady
    BY <1>4, SMT DEF ContextReady
  <1>5. CASE SessionAnswers
    <2>1. PICK usd \in Bill(1) : Charge(usd) /\ cost' = cost + usd
      BY <1>5 DEF SessionAnswers
    <2>2. usd \in Nat
      BY Bills, SMT
    <2>3. pc' = pc /\ UNCHANGED <<place, retries, output, context>> /\ over' \in Last(done')
      BY <1>5 DEF SessionAnswers
    <2>4. /\ Calls(kind) \in Nat /\ Calls(kind) <= MaxCalls
          /\ done' = done + 1 /\ done < Calls(kind) /\ pc = "invoke"
          /\ MaxCalls \in Nat
      BY <1>5, Counts DEF SessionAnswers
    <2>5. over' \in BOOLEAN /\ (done' >= Calls(kind) => over')
      <3>1. CASE kind = "plan"
        BY <2>3, <3>1 DEF Last
      <3>2. CASE kind = "review"
        <4>1. done' >= 2 => done' = 2
          BY <2>4, <3>2, CallsOf, SMT
        <4> QED
          BY <2>3, <3>2, <4>1, CallsOf DEF Last
      <3>3. CASE kind = "coding"
        <4>1. done' >= MaxCalls => done' = MaxCalls
          BY <2>4, <3>3, CallsOf, SMT
        <4>2. over' \in IF done' = MaxCalls THEN {TRUE}
                        ELSE IF done' % 3 = 2 THEN BOOLEAN ELSE {FALSE}
          BY <2>3, <3>3 DEF Last
        <4> QED
          BY <3>3, <4>1, <4>2, CallsOf
      <3> QED
        BY <3>1, <3>2, <3>3
    <2>6. TypeOK'
      <3>1. (PcOK /\ PlaceOK /\ RetriesOK /\ OutputOK /\ bytes \in Nat)'
        BY <2>3 DEF PcOK, PlaceOK, RetriesOK, OutputOK
      <3>2. done' \in 0 .. MaxCalls
        BY <2>4, SMT
      <3>3. {cost', used', paid', spent'} \subseteq Nat /\ share' \in Nat
        <4>1. /\ paid' = paid + usd /\ spent' = spent + usd /\ cost' = cost + usd
              /\ used' = used /\ share' = share
          BY <2>1 DEF Charge
        <4> QED
          BY <4>1, <2>2, <1>0, Sum
      <3>4. funded' \in BOOLEAN
        BY <2>1 DEF Charge
      <3> QED
        BY <2>5, <3>1, <3>2, <3>3, <3>4
        DEF TypeOK, PcOK, PlaceOK, SessionsOK, RetriesOK, OutputOK, MoneyOK
    <2>7. (done <= Calls(kind) /\ (~over => done < Calls(kind)))'
      <3>1. Calls(kind)' = Calls(kind)
        BY <2>3
      <3>2. done' <= Calls(kind) /\ (~(done' >= Calls(kind)) => done' < Calls(kind))
        BY <2>4, SMT
      <3> QED
        BY <2>5, <3>1, <3>2
    <2> HIDE DEF TypeOK
    <2> QED
      BY <2>3, <2>4, <2>6, <2>7
  <1>6. CASE SessionFails
    <2>1. PICK e \in DOMAIN Category, usd \in Bill(Abandoned) : Charge(usd) /\ Fails(Category[e])
      BY <1>6 DEF SessionFails
    <2>2. Abandoned \in Nat
      BY <1>6, CallsOf, SMT DEF SessionFails, Abandoned
    <2>3. usd \in Nat
      BY <2>2, Bills
    <2>4. pc = "invoke" /\ ~over /\ UNCHANGED <<place, reruns, output, context>>
      BY <1>6 DEF SessionFails
    <2>5. /\ pc' \in {"invoke", "failed"}
          /\ failure' \in {"none", "agent_error", "unknown", "deterministic", "resource_exhaustion"}
          /\ tries' \in 0 .. MaxTransientAttempts - 1
          /\ cost' = 0
          /\ over' \in BOOLEAN
          /\ IF kind = "coding" THEN done' = done /\ (over' <=> over) ELSE done' = 0 /\ ~over'
      BY <2>1, <2>4, FailsTyped
    <2>6. Calls(kind) \in Nat \ {0} /\ kind' = kind
      BY <2>4, Counts
    <2>7. MaxCalls \in Nat
      BY CallsOf
    <2>8. TypeOK'
      <3>1. (PcOK /\ PlaceOK /\ RetriesOK /\ OutputOK /\ bytes \in Nat)'
        BY <2>4, <2>5 DEF PcOK, PlaceOK, RetriesOK, OutputOK
      <3>2. cost' \in Nat /\ done' \in 0 .. MaxCalls
        BY <2>5, <2>7, SMT
      <3>3. {used', paid', spent'} \subseteq Nat /\ share' \in Nat
        <4>1. paid' = paid + usd /\ spent' = spent + usd /\ used' = used /\ share' = share
          BY <2>1 DEF Charge
        <4> QED
          BY <4>1, <2>3, <1>0, Sum
      <3>4. funded' \in BOOLEAN
        BY <2>1 DEF Charge
      <3> QED
        BY <2>5, <3>1, <3>2, <3>3, <3>4
        DEF TypeOK, PcOK, PlaceOK, SessionsOK, RetriesOK, OutputOK, MoneyOK
    <2>9. (done <= Calls(kind) /\ (~over => done < Calls(kind)))'
      <3>1. Calls(kind)' = Calls(kind) /\ 0 < Calls(kind) /\ 0 <= Calls(kind)
        BY <2>6, SMT
      <3> QED
        BY <2>5, <3>1
    <2> HIDE DEF TypeOK
    <2> QED
      BY <2>4, <2>5, <2>8, <2>9
  <1>7. CASE WorktreeFails
    <2>1. pc = "invoke" /\ UNCHANGED <<place, reruns, output, money, context>> /\ Fails("unknown")
      BY <1>7 DEF WorktreeFails
    <2>2. "unknown" \in {Category[e] : e \in DOMAIN Category}
      <3>1. "CLIJSONDecodeError" \in DOMAIN Category /\ Category["CLIJSONDecodeError"] = "unknown"
        BY SMT DEF Category
      <3> QED
        BY <3>1
    <2>3. /\ pc' \in {"invoke", "failed"}
          /\ failure' \in {"none", "agent_error", "unknown", "deterministic", "resource_exhaustion"}
          /\ tries' \in 0 .. MaxTransientAttempts - 1
          /\ cost' = 0
          /\ over' \in BOOLEAN
          /\ IF kind = "coding" THEN done' = done /\ (over' <=> over) ELSE done' = 0 /\ ~over'
      BY <2>1, <2>2, FailsTyped
    <2>4. Calls(kind) \in Nat \ {0} /\ kind' = kind
      BY <2>1, Counts
    <2>5. MaxCalls \in Nat
      BY CallsOf
    <2>6. TypeOK'
      <3>1. (PcOK /\ PlaceOK /\ RetriesOK /\ OutputOK /\ MoneyOK /\ bytes \in Nat)'
        BY <2>1, <2>3 DEF PcOK, PlaceOK, RetriesOK, OutputOK, MoneyOK
      <3>2. cost' \in Nat /\ done' \in 0 .. MaxCalls
        BY <2>3, <2>5, SMT
      <3> QED
        BY <2>3, <3>1, <3>2
        DEF TypeOK, PcOK, PlaceOK, SessionsOK, RetriesOK, OutputOK, MoneyOK
    <2>7. (done <= Calls(kind) /\ (~over => done < Calls(kind)))'
      <3>1. Calls(kind)' = Calls(kind) /\ 0 < Calls(kind) /\ 0 <= Calls(kind)
        BY <2>4, SMT
      <3> QED
        BY <2>3, <3>1
    <2> HIDE DEF TypeOK
    <2> QED
      BY <2>1, <2>3, <2>6, <2>7
  <1>8. CASE Rerun
    BY <1>8, DispatchAssumption, SMT DEF Rerun
  <1>9. CASE Escalate
    BY <1>9, SMT DEF Escalate
  <1>10. CASE Succeed
    <2>1. /\ pc' = "append" /\ found' \in Outputs /\ at' = 1 /\ used' = used + cost
          /\ UNCHANGED <<place, sessions, retries, context, share, funded, charged>>
      BY <1>10 DEF Succeed, RecordUsage
    <2>2. used' \in Nat
      BY <2>1, <1>0, Sum
    <2>3. OutputOK' /\ at' <= Len(found') + 1
      BY <2>1, ContextAssumption, SMT DEF OutputOK
    <2>4. (PcOK /\ PlaceOK /\ SessionsOK /\ RetriesOK /\ MoneyOK /\ bytes \in Nat)'
      BY <2>1, <2>2 DEF PcOK, PlaceOK, SessionsOK, RetriesOK, MoneyOK
    <2>5. TypeOK'
      BY <2>3, <2>4 DEF TypeOK, PcOK, PlaceOK, SessionsOK, RetriesOK, OutputOK, MoneyOK
    <2> HIDE DEF TypeOK
    <2> QED
      BY <2>1, <2>3, <2>5
  <1>11. CASE RecordUsageRaises
    BY <1>11, SMT DEF RecordUsageRaises
  <1>12. CASE AppendDiscovery
    <2>1. Record(turn, at, found[at]) \in Known
      <3>1. at \in 1 .. Len(found)
        BY <1>12, SMT DEF AppendDiscovery
      <3>2. found[at] \in Discovery
        BY <3>1, SMT
      <3>3. found[at].cat \in Nat /\ found[at].size \in Nat
        <4>1. found[at].cat \in 1 .. Categories /\ found[at].size \in Sizes
          BY <3>2 DEF Discovery
        <4>2. Categories \in Nat /\ Sizes \subseteq Nat
          BY ContextAssumption
        <4>3. found[at].size \in Nat
          BY <4>1, <4>2
        <4>4. ASSUME NEW i \in 1 .. Categories PROVE i \in Nat
          BY <4>2, SMT
        <4> QED
          BY <4>1, <4>3, <4>4
      <3> QED
        BY <3>1, <3>3, SMT DEF Record, Known
    <2> QED
      BY <1>12, <2>1, SMT DEF AppendDiscovery, Remember
  <1>13. CASE CommitDiscovery
    BY <1>13, SMT DEF CommitDiscovery, Commit
  <1>14. ASSUME NEW n \in 1 .. MaxComposites, Spawn(n) PROVE TypeInv'
    <2>1. /\ pc' = "next" /\ level < MaxLevel /\ level' = level + 1
          /\ rest' = [coding |-> n, review |-> n]
          /\ share' = IF Remaining > 0 THEN Remaining \div (2 * n + 1) ELSE 0
          /\ funded' = (Remaining > 0)
          /\ UNCHANGED <<turn, kind, sessions, retries, output, context, used, charged>>
      BY <1>14 DEF Spawn, AllocateChild
    <2>2. share' \in Nat
      <3>1. CASE Remaining > 0
        <4>1. Remaining \in Nat /\ 2 * n + 1 \in Nat \ {0}
          BY <3>1, DispatchAssumption, BudgetAssumption, SMT DEF Remaining
        <4> QED
          BY <2>1, <3>1, <4>1, Shares
      <3>2. CASE ~(Remaining > 0)
        BY <2>1, <3>2
      <3> QED
        BY <3>1, <3>2
    <2>3. PlaceOK'
      BY <2>1, DispatchAssumption, SMT DEF PlaceOK
    <2>4. (PcOK /\ SessionsOK /\ RetriesOK /\ OutputOK /\ bytes \in Nat)'
      BY <2>1 DEF PcOK, SessionsOK, RetriesOK, OutputOK
    <2>5. MoneyOK'
      BY <2>1, <2>2 DEF MoneyOK
    <2>6. TypeOK'
      BY <2>3, <2>4, <2>5 DEF TypeOK, PcOK, PlaceOK, SessionsOK, RetriesOK, OutputOK, MoneyOK
    <2> HIDE DEF TypeOK
    <2> QED
      BY <2>1, <2>6
  <1>15. ASSUME NEW n \in 1 .. MaxComposites, SpawnRaises(n) PROVE TypeInv'
    BY <1>15, DispatchAssumption, SMT DEF SpawnRaises, Appended
  <1>16. CASE AfterNode
    BY <1>16, SMT DEF AfterNode, Appended
  <1>17. CASE Ended
    BY <1>17, SMT DEF Ended, vars
  <1>18. CASE UNCHANGED vars
    BY <1>18, SMT DEF vars
  <1> QED
    BY <1>1, <1>2, <1>3, <1>4, <1>5, <1>6, <1>7, <1>8, <1>9, <1>10, <1>11, <1>12, <1>13, <1>14, <1>15, <1>16, <1>17, <1>18 DEF Next

\* Every variable keeps its type (executor.py, base.py, budget.py and shared.py).
THEOREM TypeCorrect == Spec => []TypeOK
  <1>1. TypeInv => TypeOK
    BY DEF TypeInv
  <1> QED
    BY <1>1, TypeInit, TypeStep, PTL DEF Spec

-----------------------------------------------------------------------------
(* What a node is shown is durable.                                        *)

LEMMA MemoryInit == Init => MemoryInv
  BY DEF Init, ContextInit, MemoryInv, Working

LEMMA MemoryStep == TypeInv /\ MemoryInv /\ [Next]_vars => MemoryInv'
  <1> SUFFICES ASSUME TypeInv, MemoryInv, [Next]_vars PROVE MemoryInv'
    OBVIOUS
  <1>0. memory \subseteq Known /\ unseen \subseteq memory /\ turn \in Nat
    BY SMT DEF TypeInv, TypeOK
  <1> USE DEF MemoryInv, Working, place, sessions, retries, output, money, context
  <1>1. CASE NextNode
    <2>1. pc' = "build" /\ turn' = turn + 1 /\ UNCHANGED context /\ rows = memory
      BY <1>1 DEF NextNode
    <2>2. \A r \in memory : r.by < turn + 1 /\ r.by <= turn + 1
      BY <1>0, SMT DEF Known
    <2> QED
      BY <2>1, <2>2
  <1>2. CASE BuildContext
    BY <1>2 DEF BuildContext, StartView
  <1>3. CASE TakeRecord
    <2>1. PICK r \in unseen : view' \in {view, view \union {r}} /\ unseen' = unseen \ {r}
      BY <1>3 DEF TakeRecord, TakeNext
    <2>2. /\ pc = "view" /\ UNCHANGED <<pc, place, found, at, memory, rows>>
          /\ unseen \subseteq memory
      BY <1>3, <1>0 DEF TakeRecord, TakeNext
    <2> QED
      BY <2>1, <2>2
  <1>4. CASE ContextReady
    BY <1>4 DEF ContextReady
  <1>5. CASE SessionAnswers
    BY <1>5 DEF SessionAnswers
  <1>6. CASE SessionFails
    <2>1. pc = "invoke" /\ pc' \in {"invoke", "failed"} /\ UNCHANGED <<place, output, context>>
      BY <1>6 DEF SessionFails, Fails
    <2> QED
      BY <2>1
  <1>7. CASE WorktreeFails
    <2>1. pc = "invoke" /\ pc' \in {"invoke", "failed"} /\ UNCHANGED <<place, output, context>>
      BY <1>7 DEF WorktreeFails, Fails
    <2> QED
      BY <2>1
  <1>8. CASE Rerun
    BY <1>8 DEF Rerun
  <1>9. CASE Escalate
    BY <1>9 DEF Escalate
  <1>10. CASE Succeed
    BY <1>10 DEF Succeed
  <1>11. CASE RecordUsageRaises
    BY <1>11 DEF RecordUsageRaises
  <1>12. CASE AppendDiscovery
    <2>1. /\ memory' = memory \union {Record(turn, at, found[at])}
          /\ pc = "append" /\ pc' = "commit" /\ UNCHANGED <<place, output, rows, unseen, view>>
      BY <1>12 DEF AppendDiscovery, Remember
    <2>2. Record(turn, at, found[at]).by <= turn
      BY <1>0, SMT DEF Record
    <2> QED
      BY <2>1, <2>2 DEF Record
  <1>13. CASE CommitDiscovery
    <2>1. /\ rows' = rows \union {Record(turn, at, found[at])}
          /\ pc = "commit" /\ pc' = "append" /\ UNCHANGED <<place, memory, unseen, view>>
      BY <1>13 DEF CommitDiscovery, Commit
    <2> QED
      BY <2>1
  <1>14. ASSUME NEW n \in 1 .. MaxComposites, Spawn(n) PROVE MemoryInv'
    BY <1>14 DEF Spawn, Appended
  <1>15. ASSUME NEW n \in 1 .. MaxComposites, SpawnRaises(n) PROVE MemoryInv'
    BY <1>15 DEF SpawnRaises, Appended
  <1>16. CASE AfterNode
    BY <1>16 DEF AfterNode, Appended
  <1>17. CASE Ended
    BY <1>17 DEF Ended, vars
  <1>18. CASE UNCHANGED vars
    BY <1>18 DEF vars
  <1> QED
    BY <1>1, <1>2, <1>3, <1>4, <1>5, <1>6, <1>7, <1>8, <1>9, <1>10, <1>11, <1>12, <1>13, <1>14, <1>15, <1>16, <1>17, <1>18 DEF Next

\* The discoveries an agent is shown were found by nodes that are done, are in the
\* database and stay the same while the node is retried, and the table is never
\* more than one record behind the memory (context/shared.py, append_discoveries;
\* executor.py, build_context once per invocation).
THEOREM DiscoveriesDurable == Spec => []DiscoveriesAreDurable
  <1>1. TypeInv /\ MemoryInv => DiscoveriesAreDurable
    <2> SUFFICES ASSUME TypeInv, MemoryInv PROVE DiscoveriesAreDurable
      OBVIOUS
    <2>1. rows \subseteq memory /\ unseen \subseteq memory
      BY DEF TypeInv, MemoryInv
    <2>2. pc \in {"build", "view", "invoke", "failed"} => rows = memory /\ \A r \in memory : r.by < turn
      BY DEF MemoryInv, Working
    <2>3. pc \in {"view", "invoke"} => view \union unseen \subseteq rows
      BY <2>1 DEF MemoryInv
    <2>4. pc = "invoke" /\ ~Capped => view = memory
      BY DEF MemoryInv
    <2>5. \A r, s \in memory \ rows : r = s
      BY DEF MemoryInv
    <2> QED
      BY <2>1, <2>2, <2>3, <2>4, <2>5 DEF DiscoveriesAreDurable
  <1> QED
    BY <1>1, TypeInit, TypeStep, MemoryInit, MemoryStep, PTL DEF Spec

-----------------------------------------------------------------------------
(* Sums over finite sets of records.                                       *)

\* Of some subsets of a finite set one has no other below it.
LEMMA Smallest ==
    ASSUME NEW S, IsFiniteSet(S), NEW C \in SUBSET (SUBSET S), C # {}
    PROVE  \E T \in C : \A U \in C : U \subseteq T => U = T
  <1>1. IsWellFoundedOn(StrictSubsetOrdering(S), SUBSET S)
    BY FS_StrictSubsetOrderingWellFounded, FS_FiniteSubsetsOfFinite
  <1>2. PICK T \in C : \A U \in C : <<U, T>> \notin StrictSubsetOrdering(S)
    BY <1>1, WFMin, Zenon
  <1>3. ASSUME NEW U \in C, U \subseteq T, U # T PROVE FALSE
    <2>1. <<U, T>> \in StrictSubsetOrdering(S)
      BY <1>3 DEF StrictSubsetOrdering
    <2> QED
      BY <1>2, <2>1
  <1> QED
    BY <1>3

Chosen(s) == CHOOSE x \in s : TRUE

\* The equation that the sums of the subsets of S solve.
Sums(S, f) ==
    f = [s \in SUBSET S |-> IF s = {} THEN 0 ELSE Chosen(s).size + f[s \ {Chosen(s)}]]

LEMMA SizeOfSums == \A S : SizeOf(S) = (CHOOSE f : Sums(S, f))[S]
  BY DEF SizeOf, MapThenSumSet, MapThenFoldSet, Sums, Chosen

LEMMA SumAt ==
    ASSUME NEW S, NEW f, Sums(S, f), NEW s \in SUBSET S
    PROVE  /\ s = {} => f[s] = 0
           /\ s # {} => f[s] = Chosen(s).size + f[s \ {Chosen(s)}]
  BY DEF Sums

LEMMA ChosenFrom == \A s : s # {} => Chosen(s) \in s
  BY DEF Chosen

\* Solutions for a set and for a larger one agree.
LEMMA SumsAgree ==
    ASSUME NEW B, IsFiniteSet(B), NEW A \in SUBSET B,
           NEW f, Sums(A, f), NEW g, Sums(B, g)
    PROVE  \A s \in SUBSET A : f[s] = g[s]
  <1> SUFFICES ASSUME \E s \in SUBSET A : f[s] # g[s] PROVE FALSE
    OBVIOUS
  <1> DEFINE C == {s \in SUBSET A : f[s] # g[s]}
  <1>1. IsFiniteSet(A) /\ C \in SUBSET (SUBSET A) /\ C # {}
    BY FS_Subset
  <1>2. PICK s \in C : \A u \in C : u \subseteq s => u = s
    <2> HIDE DEF C
    <2> QED
      BY <1>1, Smallest
  <1>3. s \in SUBSET A /\ s \in SUBSET B /\ f[s] # g[s]
    OBVIOUS
  <1> HIDE DEF C
  <1>4. /\ s = {} => f[s] = 0 /\ g[s] = 0
        /\ s # {} => /\ f[s] = Chosen(s).size + f[s \ {Chosen(s)}]
                     /\ g[s] = Chosen(s).size + g[s \ {Chosen(s)}]
    <2>1. /\ s = {} => f[s] = 0
          /\ s # {} => f[s] = Chosen(s).size + f[s \ {Chosen(s)}]
      BY <1>3, SumAt
    <2>2. /\ s = {} => g[s] = 0
          /\ s # {} => g[s] = Chosen(s).size + g[s \ {Chosen(s)}]
      BY <1>3, SumAt
    <2> QED
      BY <2>1, <2>2
  <1>5. s # {}
    BY <1>3, <1>4
  <1> DEFINE u == s \ {Chosen(s)}
  <1>6. u \in SUBSET A /\ u \subseteq s /\ u # s
    BY <1>3, <1>5, ChosenFrom
  <1>7. f[u] = g[u]
    BY <1>2, <1>6 DEF C
  <1> QED
    BY <1>3, <1>4, <1>5, <1>7

\* There is a solution for every finite set.
LEMMA SumExists ==
    ASSUME NEW S, IsFiniteSet(S)
    PROVE  \E f : Sums(S, f)
  <1> SUFFICES ASSUME ~ \E f : Sums(S, f) PROVE FALSE
    OBVIOUS
  <1> DEFINE C == {T \in SUBSET S : ~ \E f : Sums(T, f)}
             Solution(T) == CHOOSE f : Sums(T, f)
  <1>1. C \in SUBSET (SUBSET S) /\ C # {}
    OBVIOUS
  <1>2. PICK T \in C : \A U \in C : U \subseteq T => U = T
    <2> HIDE DEF C
    <2> QED
      BY <1>1, Smallest
  <1>3. T \in SUBSET S /\ IsFiniteSet(T) /\ ~ \E f : Sums(T, f)
    BY FS_Subset
  <1>4. \A U \in SUBSET T : U # T => Sums(U, Solution(U))
    <2> SUFFICES ASSUME NEW U \in SUBSET T, U # T
                 PROVE  Sums(U, Solution(U))
      OBVIOUS
    <2>1. \E f : Sums(U, f)
      BY <1>2, <1>3
    <2> QED
      BY <2>1
  <1> HIDE DEF C, Solution
  <1> DEFINE h == [s \in SUBSET T |->
                     IF s = {} THEN 0
                     ELSE Chosen(s).size + Solution(s \ {Chosen(s)})[s \ {Chosen(s)}]]
  <1>5. ASSUME NEW u \in SUBSET T, u # T PROVE h[u] = Solution(u)[u]
    <2>1. /\ u = {} => Solution(u)[u] = 0
          /\ u # {} => Solution(u)[u] = Chosen(u).size + Solution(u)[u \ {Chosen(u)}]
      BY <1>4, <1>5, SumAt
    <2>2. CASE u = {}
      BY <2>1, <2>2
    <2>3. CASE u # {}
      <3> DEFINE v == u \ {Chosen(u)}
      <3>1. v \in SUBSET u /\ v \in SUBSET T /\ v # T /\ IsFiniteSet(u)
        BY <1>3, <1>5, <2>3, ChosenFrom, FS_Subset
      <3>2. Sums(v, Solution(v)) /\ Sums(u, Solution(u))
        BY <1>4, <1>5, <3>1
      <3>3. Solution(v)[v] = Solution(u)[v]
        <4> HIDE DEF v
        <4> DEFINE fv == Solution(v)
                   fu == Solution(u)
        <4>1. Sums(v, fv) /\ Sums(u, fu) /\ v \in SUBSET u /\ IsFiniteSet(u)
          BY <3>1, <3>2
        <4> HIDE DEF fv, fu
        <4>2. \A s \in SUBSET v : fv[s] = fu[s]
          BY <4>1, SumsAgree
        <4> QED
          BY <4>2 DEF fv, fu
      <3>4. h[u] = Chosen(u).size + Solution(v)[v]
        BY <2>3
      <3> QED
        BY <2>1, <2>3, <3>3, <3>4
    <2> QED
      BY <2>2, <2>3
  <1>6. \A s \in SUBSET T : h[s] = IF s = {} THEN 0 ELSE Chosen(s).size + h[s \ {Chosen(s)}]
    <2> SUFFICES ASSUME NEW s \in SUBSET T, s # {}
                 PROVE  h[s] = Chosen(s).size + h[s \ {Chosen(s)}]
      OBVIOUS
    <2>1. s \ {Chosen(s)} \in SUBSET T /\ s \ {Chosen(s)} # T
      BY ChosenFrom
    <2>2. h[s \ {Chosen(s)}] = Solution(s \ {Chosen(s)})[s \ {Chosen(s)}]
      BY <1>5, <2>1
    <2>3. h[s] = Chosen(s).size + Solution(s \ {Chosen(s)})[s \ {Chosen(s)}]
      OBVIOUS
    <2> QED
      BY <2>2, <2>3
  <1>7. h = [s \in SUBSET T |-> h[s]]
    OBVIOUS
  <1>8. Sums(T, h)
    <2> HIDE DEF h
    <2> QED
      BY <1>6, <1>7 DEF Sums
  <1> QED
    BY <1>3, <1>8

\* The empty set has size 0, and any other that of the chosen record more than the
\* rest.
LEMMA SizeUnfolds ==
    /\ SizeOf({}) = 0
    /\ \A S : IsFiniteSet(S) /\ S # {} =>
          SizeOf(S) = Chosen(S).size + SizeOf(S \ {Chosen(S)})
  <1> DEFINE Solution(T) == CHOOSE f : Sums(T, f)
  <1>1. \A S : IsFiniteSet(S) => Sums(S, Solution(S))
    BY SumExists
  <1>2. \A S : SizeOf(S) = Solution(S)[S]
    BY SizeOfSums
  <1> HIDE DEF Solution
  <1>3. SizeOf({}) = 0
    BY <1>1, <1>2, SumAt, FS_EmptySet
  <1>4. ASSUME NEW S, IsFiniteSet(S), S # {}
        PROVE  SizeOf(S) = Chosen(S).size + SizeOf(S \ {Chosen(S)})
    <2> DEFINE u == S \ {Chosen(S)}
    <2>1. IsFiniteSet(u) /\ u \in SUBSET S
      BY <1>4, FS_Subset
    <2>2. Solution(u)[u] = Solution(S)[u]
      <3> HIDE DEF u
      <3> QED
        BY <1>1, <1>4, <2>1, SumsAgree
    <2>3. Solution(S)[S] = Chosen(S).size + Solution(S)[u]
      BY <1>1, <1>4, SumAt
    <2> QED
      BY <1>2, <2>2, <2>3
  <1> QED
    BY <1>3, <1>4

\* Sizes are natural numbers.
LEMMA SizeIsNat ==
    ASSUME NEW S, IsFiniteSet(S), \A r \in S : r.size \in Nat
    PROVE  SizeOf(S) \in Nat
  <1> SUFFICES ASSUME SizeOf(S) \notin Nat PROVE FALSE
    OBVIOUS
  <1> DEFINE C == {T \in SUBSET S : SizeOf(T) \notin Nat}
  <1>1. C \in SUBSET (SUBSET S) /\ C # {}
    OBVIOUS
  <1>2. PICK T \in C : \A U \in C : U \subseteq T => U = T
    <2> HIDE DEF C
    <2> QED
      BY <1>1, Smallest
  <1>3. T \in SUBSET S /\ SizeOf(T) \notin Nat /\ IsFiniteSet(T)
    BY FS_Subset
  <1>4. T # {}
    <2>1. SizeOf({}) \in Nat
      BY SizeUnfolds
    <2> QED
      BY <1>3, <2>1
  <1> DEFINE U == T \ {Chosen(T)}
  <1>5. Chosen(T) \in S /\ U \in SUBSET S /\ U \subseteq T /\ U # T
    BY <1>3, <1>4, ChosenFrom
  <1>6. SizeOf(U) \in Nat /\ Chosen(T).size \in Nat
    BY <1>2, <1>5
  <1> QED
    BY <1>3, <1>4, <1>6, SizeUnfolds

\* One record more, whichever: the order in which a set is summed does not matter.
LEMMA SizeAdds ==
    ASSUME NEW S, IsFiniteSet(S), NEW r \in S, \A x \in S : x.size \in Nat
    PROVE  SizeOf(S) = r.size + SizeOf(S \ {r})
  <1> SUFFICES ASSUME SizeOf(S) # r.size + SizeOf(S \ {r}) PROVE FALSE
    OBVIOUS
  <1> DEFINE C == {T \in SUBSET S : \E x \in T : SizeOf(T) # x.size + SizeOf(T \ {x})}
  <1>1. C \in SUBSET (SUBSET S) /\ C # {}
    OBVIOUS
  <1>2. PICK T \in C : \A U \in C : U \subseteq T => U = T
    <2> HIDE DEF C
    <2> QED
      BY <1>1, Smallest
  <1>3. T \in SUBSET S /\ IsFiniteSet(T)
    BY FS_Subset
  <1>4. PICK x \in T : SizeOf(T) # x.size + SizeOf(T \ {x})
    OBVIOUS
  <1> DEFINE c == Chosen(T)
  <1>5. c \in T /\ SizeOf(T) = c.size + SizeOf(T \ {c})
    BY <1>3, <1>4, ChosenFrom, SizeUnfolds
  <1> HIDE DEF c
  <1>6. c # x
    BY <1>4, <1>5
  <1>7. /\ T \ {c} \in SUBSET S /\ T \ {c} \subseteq T /\ T \ {c} # T /\ x \in T \ {c}
        /\ T \ {x} \in SUBSET S /\ T \ {x} \subseteq T /\ T \ {x} # T /\ c \in T \ {x}
    BY <1>3, <1>4, <1>5, <1>6
  <1>8. /\ SizeOf(T \ {c}) = x.size + SizeOf((T \ {c}) \ {x})
        /\ SizeOf(T \ {x}) = c.size + SizeOf((T \ {x}) \ {c})
    BY <1>2, <1>7
  <1>9. (T \ {c}) \ {x} = (T \ {x}) \ {c}
    OBVIOUS
  <1>10. x.size \in Nat /\ c.size \in Nat /\ SizeOf((T \ {x}) \ {c}) \in Nat
    <2>1. x \in S /\ c \in S /\ (T \ {x}) \ {c} \in SUBSET S
      BY <1>3, <1>4, <1>5
    <2>2. IsFiniteSet((T \ {x}) \ {c}) /\ \A y \in (T \ {x}) \ {c} : y.size \in Nat
      BY <2>1, FS_Subset
    <2> QED
      BY <2>1, <2>2, SizeIsNat
  <1> DEFINE k == x.size
             l == c.size
             m == SizeOf((T \ {x}) \ {c})
  <1>11. SizeOf(T) = l + (k + m) /\ SizeOf(T \ {x}) = l + m /\ SizeOf(T) # k + SizeOf(T \ {x})
    BY <1>4, <1>5, <1>8, <1>9
  <1>12. k \in Nat /\ l \in Nat /\ m \in Nat
    BY <1>10
  <1> HIDE DEF k, l, m
  <1> QED
    BY <1>11, <1>12

-----------------------------------------------------------------------------
(* The view of the newest discoveries.                                     *)

\* Of two records at most one is newer.
LEMMA NewerIsStrict == \A r, s \in Known : Newer(r, s) => ~Newer(s, r)
  BY SMT DEF Known, Newer, Listed

LEMMA CapIsNat == TypeOK => SharedContextCap \in Nat
  BY BudgetAssumption, SMT DEF TypeOK, SharedContextCap

\* While it is in use the view stays as it is, and otherwise nothing is said of it.
LEMMA ViewStays ==
    ASSUME ViewInv, memory' = memory,
           pc' \in {"view", "invoke"} =>
              pc' = pc /\ UNCHANGED <<unseen, view, bytes, share, funded>>
    PROVE  ViewInv'
  BY DEF ViewInv, SharedContextCap

\* The next record: all those before it are newer, so that whatever is taken
\* later takes no room from one that was dropped.
LEMMA ViewGrows ==
    ASSUME TypeInv, ViewInv, TakeRecord
    PROVE  ViewInv'
  <1>1. /\ pc = "view" /\ UNCHANGED <<pc, memory, rows, share, funded>>
        /\ SharedContextCap' = SharedContextCap
    BY DEF TakeRecord, TakeNext, money, SharedContextCap
  <1>2. PICK r \in unseen :
          /\ \A s \in unseen \ {r} : Before(r, s)
          /\ unseen' = unseen \ {r}
          /\ IF bytes + r.size <= SharedContextCap
             THEN view' = view \union {r} /\ bytes' = bytes + r.size
             ELSE UNCHANGED <<view, bytes>>
    BY DEF TakeRecord, TakeNext
  <1>3. /\ memory \subseteq Known /\ unseen \subseteq memory /\ IsFiniteSet(memory)
        /\ SharedContextCap \in Nat
    BY CapIsNat DEF TypeInv, ViewInv
  <1>4. CASE ~Capped
    BY <1>1, <1>3, <1>4 DEF ViewInv
  <1>5. CASE Capped
    <2>1. /\ view \subseteq memory \ unseen
          /\ bytes = SizeOf(view) /\ bytes <= SharedContextCap
          /\ \A q \in memory \ unseen, s \in unseen : Newer(q, s)
          /\ \A q \in (memory \ unseen) \ view :
                SizeOf({s \in view : Newer(s, q)}) + q.size > SharedContextCap
      BY <1>1, <1>5 DEF ViewInv
    <2>2. r \in memory /\ r \notin view /\ r.size \in Nat /\ IsFiniteSet(view)
          /\ IsFiniteSet(view \union {r}) /\ \A s \in view \union {r} : s.size \in Nat
      BY <1>2, <1>3, <2>1, FS_Subset DEF Known
    <2>3. SizeOf(view \union {r}) = r.size + SizeOf(view)
      <3>1. (view \union {r}) \ {r} = view
        BY <2>2
      <3> QED
        BY <2>2, <3>1, SizeAdds
    <2>4. SizeOf(view) \in Nat
      BY <2>2, SizeIsNat
    <2>5. memory \ unseen' = (memory \ unseen) \union {r}
      BY <1>2, <2>2
    <2>6. \A q \in memory \ unseen', s \in unseen' : Newer(q, s)
      BY <1>2, <2>1, <2>5 DEF Before, Newer
    <2>7. {s \in view : Newer(s, r)} = view
      BY <1>2, <2>1
    <2>8. \A q \in (memory \ unseen) \ view :
             {s \in view \union {r} : Newer(s, q)} = {s \in view : Newer(s, q)}
      BY <1>2, <1>3, <2>1, <2>2, NewerIsStrict
    <2>9. CASE bytes + r.size <= SharedContextCap
      <3>1. view' = view \union {r} /\ bytes' = bytes + r.size
        BY <1>2, <2>9
      <3>2. view' \subseteq memory \ unseen' /\ (memory \ unseen') \ view' = (memory \ unseen) \ view
        BY <2>1, <2>2, <2>5, <3>1
      <3>3. bytes' = SizeOf(view') /\ bytes' <= SharedContextCap
        BY <2>1, <2>2, <2>3, <2>4, <2>9, <3>1
      <3>4. \A q \in (memory \ unseen') \ view' :
               SizeOf({s \in view' : Newer(s, q)}) + q.size > SharedContextCap
        BY <2>1, <2>8, <3>1, <3>2
      <3> QED
        BY <1>1, <1>3, <2>6, <3>2, <3>3, <3>4 DEF ViewInv, Newer, Listed
    <2>10. CASE ~(bytes + r.size <= SharedContextCap)
      <3>1. view' = view /\ bytes' = bytes
        BY <1>2, <2>10
      <3>2. SizeOf({s \in view : Newer(s, r)}) + r.size > SharedContextCap
        <4>1. SizeOf({s \in view : Newer(s, r)}) = bytes
          BY <2>1, <2>7
        <4>2. bytes \in Nat
          BY <2>1, <2>4
        <4> QED
          BY <1>3, <2>2, <2>10, <4>1, <4>2
      <3>3. \A q \in (memory \ unseen') \ view :
               SizeOf({s \in view : Newer(s, q)}) + q.size > SharedContextCap
        BY <2>1, <2>5, <3>2
      <3>4. view' \subseteq memory \ unseen' /\ bytes' = SizeOf(view') /\ bytes' <= SharedContextCap
        BY <2>1, <2>5, <3>1
      <3> QED
        BY <1>1, <1>3, <2>6, <3>1, <3>3, <3>4 DEF ViewInv, Newer, Listed
    <2> QED
      BY <2>9, <2>10
  <1> QED
    BY <1>4, <1>5

LEMMA ViewInit == Init => ViewInv
  BY FS_EmptySet DEF Init, ContextInit, ViewInv

LEMMA ViewStep == TypeInv /\ ViewInv /\ [Next]_vars => ViewInv'
  <1> SUFFICES ASSUME TypeInv, ViewInv, [Next]_vars PROVE ViewInv'
    OBVIOUS
  <1> USE DEF money, charged, context
  <1>1. CASE NextNode
    BY <1>1, ViewStays DEF NextNode
  <1>2. CASE BuildContext
    <2>1. /\ pc' = "view" /\ bytes' = 0 /\ UNCHANGED <<memory, share, funded>>
          /\ unseen' = IF Capped THEN memory ELSE {}
          /\ view' = IF Capped THEN {} ELSE memory
      BY <1>2 DEF BuildContext, StartView
    <2>2. SharedContextCap' \in Nat /\ SizeOf({}) = 0 /\ IsFiniteSet(memory)
      BY <2>1, CapIsNat, SizeUnfolds DEF TypeInv, SharedContextCap, ViewInv
    <2>3. CASE Capped
      <3>1. unseen' = memory /\ view' = {}
        BY <2>1, <2>3
      <3>2. bytes' = SizeOf(view') /\ bytes' <= SharedContextCap'
        BY <2>1, <2>2, <3>1
      <3> QED
        BY <2>1, <2>2, <3>1, <3>2 DEF ViewInv
    <2> QED
      BY <2>1, <2>2, <2>3 DEF ViewInv
  <1>3. CASE TakeRecord
    BY <1>3, ViewGrows
  <1>4. CASE ContextReady
    <2>1. pc = "view" /\ unseen = {} /\ UNCHANGED <<memory, unseen, view, bytes, share, funded>>
      BY <1>4 DEF ContextReady
    <2> QED
      BY <2>1 DEF ViewInv, SharedContextCap
  <1>5. CASE SessionAnswers
    BY <1>5, ViewStays DEF SessionAnswers, Charge
  <1>6. CASE SessionFails
    <2>1. pc = "invoke" /\ pc' \in {"invoke", "failed"} /\ UNCHANGED <<share, funded, context>>
      BY <1>6 DEF SessionFails, Fails, Charge
    <2> QED
      BY <2>1, ViewStays
  <1>7. CASE WorktreeFails
    <2>1. pc = "invoke" /\ pc' \in {"invoke", "failed"} /\ UNCHANGED <<money, context>>
      BY <1>7 DEF WorktreeFails, Fails
    <2> QED
      BY <2>1, ViewStays
  <1>8. CASE Rerun \/ Escalate \/ Succeed \/ RecordUsageRaises
    BY <1>8, ViewStays DEF Rerun, Escalate, Succeed, RecordUsageRaises
  <1>9. CASE AppendDiscovery
    <2>1. pc' = "commit" /\ memory' = memory \union {Record(turn, at, found[at])}
      BY <1>9 DEF AppendDiscovery, Remember
    <2>2. IsFiniteSet(memory')
      BY <2>1, FS_AddElement DEF ViewInv
    <2> QED
      BY <2>1, <2>2 DEF ViewInv
  <1>10. CASE CommitDiscovery
    BY <1>10, ViewStays DEF CommitDiscovery, Commit
  <1>11. ASSUME NEW n \in 1 .. MaxComposites, Spawn(n) \/ SpawnRaises(n) PROVE ViewInv'
    BY <1>11, ViewStays DEF Spawn, SpawnRaises, Appended
  <1>12. CASE AfterNode
    BY <1>12, ViewStays DEF AfterNode, Appended
  <1>13. CASE Ended \/ UNCHANGED vars
    BY <1>13, ViewStays DEF Ended, vars
  <1> QED
    BY <1>1, <1>2, <1>3, <1>4, <1>5, <1>6, <1>7, <1>8, <1>9, <1>10, <1>11, <1>12, <1>13 DEF Next

\* A record does not reach an agent only where the newer ones in its view leave no
\* room for it, however many records of whatever sizes there are
\* (context/provider.py, _build_shared_view).
THEOREM NewestRecordsWin == Spec => []NewestWin
  <1>1. TypeInv /\ ViewInv => NewestWin
    BY DEF TypeInv, ViewInv, NewestWin
  <1> QED
    BY <1>1, TypeInit, TypeStep, ViewInit, ViewStep, PTL DEF Spec

-----------------------------------------------------------------------------
(* What the nodes charge.                                                  *)

\* What the budget manager knows of was charged.
LEMMA UsedStep == TypeInv /\ UsedInv /\ [Next]_vars => UsedInv'
  <1> SUFFICES ASSUME TypeInv, UsedInv, [Next]_vars PROVE UsedInv'
    OBVIOUS
  <1>0. {used, spent, paid, cost} \subseteq Nat /\ share \in Nat
    BY SMT DEF TypeInv, TypeOK
  <1> USE DEF UsedInv, Working, place, sessions, retries, output, money, charged
  <1>1. CASE NextNode
    <2>1. pc = "next" /\ pc' = "build" /\ cost' = 0 /\ UNCHANGED <<used, spent>>
      BY <1>1 DEF NextNode
    <2> QED
      BY <2>1, <1>0, SMT
  <1>2. CASE BuildContext
    BY <1>2, <1>0, SMT DEF BuildContext, StartView
  <1>3. CASE TakeRecord
    BY <1>3, <1>0, SMT DEF TakeRecord, TakeNext
  <1>4. CASE ContextReady
    BY <1>4, <1>0, SMT DEF ContextReady
  <1>5. CASE SessionAnswers
    <2>1. PICK usd \in Bill(1) : Charge(usd) /\ cost' = cost + usd
      BY <1>5 DEF SessionAnswers
    <2>2. usd \in Nat
      BY <1>0, Bills, SMT
    <2>3. pc = "invoke" /\ pc' = pc
      BY <1>5 DEF SessionAnswers
    <2> QED
      BY <2>1, <2>2, <2>3, <1>0, SMT DEF Charge
  <1>6. CASE SessionFails
    <2>1. PICK e \in DOMAIN Category, usd \in Bill(Abandoned) : Charge(usd) /\ Fails(Category[e])
      BY <1>6 DEF SessionFails
    <2>2. Abandoned \in Nat
      BY <1>6, CallsOf, SMT DEF SessionFails, Abandoned, Calls, TypeInv, TypeOK
    <2>3. usd \in Nat
      BY <1>0, <2>2, Bills
    <2>4. pc = "invoke" /\ pc' \in {"invoke", "failed"} /\ cost' = 0
      BY <1>6, <2>1 DEF SessionFails, Fails
    <2> QED
      BY <2>1, <2>3, <2>4, <1>0, SMT DEF Charge
  <1>7. CASE WorktreeFails
    <2>1. pc = "invoke" /\ pc' \in {"invoke", "failed"} /\ cost' = 0 /\ UNCHANGED money
      BY <1>7 DEF WorktreeFails, Fails
    <2> QED
      BY <2>1, <1>0, SMT
  <1>8. CASE Rerun
    BY <1>8, <1>0, SMT DEF Rerun
  <1>9. CASE Escalate
    BY <1>9, <1>0, SMT DEF Escalate
  <1>10. CASE Succeed
    <2>1. pc = "invoke" /\ pc' = "append" /\ used' = used + cost /\ UNCHANGED spent
      BY <1>10 DEF Succeed, RecordUsage
    <2> QED
      BY <2>1, <1>0, SMT
  <1>11. CASE RecordUsageRaises
    <2>1. pc = "invoke" /\ pc' = "raised" /\ UNCHANGED money
      BY <1>11 DEF RecordUsageRaises
    <2> QED
      BY <2>1, <1>0, SMT
  <1>12. CASE AppendDiscovery
    BY <1>12, <1>0, SMT DEF AppendDiscovery, Remember
  <1>13. CASE CommitDiscovery
    BY <1>13, <1>0, SMT DEF CommitDiscovery, Commit
  <1>14. ASSUME NEW n \in 1 .. MaxComposites, Spawn(n) PROVE UsedInv'
    BY <1>14, <1>0, SMT DEF Spawn, Appended, AllocateChild
  <1>15. ASSUME NEW n \in 1 .. MaxComposites, SpawnRaises(n) PROVE UsedInv'
    BY <1>15, <1>0, SMT DEF SpawnRaises, Appended
  <1>16. CASE AfterNode
    BY <1>16, <1>0, SMT DEF AfterNode, Appended
  <1>17. CASE Ended
    BY <1>17, <1>0, SMT DEF Ended, vars
  <1>18. CASE UNCHANGED vars
    BY <1>18 DEF vars
  <1> QED
    BY <1>1, <1>2, <1>3, <1>4, <1>5, <1>6, <1>7, <1>8, <1>9, <1>10, <1>11, <1>12, <1>13, <1>14, <1>15, <1>16, <1>17, <1>18 DEF Next

\* How many attempts can have failed, and sessions have been opened.
LEMMA OpenedBound ==
    TypeInv => /\ Failed \in Nat /\ Opened \in Nat
               /\ share \in Nat
               /\ kind \in {"plan", "coding", "review"}
               /\ Working => Opened <= Sessions(kind)
  <1> SUFFICES ASSUME TypeInv
               PROVE  /\ Failed \in Nat /\ Opened \in Nat
                      /\ Working => Opened <= Sessions(kind)
    BY SMT DEF TypeInv, TypeOK
  <1> DEFINE A == MaxTransientAttempts
  <1>1. /\ A \in Nat \ {0} /\ MaxReruns \in Nat
        /\ reruns \in Nat /\ reruns <= MaxReruns
        /\ tries \in Nat /\ tries < A
        /\ done \in Nat /\ done <= Calls(kind)
        /\ pc = "failed" /\ kind # "coding" => done = 0
        /\ kind \in {"plan", "coding", "review"}
    BY DispatchAssumption, CallsOf, SMT DEF TypeInv, TypeOK
  <1> HIDE DEF A
  <1>2. /\ reruns * A \in Nat /\ MaxReruns * A \in Nat /\ reruns * A <= MaxReruns * A
    BY <1>1, Product, Grows
  <1>3. (reruns + 1) * A = reruns * A + A
    BY <1>1, SMT
  <1>4. Attempts = MaxReruns * A + A
    BY <1>1, SMT DEF Attempts, A
  <1>5. Failed = IF pc = "failed" THEN reruns * A + A ELSE reruns * A + tries
    BY <1>3 DEF Failed, A
  <1>6. Failed \in Nat /\ Failed <= Attempts /\ (pc # "failed" => Failed < Attempts)
    <2>1. CASE pc = "failed"
      BY <2>1, <1>1, <1>2, <1>4, <1>5, SMT
    <2>2. CASE pc # "failed"
      BY <2>2, <1>1, <1>2, <1>4, <1>5, SMT
    <2> QED
      BY <2>1, <2>2
  <1>7. Opened \in Nat
    BY <1>1, <1>6, SMT DEF Opened
  <1>8. Attempts \in Nat /\ MaxCalls \in Nat
    BY Counts
  <1>9. CASE kind = "plan"
    <2>1. Sessions(kind) = Attempts /\ done <= 1 /\ Opened = Failed + done /\ (pc = "failed" => done = 0)
      BY <1>1, <1>9, CallsOf DEF Sessions, Opened
    <2> QED
      BY <2>1, <1>1, <1>6, <1>7, <1>8, SMT
  <1>10. CASE kind = "review"
    <2>1. Sessions(kind) = 2 * Attempts /\ done <= 2 /\ Opened = 2 * Failed + done /\ (pc = "failed" => done = 0)
      BY <1>1, <1>10, CallsOf DEF Sessions, Opened
    <2> QED
      BY <2>1, <1>1, <1>6, <1>7, <1>8, SMT
  <1>11. CASE kind = "coding"
    <2>1. Sessions(kind) = MaxCalls + Attempts /\ done <= MaxCalls /\ Opened = Failed + done
      BY <1>1, <1>11, CallsOf DEF Sessions, Opened
    <2> QED
      BY <2>1, <1>1, <1>6, <1>7, <1>8, SMT
  <1> QED
    BY <1>1, <1>9, <1>10, <1>11

\* The sessions a node has opened have charged at most their limits.
LEMMA NodeSpend ==
    TypeInv /\ paid <= Opened * Limit /\ Working => paid <= Sessions(kind) * Limit
  <1> SUFFICES ASSUME TypeInv, paid <= Opened * Limit, Working
               PROVE  paid <= Sessions(kind) * Limit
    OBVIOUS
  <1>1. /\ Opened \in Nat /\ Opened <= Sessions(kind)
        /\ Sessions(kind) \in Nat /\ Limit \in Nat
    BY OpenedBound, Counts, Limits
  <1>2. /\ Opened * Limit <= Sessions(kind) * Limit
        /\ Opened * Limit \in Nat /\ Sessions(kind) * Limit \in Nat
    BY <1>1, Grows, Product
  <1>3. paid \in Nat
    BY SMT DEF TypeInv, TypeOK
  <1> QED
    BY <1>2, <1>3, SMT

LEMMA PaidMore ==
    ASSUME TypeInv, paid <= Opened * Limit, NEW n \in Nat, NEW usd \in Bill(n)
    PROVE  paid + usd <= (Opened + n) * Limit
  <1>1. share \in Nat /\ paid \in Nat
    BY SMT DEF TypeInv, TypeOK
  <1>2. Opened \in Nat /\ Limit \in Nat
    BY <1>1, OpenedBound, Limits
  <1>3. usd \in Nat /\ usd <= n * Limit
    BY <1>1, Bills
  <1>4. (Opened + n) * Limit = Opened * Limit + n * Limit
    BY <1>2, Distributes
  <1>5. Opened * Limit \in Nat /\ n * Limit \in Nat
    BY <1>2, Product
  <1> QED
    BY <1>1, <1>3, <1>4, <1>5, SMT

\* A failure counts as an attempt.
LEMMA FailsCounts ==
    ASSUME TypeInv, pc = "invoke", NEW c, Fails(c), reruns' = reruns
    PROVE  Failed' \in Nat /\ Failed' >= Failed + 1
  <1> DEFINE A == MaxTransientAttempts
  <1>1. A \in Nat \ {0} /\ reruns \in Nat /\ tries \in Nat /\ tries < A
    BY DispatchAssumption, SMT DEF TypeInv, TypeOK
  <1>2. \/ tries' = tries + 1 /\ pc' = pc
        \/ pc' = "failed"
    BY DEF Fails
  <1> HIDE DEF A
  <1>3. reruns * A \in Nat /\ (reruns + 1) * A = reruns * A + A
    BY <1>1, Product, SMT
  <1>4. Failed = reruns * A + tries
    BY DEF Failed, A
  <1>5. Failed' = IF pc' = "failed" THEN (reruns + 1) * A ELSE reruns * A + tries'
    BY DEF Failed, A
  <1>6. CASE tries' = tries + 1 /\ pc' = pc
    BY <1>1, <1>3, <1>4, <1>5, <1>6, SMT
  <1>7. CASE pc' = "failed"
    BY <1>1, <1>3, <1>4, <1>5, <1>7, SMT
  <1> QED
    BY <1>2, <1>6, <1>7

LEMMA PaidStep == TypeInv /\ PaidInv /\ [Next]_vars => PaidInv'
  <1> SUFFICES ASSUME TypeInv, PaidInv, [Next]_vars PROVE PaidInv'
    OBVIOUS
  <1>01. TypeInv'
    BY TypeStep
  <1>02. /\ (Opened \in Nat)'
         /\ (paid <= Opened * Limit)' /\ Working' => (paid <= Sessions(kind) * Limit)'
    BY <1>01, OpenedBound, NodeSpend, PTL
  <1>03. /\ paid \in Nat /\ share \in Nat /\ Opened \in Nat /\ Limit \in Nat
         /\ Failed \in Nat /\ done \in Nat /\ done <= Calls(kind) /\ (~over => done < Calls(kind))
         /\ kind \in {"plan", "coding", "review"}
    BY OpenedBound, Limits, SMT DEF TypeInv, TypeOK
  <1>09. {Failed, Opened, done} \subseteq Nat
    BY <1>03
  <1>04. ASSUME share' = share PROVE Limit' = Limit
    BY <1>04 DEF Limit, Backstop
  <1>05. ASSUME Working', paid' <= Opened' * Limit' PROVE PaidInv'
    BY <1>02, <1>05 DEF PaidInv, NodeSpendIsBounded
  \* The node neither charges nor opens a session.
  <1>06. ASSUME UNCHANGED <<share, paid, kind, done, tries, reruns>>,
                pc \notin {"next", "failed"}, pc' \notin {"next", "failed"},
                Working' => Working
         PROVE  PaidInv'
    <2>1. Opened' = Opened /\ Limit' = Limit
      BY <1>04, <1>06 DEF Opened, Failed
    <2> QED
      BY <1>06, <2>1 DEF PaidInv, NodeSpendIsBounded
  \* The node is done with.
  <1>07. ASSUME UNCHANGED <<share, paid, kind>>, pc # "next", ~Working'
         PROVE  PaidInv'
    BY <1>04, <1>07 DEF PaidInv, NodeSpendIsBounded
  <1>08. ASSUME pc' = "next" PROVE PaidInv'
    BY <1>08 DEF PaidInv, NodeSpendIsBounded, Working
  <1> USE DEF place, sessions, retries, output, money, charged
  <1>1. CASE NextNode
    <2>1. Working' /\ paid' = 0 /\ share' = share
      BY <1>1 DEF NextNode, Working
    <2>2. Opened' * Limit' \in Nat
      BY <2>1, <1>02, <1>03, <1>04, Product
    <2>3. paid' <= Opened' * Limit'
      BY <2>1, <2>2, SMT
    <2> QED
      BY <2>1, <2>3, <1>05
  <1>2. CASE BuildContext
    BY <1>2, <1>06 DEF BuildContext, StartView, Working
  <1>3. CASE TakeRecord
    BY <1>3, <1>06 DEF TakeRecord, TakeNext, Working
  <1>4. CASE ContextReady
    BY <1>4, <1>06 DEF ContextReady, Working
  <1>5. CASE SessionAnswers
    <2>1. PICK usd \in Bill(1) : Charge(usd)
      BY <1>5 DEF SessionAnswers
    <2>2. Working /\ Working' /\ done' = done + 1 /\ UNCHANGED <<pc, kind, tries, reruns>>
      BY <1>5 DEF SessionAnswers, Working
    <2>3. Failed' = Failed /\ Limit' = Limit /\ paid' = paid + usd
      BY <2>1, <2>2, <1>04 DEF Failed, Charge
    <2>4. Opened' = Opened + 1
      BY <2>2, <2>3, <1>03, SMT DEF Opened
    <2>5. paid + usd <= (Opened + 1) * Limit
      BY <2>2, PaidMore, SMT DEF PaidInv
    <2> QED
      BY <2>2, <2>3, <2>4, <2>5, <1>05
  <1>6. CASE SessionFails
    <2>1. PICK e \in DOMAIN Category, usd \in Bill(Abandoned) : Charge(usd) /\ Fails(Category[e])
      BY <1>6 DEF SessionFails
    <2>2. /\ pc = "invoke" /\ ~over /\ Working /\ Working'
          /\ UNCHANGED <<kind, reruns>>
          /\ IF kind = "coding" THEN done' = done ELSE done' = 0
      BY <1>6, <2>1 DEF SessionFails, Fails, Working
    <2>3. Failed' \in Nat /\ Failed' >= Failed + 1
      BY <2>1, <2>2, FailsCounts
    <2>4. Limit' = Limit /\ paid' = paid + usd
      BY <2>1, <1>04 DEF Charge
    <2>5. Abandoned \in Nat /\ Opened + Abandoned <= Opened'
      <3>1. CASE kind = "plan"
        <4>1. done = 0 /\ done' = 0 /\ Abandoned = 1 /\ Opened = Failed + done /\ Opened' = Failed' + done'
          BY <3>1, <2>2, <1>03, CallsOf, SMT DEF Opened, Abandoned
        <4> QED
          BY <4>1, <2>3, <1>09, SMT
      <3>2. CASE kind = "review"
        <4>1. done < 2 /\ done' = 0 /\ Abandoned = 2 - done /\ Opened = 2 * Failed + done /\ Opened' = 2 * Failed' + done'
          BY <3>2, <2>2, <1>03, CallsOf DEF Opened, Abandoned
        <4> QED
          BY <4>1, <2>3, <1>09, SMT
      <3>3. CASE kind = "coding"
        <4>1. done' = done /\ Abandoned = 1 /\ Opened = Failed + done /\ Opened' = Failed' + done'
          BY <3>3, <2>2 DEF Opened, Abandoned
        <4> QED
          BY <4>1, <2>3, <1>09, SMT
      <3> QED
        BY <3>1, <3>2, <3>3, <1>03
    <2>6. paid + usd <= (Opened + Abandoned) * Limit
      BY <2>2, <2>5, PaidMore DEF PaidInv
    <2>7. /\ (Opened + Abandoned) * Limit <= Opened' * Limit
          /\ (Opened + Abandoned) * Limit \in Nat /\ Opened' * Limit \in Nat
          /\ usd \in Nat
      <3>1. Opened + Abandoned \in Nat
        BY <2>5, <1>03, SMT
      <3> QED
        BY <3>1, <2>5, <1>02, <1>03, Grows, Product, Bills
    <2>8. paid' <= Opened' * Limit'
      BY <2>4, <2>6, <2>7, <1>03, SMT
    <2> QED
      BY <2>2, <2>8, <1>05
  <1>7. CASE WorktreeFails
    <2>1. /\ pc = "invoke" /\ Working /\ Working'
          /\ UNCHANGED <<kind, reruns, share, paid>> /\ Fails("unknown")
          /\ IF kind = "coding" THEN done' = done ELSE done' = 0
          /\ kind # "plan"
      BY <1>7 DEF WorktreeFails, Fails, Working
    <2>2. Failed' \in Nat /\ Failed' >= Failed + 1
      BY <2>1, FailsCounts
    <2>3. Opened <= Opened'
      <3>1. CASE kind = "review"
        <4>1. done <= 2 /\ done' = 0 /\ Opened = 2 * Failed + done /\ Opened' = 2 * Failed' + done'
          BY <3>1, <2>1, <1>03, CallsOf DEF Opened
        <4> QED
          BY <4>1, <2>2, <1>09, SMT
      <3>2. CASE kind = "coding"
        <4>1. done' = done /\ Opened = Failed + done /\ Opened' = Failed' + done'
          BY <3>2, <2>1 DEF Opened
        <4> QED
          BY <4>1, <2>2, <1>09, SMT
      <3> QED
        BY <3>1, <3>2, <2>1, <1>03
    <2>4. /\ Opened * Limit <= Opened' * Limit
          /\ Opened * Limit \in Nat /\ Opened' * Limit \in Nat
      BY <2>3, <1>02, <1>03, Grows, Product
    <2>5. paid' <= Opened' * Limit'
      <3>1. paid <= Opened * Limit /\ paid' = paid /\ Limit' = Limit
        BY <2>1, <1>04 DEF PaidInv
      <3> QED
        BY <3>1, <2>4, <1>03, SMT
    <2> QED
      BY <2>1, <2>5, <1>05
  <1>8. CASE Rerun
    <2>1. /\ pc = "failed" /\ pc' = "build" /\ reruns' = reruns + 1 /\ tries' = 0
          /\ UNCHANGED <<kind, done, share, paid>>
      BY <1>8 DEF Rerun
    <2>2. Failed' = Failed + 0
      BY <2>1 DEF Failed
    <2>3. Opened' = Opened /\ Limit' = Limit
      BY <2>1, <2>2, <1>03, <1>04, SMT DEF Opened
    <2> QED
      BY <2>1, <2>3, <1>05 DEF PaidInv, Working
  <1>9. CASE Escalate
    BY <1>9, <1>07 DEF Escalate, Working
  <1>10. CASE Succeed
    BY <1>10, <1>07 DEF Succeed, RecordUsage, Working
  <1>11. CASE RecordUsageRaises
    BY <1>11, <1>07 DEF RecordUsageRaises, Working
  <1>12. CASE AppendDiscovery
    BY <1>12, <1>06 DEF AppendDiscovery, Remember, Working
  <1>13. CASE CommitDiscovery
    BY <1>13, <1>06 DEF CommitDiscovery, Commit, Working
  <1>14. ASSUME NEW n \in 1 .. MaxComposites, Spawn(n) PROVE PaidInv'
    BY <1>14, <1>08 DEF Spawn
  <1>15. ASSUME NEW n \in 1 .. MaxComposites, SpawnRaises(n) PROVE PaidInv'
    BY <1>15, <1>07 DEF SpawnRaises, Appended, Working
  <1>16. CASE AfterNode
    BY <1>16, <1>07, <1>08 DEF AfterNode, Appended, Working
  <1>17. CASE Ended
    BY <1>17 DEF Ended, vars, PaidInv, NodeSpendIsBounded, Working, Opened, Failed, Limit, Backstop
  <1>18. CASE UNCHANGED vars
    BY <1>18 DEF vars, PaidInv, NodeSpendIsBounded, Working, Opened, Failed, Limit, Backstop
  <1> QED
    BY <1>1, <1>2, <1>3, <1>4, <1>5, <1>6, <1>7, <1>8, <1>9, <1>10, <1>11, <1>12, <1>13, <1>14, <1>15, <1>16, <1>17, <1>18 DEF Next

-----------------------------------------------------------------------------
(* What the run charges.                                                   *)

\* A node pays at most the frame's bound for one node.
LEMMA NodePays ==
    TypeInv /\ PaidInv /\ pc # "next" =>
        /\ NodeBound \in Nat /\ paid <= NodeBound
  <1> SUFFICES ASSUME TypeInv, PaidInv, pc # "next"
               PROVE  NodeBound \in Nat /\ paid <= NodeBound
    OBVIOUS
  <1>1. /\ share \in Nat /\ paid \in Nat
        /\ kind \in {"plan", "coding", "review"}
    BY SMT DEF TypeInv, TypeOK
  <1>2. /\ Limit \in Nat /\ Over \in Nat /\ Limit <= share + Over
        /\ Sessions(kind) \in Nat /\ MaxSessions \in Nat /\ Sessions(kind) <= MaxSessions
    BY <1>1, Limits, Counts
  <1>3. share + Over \in Nat
    BY <1>1, <1>2, SMT
  <1>4. /\ Sessions(kind) * Limit <= MaxSessions * Limit
        /\ MaxSessions * Limit <= NodeBound
        /\ {Sessions(kind) * Limit, MaxSessions * Limit, NodeBound} \subseteq Nat
    BY <1>2, <1>3, Grows, Product DEF NodeBound
  <1>5. paid <= Sessions(kind) * Limit
    BY DEF PaidInv, NodeSpendIsBounded
  <1> QED
    BY <1>1, <1>4, <1>5, SMT

LEMMA FrameBoundIsNat ==
    /\ FrameBound \in Nat
    /\ Over \in Nat /\ MaxSessions \in Nat
    /\ (2 * MaxComposites + 1) * Over \in Nat
    /\ Total + (2 * MaxComposites + 1) * Over \in Nat
  <1>1. Over \in Nat /\ MaxSessions \in Nat
    BY BudgetAssumption, Counts, SMT DEF Over
  <1>2. (2 * MaxComposites + 1) * Over \in Nat
    <2>1. 2 * MaxComposites + 1 \in Nat
      BY DispatchAssumption, SMT
    <2> QED
      BY <1>1, <2>1, Product
  <1>3. Total + (2 * MaxComposites + 1) * Over \in Nat
    BY <1>2, BudgetAssumption, SMT
  <1> QED
    BY <1>1, <1>2, <1>3, Product DEF FrameBound

\* k nodes that share at most the whole budget.
LEMMA FrameFits ==
    ASSUME NEW k \in Nat, k <= 2 * MaxComposites + 1, NEW s \in Nat, k * s <= Total
    PROVE  k * (MaxSessions * (s + Over)) <= FrameBound
  <1>1. Over \in Nat /\ MaxSessions \in Nat /\ 2 * MaxComposites + 1 \in Nat
    BY FrameBoundIsNat, DispatchAssumption, SMT
  <1>2. k * (MaxSessions * (s + Over)) = MaxSessions * (k * (s + Over))
    <2>1. s + Over \in Nat
      BY <1>1, SMT
    <2> QED
      BY <1>1, <2>1, Rearranged
  <1>3. k * (s + Over) = k * s + k * Over
    BY <1>1, Distributes
  <1>4. k * Over <= (2 * MaxComposites + 1) * Over
    BY <1>1, Grows
  <1>5. {k * s, k * Over, (2 * MaxComposites + 1) * Over} \subseteq Nat
    BY <1>1, Product
  <1>6. /\ k * (s + Over) \in Nat
        /\ k * (s + Over) <= Total + (2 * MaxComposites + 1) * Over
    BY <1>3, <1>4, <1>5, BudgetAssumption, SMT
  <1> QED
    BY <1>1, <1>2, <1>6, FrameBoundIsNat, Grows DEF FrameBound

LEMMA SpentInit == Init => SpentInv
  <1> SUFFICES ASSUME Init PROVE SpentInv
    OBVIOUS
  <1>1. /\ pc = "build" /\ spent = 0 /\ paid = 0 /\ share = Total /\ level = 0
        /\ Left = 0
    BY SMT DEF Init, BudgetInit, Nothing, Left
  <1>2. 1 * NodeBound <= FrameBound
    <2>1. 1 * Total <= Total /\ 1 <= 2 * MaxComposites + 1 /\ Total \in Nat
      BY BudgetAssumption, DispatchAssumption, SMT
    <2> QED
      BY <1>1, <2>1, FrameFits DEF NodeBound
  <1>3. FrameBound \in Nat /\ NodeBound \in Nat
    <2>1. Total + Over \in Nat /\ MaxSessions \in Nat
      BY FrameBoundIsNat, BudgetAssumption, SMT
    <2> QED
      BY <1>1, <2>1, FrameBoundIsNat, Product DEF NodeBound
  <1>4. 0 - 0 + (0 + 1) * NodeBound <= (0 + 1) * FrameBound
    BY <1>2, <1>3, SMT
  <1> QED
    BY <1>1, <1>4 DEF SpentInv

LEMMA SpentStep == TypeInv /\ PaidInv /\ SpentInv /\ [Next]_vars => SpentInv'
  <1> SUFFICES ASSUME TypeInv, PaidInv, SpentInv, [Next]_vars PROVE SpentInv'
    OBVIOUS
  <1>01. {spent, paid, used, share, level, rest.coding, rest.review} \subseteq Nat /\ Left \in Nat
    BY SMT DEF TypeInv, TypeOK, Left
  <1>02. pc # "next" => NodeBound \in Nat /\ paid <= NodeBound
    BY NodePays
  <1>03. ASSUME UNCHANGED <<share, level, kind, rest>>, pc # "next", pc' # "next",
                spent' - paid' = spent - paid
         PROVE  SpentInv'
    <2>1. Left' = Left /\ NodeBound' = NodeBound
      BY <1>03 DEF Left, NodeBound
    <2> QED
      BY <1>03, <2>1 DEF SpentInv
  <1>04. pc # "next" =>
            /\ (Left + 1) * NodeBound = Left * NodeBound + NodeBound
            /\ Left * NodeBound \in Nat
    <2>1. 1 \in Nat
      OBVIOUS
    <2>2. ASSUME pc # "next" PROVE 1 * NodeBound = NodeBound
      BY <1>02, <2>2, SMT
    <2> QED
      BY <1>01, <1>02, <2>1, <2>2, Distributes, Product
  <1>05. (level + 1) * FrameBound \in Nat
    <2>1. level + 1 \in Nat
      BY <1>01, SMT
    <2> QED
      BY <2>1, FrameBoundIsNat, Product
  <1> USE DEF place, sessions, retries, output, money, charged
  <1>1. CASE NextNode
    <2>1. /\ pc = "next" /\ pc' = "build" /\ paid' = 0
          /\ UNCHANGED <<spent, share, level>>
      BY <1>1 DEF NextNode
    <2>2. Left' + 1 = Left
      <3>1. CASE rest.coding > 0 /\ kind' = "coding" /\ rest' = [rest EXCEPT !.coding = @ - 1]
        <4>0. rest' = [coding |-> rest.coding - 1, review |-> rest.review]
          BY <3>1 DEF TypeInv, TypeOK
        <4>1. /\ kind' = "coding" /\ rest'.coding = rest.coding - 1 /\ rest'.review = rest.review
          BY <3>1, <4>0
        <4> QED
          BY <2>1, <4>1, <1>01, SMT DEF Left
      <3>2. CASE rest.review > rest.coding /\ kind' = "review" /\ rest' = [rest EXCEPT !.review = @ - 1]
        <4>0. rest' = [coding |-> rest.coding, review |-> rest.review - 1]
          BY <3>2 DEF TypeInv, TypeOK
        <4>1. /\ kind' = "review" /\ rest'.coding = rest.coding /\ rest'.review = rest.review - 1
          BY <3>2, <4>0
        <4> QED
          BY <2>1, <4>1, <1>01, SMT DEF Left
      <3>3. CASE rest = Nothing /\ kind' = "plan" /\ UNCHANGED rest
        <4>1. rest.coding = 0 /\ rest.review = 0 /\ kind' = "plan" /\ rest' = rest
          BY <3>3 DEF Nothing
        <4> QED
          BY <2>1, <4>1, SMT DEF Left
      <3> QED
        BY <1>1, <3>1, <3>2, <3>3 DEF NextNode
    <2>3. NodeBound' = NodeBound
      BY <2>1 DEF NodeBound
    <2>4. spent - 0 = spent
      BY <1>01, SMT
    <2> QED
      BY <2>1, <2>2, <2>3, <2>4 DEF SpentInv
  <1>2. CASE BuildContext
    BY <1>2, <1>03 DEF BuildContext, StartView
  <1>3. CASE TakeRecord
    BY <1>3, <1>03 DEF TakeRecord, TakeNext
  <1>4. CASE ContextReady
    BY <1>4, <1>03 DEF ContextReady
  <1>5. CASE SessionAnswers
    <2>1. PICK usd \in Bill(1) : Charge(usd)
      BY <1>5 DEF SessionAnswers
    <2>2. usd \in Nat
      BY <1>01, Bills, SMT
    <2>3. spent' - paid' = spent - paid
      BY <2>1, <2>2, <1>01, SMT DEF Charge
    <2> QED
      BY <1>5, <2>1, <2>3, <1>03 DEF SessionAnswers, Charge
  <1>6. CASE SessionFails
    <2>1. PICK e \in DOMAIN Category, usd \in Bill(Abandoned) : Charge(usd) /\ Fails(Category[e])
      BY <1>6 DEF SessionFails
    <2>2. Abandoned \in Nat
      BY <1>6, CallsOf, SMT DEF SessionFails, Abandoned, Calls, TypeInv, TypeOK
    <2>3. usd \in Nat
      BY <1>01, <2>2, Bills
    <2>4. spent' - paid' = spent - paid
      BY <2>1, <2>3, <1>01, SMT DEF Charge
    <2> QED
      BY <1>6, <2>1, <2>4, <1>03 DEF SessionFails, Fails, Charge
  <1>7. CASE WorktreeFails
    BY <1>7, <1>03 DEF WorktreeFails, Fails
  <1>8. CASE Rerun
    BY <1>8, <1>03 DEF Rerun
  <1>9. CASE Escalate
    BY <1>9, <1>03 DEF Escalate
  <1>10. CASE Succeed
    BY <1>10, <1>03 DEF Succeed, RecordUsage
  <1>11. CASE RecordUsageRaises
    BY <1>11, <1>03 DEF RecordUsageRaises
  <1>12. CASE AppendDiscovery
    BY <1>12, <1>03 DEF AppendDiscovery, Remember
  <1>13. CASE CommitDiscovery
    BY <1>13, <1>03 DEF CommitDiscovery, Commit
  <1>14. ASSUME NEW n \in 1 .. MaxComposites, Spawn(n) PROVE SpentInv'
    <2>1. /\ pc = "append" /\ kind = "plan" /\ pc' = "next" /\ level' = level + 1
          /\ rest' = [coding |-> n, review |-> n] /\ UNCHANGED <<spent, used, kind>>
          /\ share' = IF Remaining > 0 THEN Remaining \div (2 * n + 1) ELSE 0
      BY <1>14 DEF Spawn, Appended, AllocateChild
    <2>2. n \in Nat /\ 2 * n + 1 \in Nat \ {0} /\ 2 * n + 1 <= 2 * MaxComposites + 1
      BY DispatchAssumption, SMT
    <2>3. share' \in Nat /\ (2 * n + 1) * share' <= Total
      <3>1. CASE Remaining > 0
        <4>1. Remaining \in Nat /\ Remaining <= Total
          BY <3>1, <1>01, BudgetAssumption, SMT DEF Remaining
        <4>2. /\ Remaining \div (2 * n + 1) \in Nat
              /\ (2 * n + 1) * (Remaining \div (2 * n + 1)) <= Remaining
          BY <4>1, <2>2, Shares
        <4>3. (2 * n + 1) * (Remaining \div (2 * n + 1)) \in Nat
          BY <4>2, <2>2, Product
        <4>4. share' = Remaining \div (2 * n + 1)
          BY <2>1, <3>1
        <4> HIDE DEF Remaining
        <4> QED
          BY <4>1, <4>2, <4>3, <4>4, BudgetAssumption, SMT
      <3>2. CASE ~(Remaining > 0)
        <4>1. share' = 0 /\ (2 * n + 1) * 0 = 0
          BY <2>1, <2>2, <3>2, SMT
        <4> QED
          BY <4>1, BudgetAssumption, SMT
      <3> QED
        BY <3>1, <3>2
    <2>4. Left' = 2 * n + 1
      BY <2>1, <2>2, SMT DEF Left
    <2>5. Left' * NodeBound' <= FrameBound
      BY <2>2, <2>3, <2>4, FrameFits DEF NodeBound
    <2>6. Left' * NodeBound' \in Nat
      <3>1. share' + Over \in Nat /\ MaxSessions \in Nat
        <4>1. share' \in Nat /\ Over \in Nat
          BY <2>3, FrameBoundIsNat
        <4> QED
          BY <4>1, Sum, FrameBoundIsNat
      <3> QED
        BY <3>1, <2>2, <2>4, Product DEF NodeBound
    <2>7. spent <= (level + 1) * FrameBound
      <3>1. spent - paid + (Left + 1) * NodeBound <= (level + 1) * FrameBound
        BY <2>1 DEF SpentInv
      <3> QED
        BY <2>1, <3>1, <1>01, <1>02, <1>04, <1>05, SMT
    <2>8. (level + 1 + 1) * FrameBound = (level + 1) * FrameBound + FrameBound
      BY <1>01, FrameBoundIsNat, SMT
    <2>9. spent + Left' * NodeBound' <= (level + 1 + 1) * FrameBound
      BY <2>5, <2>6, <2>7, <2>8, <1>01, <1>05, FrameBoundIsNat, SMT
    <2> QED
      BY <2>1, <2>9 DEF SpentInv
  <1>15. ASSUME NEW n \in 1 .. MaxComposites, SpawnRaises(n) PROVE SpentInv'
    BY <1>15, <1>03 DEF SpawnRaises, Appended
  <1>16. CASE AfterNode
    <2>1. CASE pc' = "ended"
      BY <1>16, <2>1, <1>03 DEF AfterNode, Appended
    <2>2. CASE pc' = "next"
      <3>1. /\ pc = "append" /\ kind # "plan" /\ UNCHANGED <<kind, rest, level, share, spent, paid>>
        BY <1>16, <2>2 DEF AfterNode, Appended
      <3>2. Left' = Left /\ NodeBound' = NodeBound
        BY <2>2, <3>1 DEF Left, NodeBound
      <3>3. spent - paid + (Left + 1) * NodeBound <= (level + 1) * FrameBound
        BY <3>1 DEF SpentInv
      <3>4. spent + Left * NodeBound <= (level + 1) * FrameBound
        BY <3>1, <3>3, <1>01, <1>02, <1>04, <1>05, SMT
      <3> QED
        BY <2>2, <3>1, <3>2, <3>4 DEF SpentInv
    <2> QED
      BY <1>16, <2>1, <2>2 DEF AfterNode
  <1>17. CASE Ended
    BY <1>17 DEF Ended, vars, SpentInv, Left, NodeBound
  <1>18. CASE UNCHANGED vars
    BY <1>18 DEF vars, SpentInv, Left, NodeBound
  <1> QED
    BY <1>1, <1>2, <1>3, <1>4, <1>5, <1>6, <1>7, <1>8, <1>9, <1>10, <1>11, <1>12, <1>13, <1>14, <1>15, <1>16, <1>17, <1>18 DEF Next

MoneyInv == UsedInv /\ PaidInv /\ SpentInv

LEMMA MoneyInit == Init => MoneyInv
  <1> SUFFICES ASSUME Init PROVE MoneyInv
    OBVIOUS
  <1>1. pc = "build" /\ paid = 0 /\ used = 0 /\ spent = 0 /\ cost = 0
    BY DEF Init, BudgetInit
  <1>2. TypeInv
    BY TypeInit
  <1>3. UsedInv
    BY <1>1, SMT DEF UsedInv
  <1>4. Opened * Limit \in Nat
    BY <1>2, OpenedBound, Limits, Product
  <1>5. paid <= Opened * Limit
    BY <1>1, <1>4, SMT
  <1>6. PaidInv
    BY <1>1, <1>2, <1>5, NodeSpend DEF PaidInv, NodeSpendIsBounded, Working
  <1> QED
    BY <1>3, <1>6, SpentInit DEF MoneyInv

LEMMA MoneyHolds == Spec => [](TypeInv /\ MoneyInv)
  <1>1. TypeInv /\ MoneyInv /\ [Next]_vars => TypeInv' /\ MoneyInv'
    BY TypeStep, UsedStep, PaidStep, SpentStep DEF MoneyInv
  <1> QED
    BY <1>1, TypeInit, MoneyInit, PTL DEF Spec

\* A node's attempts charge at most the limit of a session for each session they
\* can open, although nothing adds up what they charge (base.py,
\* compute_sdk_backstop; coding.py, which resumes; executor.py, the retries).
THEOREM NodeSpendBounded == Spec => []NodeSpendIsBounded
  <1>1. MoneyInv => NodeSpendIsBounded
    BY DEF MoneyInv, PaidInv
  <1> QED
    BY <1>1, MoneyHolds, PTL

\* What all sessions of a run charge is at least what the budget manager knows
\* of, and bounded by the number of allocations (budget.py, allocate_child).
THEOREM RealSpendBounded == Spec => []RealSpendIsBounded
  <1>1. TypeInv /\ MoneyInv => RealSpendIsBounded
    <2> SUFFICES ASSUME TypeInv, MoneyInv PROVE RealSpendIsBounded
      OBVIOUS
    <2> USE DEF MoneyInv
    <2>1. {spent, paid, used, share, level, cost} \subseteq Nat /\ Left \in Nat
      BY SMT DEF TypeInv, TypeOK, Left
    <2>2. used <= spent
      <3>1. CASE Working
        BY <2>1, <3>1, SMT DEF UsedInv
      <3>2. CASE ~Working
        BY <3>2 DEF UsedInv
      <3> QED
        BY <3>1, <3>2
    <2>3. (level + 1) * FrameBound \in Nat
      <3>1. level + 1 \in Nat
        BY <2>1, SMT
      <3> QED
        BY <3>1, FrameBoundIsNat, Product
    <2>4. NodeBound \in Nat /\ Left * NodeBound \in Nat
      <3>1. share + Over \in Nat /\ MaxSessions \in Nat
        BY <2>1, FrameBoundIsNat, SMT
      <3> QED
        BY <2>1, <3>1, Product DEF NodeBound
    <2>5. CASE pc = "next"
      BY <2>1, <2>2, <2>3, <2>4, <2>5, SMT DEF SpentInv, RealSpendIsBounded
    <2>6. CASE pc # "next"
      <3>1. (Left + 1) * NodeBound = Left * NodeBound + NodeBound
        BY <2>1, <2>4, SMT
      <3>2. paid <= NodeBound
        BY <2>6, NodePays
      <3>3. spent - paid + (Left + 1) * NodeBound <= (level + 1) * FrameBound
        BY <2>6 DEF SpentInv
      <3>4. spent <= (level + 1) * FrameBound
        BY <3>1, <3>2, <3>3, <2>1, <2>3, <2>4, SMT
      <3> QED
        BY <2>2, <3>4 DEF RealSpendIsBounded
    <2> QED
      BY <2>5, <2>6
  <1> QED
    BY <1>1, MoneyHolds, PTL
=============================================================================
