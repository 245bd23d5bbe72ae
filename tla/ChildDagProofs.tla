--------------------------- MODULE ChildDagProofs ---------------------------
(***************************************************************************)
(* Theorems about ChildDag and the sort in it, for any ids, any number of  *)
(* composites and any edges, however often each is repeated: the order is  *)
(* a linear extension, and there is none just when the edges are cyclic.   *)
(***************************************************************************)
EXTENDS ChildDag, FiniteSetTheorems, WellFoundedInduction, TLAPS

Distinct(s) == \A i, j \in DOMAIN s : s[i] = s[j] => i = j

\* Occurrences of parents that are still to be sorted.
Pending(n) == {e \in Into(n) : e[1] \notin Elems(result)}

\* Some nodes wait for one another.
Stuck == \E S \in SUBSET nodes : S # {} /\ \A n \in S : \E e \in Into(n) : e[1] \in S

GraphInv ==
    /\ nodes \in SUBSET Ids
    /\ edges \in SUBSET (Ids \X nodes \X (1 .. MaxCopies))

\* What the turns of the while loop keep.
KahnInv ==
    /\ pc \in {"count", "kahn", "returned", "raised"}
    /\ result \in Seq(nodes)
    /\ LinearExtension
    /\ pc = "count" => result = <<>>
    /\ pc = "kahn" => /\ inDegree = [n \in nodes |-> Cardinality(Pending(n))]
                      /\ queue \in Seq(nodes) /\ Distinct(queue)
                      /\ Elems(queue) = {n \in nodes : Pending(n) = {}} \ Elems(result)
    /\ pc = "returned" => Elems(result) = nodes
    /\ pc = "raised" => Stuck

\* What is sorted is the child DAG of the spec.
ShapeInv ==
    /\ child \in ChildDAGSpec
    /\ pc # "count" => step = "sort"
    /\ step \in {"persist", "sort"} =>
          /\ nodes = NodeIds
          /\ edges = Lists([e \in Ids \X NodeIds |-> ParentsOf(e[2])[e[1]]], NodeIds)

DInv == GraphInv /\ KahnInv /\ ShapeInv

\* What dag_nodes holds of the child while its rows are inserted.
RowsInv ==
    /\ step \in {"validate", "build", "persist", "sort", "raised"}
    /\ ParentPlan \notin nodes
    /\ rows \in Seq(Ids) /\ Distinct(rows)
    /\ Len(rows) <= Len(Built) /\ \A i \in DOMAIN rows : rows[i] = Built[i]
    /\ step \in {"validate", "build"} => rows = <<>>
    /\ step \in {"build", "persist", "sort"} => Valid
    /\ step = "persist" => Len(rows) < Len(Built)
    /\ step = "sort" => Len(rows) = Len(Built)
    /\ step = "raised" => \/ rows = <<>> /\ ~Valid
                          \/ rows # <<>> /\ Valid /\ ~Distinct(Built)

-----------------------------------------------------------------------------
\* The list that sorted() makes of a finite set.
LEMMA SortedLists ==
    ASSUME NEW S \in SUBSET Ids, IsFiniteSet(S), NEW s \in Sorted(S)
    PROVE  s \in Seq(S) /\ Elems(s) = S /\ Distinct(s) /\ DOMAIN s = 1 .. Len(s)
  <1>1. Cardinality(S) \in Nat
    BY FS_CardinalityType
  <1>2. /\ s \in [1 .. Cardinality(S) -> S] /\ Elems(s) = S
        /\ \A i, j \in DOMAIN s : i < j => s[i] < s[j]
    BY DEF Sorted
  <1>3. s \in Seq(S) /\ DOMAIN s = 1 .. Len(s)
    BY <1>1, <1>2
  <1>4. \A i, j \in DOMAIN s : s[i] = s[j] => ~(i < j)
    <2> SUFFICES ASSUME NEW i \in DOMAIN s, NEW j \in DOMAIN s, s[i] = s[j] PROVE ~(i < j)
      OBVIOUS
    <2>1. s[i] \in Int
      BY <1>2, TopoAssumption
    <2> QED
      BY <1>2, <2>1
  <1> QED
    BY <1>2, <1>3, <1>4 DEF Distinct

\* A list without repetitions is as long as it has elements.
LEMMA DistinctLength ==
    ASSUME NEW S, NEW s \in Seq(S), Distinct(s)
    PROVE  IsFiniteSet(Elems(s)) /\ Cardinality(Elems(s)) = Len(s)
  <1>1. s \in Bijection(1 .. Len(s), Elems(s))
    BY DEF Bijection, Injection, Surjection, IsInjective, Elems, Distinct
  <1>2. ExistsBijection(1 .. Len(s), Elems(s))
    BY <1>1 DEF ExistsBijection
  <1>3. Len(s) \in Nat /\ IsFiniteSet(1 .. Len(s))
    BY FS_Interval
  <1> QED
    BY <1>2, <1>3, FS_Bijection, FS_CountingElements

\* Append of something new.
LEMMA Appended ==
    ASSUME NEW S, NEW s \in Seq(S), NEW x \in S, Distinct(s), x \notin Elems(s)
    PROVE  /\ Append(s, x) \in Seq(S) /\ Distinct(Append(s, x))
           /\ Elems(Append(s, x)) = Elems(s) \union {x}
           /\ DOMAIN Append(s, x) = DOMAIN s \union {Len(s) + 1} /\ DOMAIN s = 1 .. Len(s)
           /\ Append(s, x)[Len(s) + 1] = x /\ \A i \in DOMAIN s : Append(s, x)[i] = s[i]
  <1>1. /\ Append(s, x) \in Seq(S) /\ DOMAIN s = 1 .. Len(s) /\ Len(s) \in Nat
        /\ DOMAIN Append(s, x) = 1 .. Len(s) + 1
        /\ Append(s, x)[Len(s) + 1] = x /\ \A i \in DOMAIN s : Append(s, x)[i] = s[i]
    OBVIOUS
  <1>2. DOMAIN Append(s, x) = DOMAIN s \union {Len(s) + 1}
    BY <1>1
  <1>3. Elems(Append(s, x)) = Elems(s) \union {x}
    BY <1>1, <1>2 DEF Elems
  <1>4. Distinct(Append(s, x))
    BY <1>1, <1>2 DEF Distinct, Elems
  <1> QED
    BY <1>1, <1>2, <1>3, <1>4

\* Tail of a queue.
LEMMA Popped ==
    ASSUME NEW S, NEW s \in Seq(S), s # <<>>, Distinct(s)
    PROVE  /\ Head(s) \in Elems(s) /\ Tail(s) \in Seq(S) /\ Distinct(Tail(s))
           /\ Elems(Tail(s)) = Elems(s) \ {Head(s)}
  <1>1. /\ Tail(s) \in Seq(S) /\ Len(s) \in Nat \ {0} /\ Head(s) = s[1]
        /\ DOMAIN s = 1 .. Len(s) /\ DOMAIN Tail(s) = 1 .. Len(s) - 1
        /\ \A i \in DOMAIN Tail(s) : Tail(s)[i] = s[i + 1]
    OBVIOUS
  <1>2. Distinct(Tail(s)) /\ Head(s) \in Elems(s)
    BY <1>1 DEF Distinct, Elems
  <1>3. Elems(Tail(s)) \subseteq Elems(s) \ {Head(s)}
    BY <1>1 DEF Distinct, Elems
  <1>4. ASSUME NEW x \in Elems(s), x # Head(s) PROVE x \in Elems(Tail(s))
    <2>1. PICK i \in DOMAIN s : s[i] = x
      BY DEF Elems
    <2>2. i - 1 \in DOMAIN Tail(s) /\ Tail(s)[i - 1] = x
      BY <1>1, <1>4, <2>1
    <2> QED
      BY <2>2 DEF Elems
  <1> QED
    BY <1>1, <1>2, <1>3, <1>4

\* Concatenation of lists that share nothing.
LEMMA Joined ==
    ASSUME NEW S, NEW s \in Seq(S), NEW t \in Seq(S), Distinct(s), Distinct(t),
           Elems(s) \intersect Elems(t) = {}
    PROVE  /\ s \o t \in Seq(S) /\ Distinct(s \o t)
           /\ Elems(s \o t) = Elems(s) \union Elems(t)
  <1>1. /\ s \o t \in Seq(S) /\ Len(s) \in Nat /\ Len(t) \in Nat
        /\ DOMAIN s = 1 .. Len(s) /\ DOMAIN t = 1 .. Len(t)
        /\ DOMAIN (s \o t) = 1 .. Len(s) + Len(t)
        /\ \A i \in DOMAIN (s \o t) :
              (s \o t)[i] = IF i <= Len(s) THEN s[i] ELSE t[i - Len(s)]
    OBVIOUS
  <1>2. Elems(s \o t) \subseteq Elems(s) \union Elems(t)
    BY <1>1 DEF Elems
  <1>3. Elems(s) \subseteq Elems(s \o t)
    BY <1>1 DEF Elems
  <1>4. ASSUME NEW x \in Elems(t) PROVE x \in Elems(s \o t)
    <2>1. PICK i \in DOMAIN t : t[i] = x
      BY DEF Elems
    <2>2. i + Len(s) \in DOMAIN (s \o t) /\ (s \o t)[i + Len(s)] = x
      BY <1>1, <2>1
    <2> QED
      BY <2>2 DEF Elems
  <1>5. Distinct(s \o t)
    <2> DEFINE u == s \o t
    <2>1. /\ DOMAIN u = 1 .. Len(s) + Len(t)
          /\ \A i \in DOMAIN u : u[i] = IF i <= Len(s) THEN s[i] ELSE t[i - Len(s)]
      BY <1>1
    <2> HIDE DEF u
    <2>2. ASSUME NEW i \in DOMAIN u, NEW j \in DOMAIN u, u[i] = u[j], i <= Len(s)
          PROVE  i = j
      <3>1. i \in DOMAIN s /\ u[i] = s[i] /\ u[i] \in Elems(s)
        BY <1>1, <2>1, <2>2 DEF Elems
      <3>2. CASE j <= Len(s)
        <4>1. j \in DOMAIN s /\ u[j] = s[j]
          BY <1>1, <2>1, <3>2
        <4> QED
          BY <2>2, <3>1, <4>1 DEF Distinct
      <3>3. CASE ~(j <= Len(s))
        <4>1. j - Len(s) \in DOMAIN t /\ u[j] = t[j - Len(s)]
          BY <1>1, <2>1, <3>3
        <4>2. u[j] \in Elems(t)
          BY <4>1 DEF Elems
        <4> QED
          BY <2>2, <3>1, <4>2
      <3> QED
        BY <3>2, <3>3
    <2>3. ASSUME NEW i \in DOMAIN u, NEW j \in DOMAIN u, u[i] = u[j],
                 ~(i <= Len(s)), ~(j <= Len(s))
          PROVE  i = j
      <3>1. /\ i - Len(s) \in DOMAIN t /\ u[i] = t[i - Len(s)]
            /\ j - Len(s) \in DOMAIN t /\ u[j] = t[j - Len(s)]
        BY <1>1, <2>1, <2>3
      <3>2. t[i - Len(s)] = t[j - Len(s)]
        BY <2>3, <3>1
      <3>3. i - Len(s) = j - Len(s)
        BY <3>1, <3>2, Zenon DEF Distinct
      <3>4. i \in Int /\ j \in Int /\ Len(s) \in Int
        BY <1>1, <2>1
      <3> QED
        BY <3>3, <3>4
    <2>4. \A i, j \in DOMAIN u : u[i] = u[j] => i = j
      BY <2>2, <2>3
    <2> QED
      BY <2>4 DEF u, Distinct
  <1> QED
    BY <1>1, <1>2, <1>3, <1>4, <1>5

\* What the concatenation of two lists holds.
LEMMA Concatenation ==
    ASSUME NEW S, NEW s \in Seq(S), NEW t \in Seq(S)
    PROVE  /\ s \o t \in Seq(S) /\ Len(s \o t) = Len(s) + Len(t)
           /\ \A k \in 1 .. Len(s) + Len(t) :
                 (s \o t)[k] = IF k <= Len(s) THEN s[k] ELSE t[k - Len(s)]
  OBVIOUS

\* The graph is finite.
LEMMA EdgesFinite ==
    ASSUME GraphInv
    PROVE  IsFiniteSet(nodes) /\ IsFiniteSet(edges)
  <1>1. IsFiniteSet(Ids) /\ IsFiniteSet(1 .. MaxCopies) /\ MaxCopies \in Nat
    BY TopoAssumption, FS_Interval
  <1>2. IsFiniteSet((Ids \X Ids) \X (1 .. MaxCopies))
    BY <1>1, FS_Product
  <1> DEFINE Flatten == [x \in (Ids \X Ids) \X (1 .. MaxCopies) |-> <<x[1][1], x[1][2], x[2]>>]
             Flat == {Flatten[x] : x \in (Ids \X Ids) \X (1 .. MaxCopies)}
  <1>3. IsFiniteSet(Flat)
    <2>1. Flatten \in Surjection((Ids \X Ids) \X (1 .. MaxCopies), Flat)
      BY Zenon DEF Surjection
    <2> QED
      BY <1>2, <2>1, FS_Surjection
  <1>4. edges \in SUBSET Flat
    <2> SUFFICES ASSUME NEW e \in edges PROVE e \in Flat
      OBVIOUS
    <2>1. e[1] \in Ids /\ e[2] \in Ids /\ e[3] \in 1 .. MaxCopies /\ e = <<e[1], e[2], e[3]>>
      BY DEF GraphInv
    <2>2. <<<<e[1], e[2]>>, e[3]>> \in (Ids \X Ids) \X (1 .. MaxCopies)
      BY <2>1
    <2> QED
      BY <2>1, <2>2
  <1> QED
    BY <1>1, <1>3, <1>4, FS_Subset DEF GraphInv

-----------------------------------------------------------------------------
\* The queue is seeded with the nodes that have no known parent.
LEMMA CountKahn == DInv /\ Count => KahnInv'
  <1> SUFFICES ASSUME DInv, Count PROVE KahnInv'
    OBVIOUS
  <1>1. /\ pc = "count" /\ pc' = "kahn" /\ UNCHANGED <<nodes, edges, result>> /\ result = <<>>
        /\ inDegree' = [n \in nodes |-> Cardinality(Into(n))]
        /\ queue' \in Sorted({n \in nodes : inDegree'[n] = 0})
    BY DEF Count, DInv, KahnInv
  <1>2. IsFiniteSet(nodes) /\ IsFiniteSet(edges) /\ nodes \in SUBSET Ids
    BY EdgesFinite DEF DInv, GraphInv
  <1>3. \A n : /\ Pending(n)' = Into(n)
              /\ IsFiniteSet(Into(n))
    <2>1. \A n : Into(n) \in SUBSET edges
      BY DEF Into, Known
    <2>2. \A n : IsFiniteSet(Into(n))
      BY <1>2, <2>1, FS_Subset
    <2>3. Elems(<<>>) = {}
      BY DEF Elems
    <2>4. \A n : Into(n)' = Into(n)
      BY <1>1 DEF Into, Known
    <2>5. \A n : Pending(n)' = Into(n)'
      BY <1>1, <2>3 DEF Pending
    <2> QED
      BY <2>2, <2>4, <2>5
  <1> DEFINE Free == {n \in nodes : Into(n) = {}}
  <1>4. {n \in nodes : inDegree'[n] = 0} = Free
    <2>1. \A n \in nodes : inDegree'[n] = Cardinality(Into(n))
      BY <1>1
    <2>2. \A n \in nodes : Cardinality(Into(n)) = 0 <=> Into(n) = {}
      BY <1>3, FS_EmptySet
    <2> QED
      BY <2>1, <2>2
  <1>5. queue' \in Seq(Free) /\ Elems(queue') = Free /\ Distinct(queue')
    <2>1. Free \in SUBSET Ids /\ IsFiniteSet(Free)
      BY <1>2, FS_Subset
    <2> HIDE DEF Free
    <2> QED
      BY <1>1, <1>4, <2>1, SortedLists
  <1>6. queue' \in Seq(nodes)
    <2>1. Free \subseteq nodes
      OBVIOUS
    <2> HIDE DEF Free
    <2> QED
      BY <1>5, <2>1
  <1>7. LinearExtension' /\ Elems(result') = {}
    BY <1>1 DEF LinearExtension, Elems
  <1>8. Elems(queue') = {n \in nodes : Pending(n)' = {}} \ Elems(result')
    BY <1>3, <1>5, <1>7
  <1>9. inDegree' = [n \in nodes |-> Cardinality(Pending(n)')]
    BY <1>1, <1>3
  <1> QED
    BY <1>1, <1>5, <1>6, <1>7, <1>8, <1>9 DEF KahnInv

\* A turn sorts one node whose parents are sorted, and queues those it frees.
LEMMA PopKahn == DInv /\ Pop => KahnInv'
  <1> SUFFICES ASSUME DInv, Pop PROVE KahnInv'
    OBVIOUS
  <1> DEFINE p == Head(queue)
             freed == {n \in nodes : inDegree[n] > 0 /\ inDegree'[n] = 0}
             Turn(n) == From(p) \intersect Into(n)
  <1>1. /\ pc = "kahn" /\ queue # <<>> /\ result' = Append(result, p)
        /\ inDegree' = [n \in nodes |-> inDegree[n] - Cardinality(Turn(n))]
        /\ UNCHANGED <<nodes, edges, pc>>
    BY DEF Pop
  <1>2. PICK s \in Sorted(freed) : queue' = Tail(queue) \o s
    BY DEF Pop
  <1>3. /\ result \in Seq(nodes) /\ LinearExtension /\ Distinct(result)
        /\ inDegree = [n \in nodes |-> Cardinality(Pending(n))]
        /\ queue \in Seq(nodes) /\ Distinct(queue)
        /\ Elems(queue) = {n \in nodes : Pending(n) = {}} \ Elems(result)
    BY <1>1 DEF DInv, KahnInv, LinearExtension, Distinct
  <1>4. /\ p \in nodes /\ p \notin Elems(result) /\ Pending(p) = {}
        /\ Tail(queue) \in Seq(nodes) /\ Distinct(Tail(queue))
        /\ Elems(Tail(queue)) = Elems(queue) \ {p}
    <2>1. /\ p \in Elems(queue) /\ Tail(queue) \in Seq(nodes) /\ Distinct(Tail(queue))
          /\ Elems(Tail(queue)) = Elems(queue) \ {p}
      BY <1>1, <1>3, Popped
    <2> QED
      BY <1>3, <2>1
  <1>5. /\ result' \in Seq(nodes) /\ Distinct(result')
        /\ Elems(result') = Elems(result) \union {p}
        /\ DOMAIN result' = DOMAIN result \union {Len(result) + 1}
        /\ DOMAIN result = 1 .. Len(result) /\ result'[Len(result) + 1] = p
        /\ \A i \in DOMAIN result : result'[i] = result[i]
    <2> HIDE DEF p
    <2> QED
      BY <1>1, <1>3, <1>4, Appended
  <1>6. IsFiniteSet(nodes) /\ IsFiniteSet(edges) /\ nodes \in SUBSET Ids
    BY EdgesFinite DEF DInv, GraphInv
  <1>7. \A n : /\ Into(n)' = Into(n)
              /\ Pending(n)' = Pending(n) \ Turn(n)
              /\ Turn(n) \subseteq Pending(n)
    <2>1. \A n : Into(n)' = Into(n)
      BY <1>1 DEF Into, Known
    <2>2. \A n : Turn(n) = {e \in Into(n) : e[1] = p}
      BY DEF From, Into
    <2>3. \A n : Pending(n)' = {e \in Into(n)' : e[1] \notin Elems(result')}
      BY DEF Pending
    <2> HIDE DEF p, Turn
    <2> QED
      BY <1>4, <1>5, <2>1, <2>2, <2>3 DEF Pending
  <1>8. \A n : /\ IsFiniteSet(Pending(n)) /\ IsFiniteSet(Pending(n)')
              /\ Cardinality(Pending(n)') = Cardinality(Pending(n)) - Cardinality(Turn(n))
    <2> SUFFICES ASSUME NEW n
                 PROVE  /\ IsFiniteSet(Pending(n)) /\ IsFiniteSet(Pending(n)')
                        /\ Cardinality(Pending(n)')
                             = Cardinality(Pending(n)) - Cardinality(Turn(n))
      OBVIOUS
    <2>1. Pending(n) \in SUBSET edges
      BY DEF Pending, Into, Known
    <2>2. IsFiniteSet(Pending(n))
      BY <1>6, <2>1, FS_Subset
    <2>3. Pending(n) \intersect Turn(n) = Turn(n) /\ Pending(n)' = Pending(n) \ Turn(n)
      BY <1>7
    <2> HIDE DEF Turn
    <2> QED
      BY <2>2, <2>3, FS_Difference
  <1>9. \A n \in nodes : inDegree[n] = Cardinality(Pending(n))
                       /\ inDegree'[n] = Cardinality(Pending(n)')
    BY <1>1, <1>3, <1>8
  <1>10. freed = {n \in nodes : Pending(n) # {} /\ Pending(n)' = {}}
    <2>1. \A S : IsFiniteSet(S) => Cardinality(S) \in Nat /\ (Cardinality(S) = 0 <=> S = {})
      BY FS_EmptySet, FS_CardinalityType
    <2>2. ASSUME NEW n \in nodes
          PROVE  /\ inDegree[n] > 0 <=> Pending(n) # {}
                 /\ inDegree'[n] = 0 <=> Pending(n)' = {}
      <3>1. Cardinality(Pending(n)) \in Nat /\ (Cardinality(Pending(n)) = 0 <=> Pending(n) = {})
        BY <1>8, <2>1, Zenon
      <3>2. Cardinality(Pending(n)') = 0 <=> Pending(n)' = {}
        BY <1>8, <2>1, Zenon
      <3> QED
        BY <1>9, <3>1, <3>2
    <2> QED
      BY <2>2
  <1>11. s \in Seq(nodes) /\ Elems(s) = freed /\ Distinct(s)
    <2>1. freed \in SUBSET Ids /\ freed \in SUBSET nodes /\ IsFiniteSet(freed)
      BY <1>6, FS_Subset
    <2> HIDE DEF freed
    <2>2. s \in Seq(freed) /\ Elems(s) = freed /\ Distinct(s)
      BY <2>1, SortedLists
    <2> QED
      BY <2>1, <2>2
  <1>12. /\ queue' \in Seq(nodes) /\ Distinct(queue')
         /\ Elems(queue') = Elems(Tail(queue)) \union freed
    <2>1. Elems(Tail(queue)) \intersect Elems(s) = {}
      BY <1>3, <1>4, <1>10, <1>11
    <2> DEFINE t == Tail(queue)
    <2>2. t \in Seq(nodes) /\ Distinct(t) /\ Elems(t) \intersect Elems(s) = {}
      BY <1>4, <2>1
    <2>3. queue' = t \o s /\ Elems(s) = freed
      BY <1>2, <1>11
    <2> HIDE DEF freed, t
    <2>4. t \o s \in Seq(nodes) /\ Distinct(t \o s) /\ Elems(t \o s) = Elems(t) \union Elems(s)
      BY <1>11, <2>2, Joined
    <2>5. /\ queue' \in Seq(nodes) /\ Distinct(queue')
          /\ Elems(queue') = Elems(t) \union freed
      BY <2>3, <2>4
    <2> QED
      BY <2>5 DEF t
  <1>13. Elems(queue') = {n \in nodes : Pending(n)' = {}} \ Elems(result')
    <2>1. \A n : Pending(n) = {} => Pending(n)' = {}
      BY <1>7
    <2>2. \A n \in freed : n \notin Elems(result')
      <3> SUFFICES ASSUME NEW n \in freed PROVE n \notin Elems(result')
        OBVIOUS
      <3>1. Pending(n) # {}
        BY <1>10
      <3>2. n # p
        BY <1>4, <3>1
      <3>3. n \notin Elems(result)
        <4> SUFFICES ASSUME NEW i \in DOMAIN result, result[i] = n PROVE FALSE
          BY DEF Elems
        <4>1. \A e \in Into(n) : e[1] \in Elems(result)
          <5>1. \A e \in Into(n) : \E j \in 1 .. i - 1 : result[j] = e[1]
            BY <1>3 DEF LinearExtension
          <5>2. 1 .. i - 1 \subseteq DOMAIN result
            BY <1>5
          <5> QED
            BY <5>1, <5>2 DEF Elems
        <4> QED
          BY <3>1, <4>1 DEF Pending
      <3> QED
        BY <1>5, <3>2, <3>3
    <2> HIDE DEF p, freed
    <2> QED
      BY <1>3, <1>4, <1>5, <1>10, <1>12, <2>1, <2>2
  <1>14. LinearExtension'
    <2>1. \A i \in DOMAIN result : \A e \in Into(result[i]) :
             \E j \in 1 .. i - 1 : result'[j] = e[1]
      <3> SUFFICES ASSUME NEW i \in DOMAIN result, NEW e \in Into(result[i])
                   PROVE  \E j \in 1 .. i - 1 : result'[j] = e[1]
        OBVIOUS
      <3>1. PICK j \in 1 .. i - 1 : result[j] = e[1]
        BY <1>3 DEF LinearExtension
      <3>2. j \in DOMAIN result
        BY <1>5
      <3> QED
        BY <1>5, <3>1, <3>2
    <2>2. \A e \in Into(p) : \E j \in 1 .. Len(result) : result'[j] = e[1]
      <3> SUFFICES ASSUME NEW e \in Into(p)
                   PROVE  \E j \in 1 .. Len(result) : result'[j] = e[1]
        OBVIOUS
      <3>1. e[1] \in Elems(result)
        BY <1>4 DEF Pending
      <3> QED
        BY <1>5, <3>1 DEF Elems
    <2>3. ASSUME NEW i \in DOMAIN result', NEW e \in Into(result'[i])
          PROVE  \E j \in 1 .. i - 1 : result'[j] = e[1]
      <3> HIDE DEF p
      <3>1. CASE i \in DOMAIN result
        BY <1>5, <2>1, <3>1
      <3>2. CASE i = Len(result) + 1
        <4>1. e \in Into(p) /\ i - 1 = Len(result)
          BY <1>3, <1>5, <3>2
        <4> QED
          BY <2>2, <4>1
      <3> QED
        BY <1>5, <3>1, <3>2
    <2>4. \A i \in DOMAIN result' : \A e \in Into(result[i])' :
             \E j \in 1 .. i - 1 : result'[j] = e[1]
      BY <1>1, <2>3 DEF Into, Known
    <2> QED
      BY <1>5, <2>4 DEF LinearExtension, Distinct
  <1>15. inDegree' = [n \in nodes |-> Cardinality(Pending(n)')]
    BY <1>1, <1>9
  <1> QED
    BY <1>1, <1>5, <1>12, <1>13, <1>14, <1>15 DEF KahnInv

\* The loop is over: all nodes are sorted, or those left wait for one another.
LEMMA FinishKahn == DInv /\ Finish => KahnInv'
  <1> SUFFICES ASSUME DInv, Finish PROVE KahnInv'
    OBVIOUS
  <1>1. /\ pc = "kahn" /\ queue = <<>>
        /\ pc' = IF Len(result) = Cardinality(nodes) THEN "returned" ELSE "raised"
        /\ UNCHANGED <<nodes, edges, inDegree, queue, result>>
    BY DEF Finish
  <1>2. /\ result \in Seq(nodes) /\ LinearExtension /\ Distinct(result)
        /\ Elems(queue) = {n \in nodes : Pending(n) = {}} \ Elems(result)
    BY <1>1 DEF DInv, KahnInv, LinearExtension, Distinct
  <1>3. /\ IsFiniteSet(nodes) /\ Elems(result) \in SUBSET nodes
        /\ Cardinality(Elems(result)) = Len(result)
    <2>1. IsFiniteSet(nodes)
      BY EdgesFinite DEF DInv
    <2>2. Elems(result) \in SUBSET nodes
      BY <1>2 DEF Elems
    <2>3. Cardinality(Elems(result)) = Len(result)
      BY <1>2, DistinctLength
    <2> QED
      BY <2>1, <2>2, <2>3
  <1>4. LinearExtension'
    BY <1>1, <1>2 DEF LinearExtension, Into, Known
  <1>5. CASE Len(result) = Cardinality(nodes)
    <2>1. Elems(result) = nodes
      BY <1>3, <1>5, FS_Subset
    <2> QED
      BY <1>1, <1>2, <1>4, <1>5, <2>1 DEF KahnInv
  <1>6. CASE Len(result) # Cardinality(nodes)
    <2> DEFINE S == nodes \ Elems(result)
    <2>1. S \in SUBSET nodes /\ S # {}
      BY <1>3, <1>6
    <2>2. \A n \in S : \E e \in Into(n) : e[1] \in S
      <3> SUFFICES ASSUME NEW n \in S PROVE \E e \in Into(n) : e[1] \in S
        OBVIOUS
      <3>1. Elems(queue) = {}
        BY <1>1 DEF Elems
      <3>2. PICK e \in Pending(n) : TRUE
        BY <1>2, <3>1
      <3>3. e \in Into(n) /\ e[1] \in nodes /\ e[1] \notin Elems(result)
        BY <3>2 DEF Pending, Into, Known
      <3> QED
        BY <3>3
    <2>3. Stuck
      BY <2>1, <2>2 DEF Stuck
    <2>4. Stuck'
      BY <1>1, <2>3 DEF Stuck, Into, Known
    <2> QED
      BY <1>1, <1>2, <1>4, <1>6, <2>4 DEF KahnInv
  <1> QED
    BY <1>5, <1>6

-----------------------------------------------------------------------------
\* The nodes of a child DAG, and who waits for whom in it.
LEMMA NodeShape ==
    ASSUME ShapeInv
    PROVE  /\ CompIds \in SUBSET Comp /\ Width \in Nat /\ Terminal = Width + 1
           /\ NodeIds = CompIds \union {Width + 1 + c : c \in CompIds} \union {Terminal}
           /\ NodeIds \in SUBSET Ids
  <1>1. child.composites \in UNION {[1 .. n -> Comp] : n \in 0 .. MaxComposites + 1}
    BY DEF ShapeInv, ChildDAGSpec
  <1>2. CompIds \in SUBSET Comp
    BY <1>1 DEF CompIds, Elems
  <1>3. NodeIds = CompIds \union {Width + 1 + c : c \in CompIds} \union {Terminal}
    BY DEF NodeIds, CodingOf, ReviewOf
  <1>4. Width \in Nat /\ Ids = 0 .. 2 * Width + 1 /\ Terminal = Width + 1
    BY ChildDagAssumption DEF Terminal
  <1>5. NodeIds \in SUBSET Ids
    <2>1. \A c \in CompIds : c \in 1 .. Width
      BY <1>2 DEF Comp
    <2>2. \A c \in CompIds : c \in Ids /\ Width + 1 + c \in Ids
      BY <1>4, <2>1
    <2>3. Terminal \in Ids
      BY <1>4
    <2> QED
      BY <1>3, <2>2, <2>3
  <1> QED
    BY <1>2, <1>3, <1>4, <1>5

\* Whether p occurs in the list of n.
Waits(n, p) == \E e \in Into(n) : e[1] = p

\* Into, in terms of the parent lists that _build_child_dag_nodes writes.
LEMMA Waiting ==
    ASSUME ShapeInv, step = "sort"
    PROVE  /\ nodes = NodeIds
           /\ \A n \in NodeIds, p \in NodeIds : Waits(n, p) <=> ParentsOf(n)[p] >= 1
           /\ \A n, p : Waits(n, p) => p \in NodeIds
  <1> DEFINE m == [e \in Ids \X NodeIds |-> ParentsOf(e[2])[e[1]]]
  <1>1. nodes = NodeIds /\ edges = Lists(m, NodeIds)
    BY DEF ShapeInv
  <1>2. \A n \in NodeIds, p \in Ids : m[<<p, n>>] = ParentsOf(n)[p]
    OBVIOUS
  <1>3. NodeIds \in SUBSET Ids /\ MaxCopies \in Nat \ {0}
    BY NodeShape, TopoAssumption
  <1> HIDE DEF m
  <1>4. \A n \in NodeIds, p \in NodeIds : Waits(n, p) => ParentsOf(n)[p] >= 1
    <2> SUFFICES ASSUME NEW n \in NodeIds, NEW p \in NodeIds, NEW e \in Into(n), e[1] = p
                 PROVE  ParentsOf(n)[p] >= 1
      BY DEF Waits
    <2>1. e \in Lists(m, NodeIds) /\ e[2] = n
      BY <1>1 DEF Into, Known
    <2>2. e[3] \in 1 .. MaxCopies /\ e[3] <= m[<<p, n>>] /\ m[<<p, n>>] = ParentsOf(n)[p]
      BY <1>2, <1>3, <2>1 DEF Lists
    <2>3. ParentsOf(n)[p] \in Int
      <3>1. /\ child.edges \in [Comp \X Comp -> 0 .. MaxCopies] /\ CompIds \in SUBSET Comp
            /\ Width \in Nat /\ Terminal = Width + 1 /\ p \in Ids /\ Ids = 0 .. 2 * Width + 1
        BY NodeShape, <1>3, ChildDagAssumption DEF ShapeInv, ChildDAGSpec
      <3>2. n \in Comp /\ p > Terminal => child.edges[<<p - Terminal, n>>] \in Int
        <4> SUFFICES ASSUME n \in Comp, p > Terminal
                     PROVE  child.edges[<<p - Terminal, n>>] \in Int
          OBVIOUS
        <4>1. p - Terminal \in Comp
          BY <3>1 DEF Comp
        <4>2. child.edges[<<p - Terminal, n>>] \in 0 .. MaxCopies
          BY <3>1, <4>1
        <4> QED
          BY <1>3, <4>2
      <3> QED
        BY <3>1, <3>2 DEF ParentsOf
    <2> QED
      BY <2>2, <2>3
  <1>5. \A n \in NodeIds, p \in NodeIds : ParentsOf(n)[p] >= 1 => Waits(n, p)
    <2> SUFFICES ASSUME NEW n \in NodeIds, NEW p \in NodeIds, ParentsOf(n)[p] >= 1
                 PROVE  Waits(n, p)
      OBVIOUS
    <2>1. <<p, n, 1>> \in Lists(m, NodeIds)
      BY <1>2, <1>3 DEF Lists
    <2>2. <<p, n, 1>> \in Into(n)
      BY <1>1, <2>1 DEF Into, Known
    <2> QED
      BY <2>2 DEF Waits
  <1>6. \A n, p : Waits(n, p) => p \in NodeIds
    BY <1>1 DEF Waits, Into, Known
  <1> QED
    BY <1>1, <1>4, <1>5, <1>6

\* A Review waits for its Coding node, a Coding node for the Reviews of the
\* composites before it, the terminal Plan for all Reviews; nobody for anyone else.
LEMMA WhoWaits ==
    ASSUME ShapeInv, step = "sort"
    PROVE  /\ \A c \in CompIds : \A p : Waits(ReviewOf(c), p) <=> p = c
           /\ \A c \in CompIds : \A p : Waits(c, p) <=>
                 \E b \in CompIds : p = ReviewOf(b) /\ child.edges[<<b, c>>] > 0
           /\ \A p : Waits(Terminal, p) <=> \E c \in CompIds : p = ReviewOf(c)
  <1>1. /\ CompIds \in SUBSET Comp /\ Comp = 1 .. Width /\ Width \in Nat /\ Terminal = Width + 1
        /\ NodeIds = CompIds \union {Width + 1 + c : c \in CompIds} \union {Terminal}
        /\ NodeIds \in SUBSET Ids
        /\ \A c : ReviewOf(c) = Width + 1 + c
        /\ child.edges \in [Comp \X Comp -> 0 .. MaxCopies]
        /\ MaxCopies \in Nat
    BY NodeShape, TopoAssumption DEF Comp, ReviewOf, Terminal, ShapeInv, ChildDAGSpec
  <1>2. /\ \A n \in NodeIds, p \in NodeIds : Waits(n, p) <=> ParentsOf(n)[p] >= 1
        /\ \A n, p : Waits(n, p) => p \in NodeIds
    BY Waiting
  <1>3. ASSUME NEW c \in CompIds, NEW p PROVE Waits(ReviewOf(c), p) <=> p = c
    <2>1. ReviewOf(c) \in NodeIds /\ c \in NodeIds /\ ReviewOf(c) \notin Comp
          /\ ReviewOf(c) # Terminal
      BY <1>1
    <2>2. \A q \in NodeIds : ParentsOf(ReviewOf(c))[q] = IF q = c THEN 1 ELSE 0
      <3> SUFFICES ASSUME NEW q \in NodeIds
                   PROVE  ParentsOf(ReviewOf(c))[q] = IF q = c THEN 1 ELSE 0
        OBVIOUS
      <3>1. q \in Ids /\ q \in Int /\ c \in Int
        BY <1>1, TopoAssumption
      <3>2. ReviewOf(c) = ReviewOf(q) <=> q = c
        BY <1>1, <3>1
      <3> QED
        BY <2>1, <3>1, <3>2 DEF ParentsOf
    <2> QED
      BY <1>2, <2>1, <2>2
  <1>4. ASSUME NEW c \in CompIds, NEW p
        PROVE  Waits(c, p) <=> \E b \in CompIds : p = ReviewOf(b) /\ child.edges[<<b, c>>] > 0
    <2>1. c \in NodeIds /\ c \in Comp
      BY <1>1
    <2>2. \A b \in CompIds : ParentsOf(c)[ReviewOf(b)] = child.edges[<<b, c>>]
                           /\ child.edges[<<b, c>>] \in Int
      <3> SUFFICES ASSUME NEW b \in CompIds
                   PROVE  /\ ParentsOf(c)[ReviewOf(b)] = child.edges[<<b, c>>]
                          /\ child.edges[<<b, c>>] \in Int
        OBVIOUS
      <3>1. /\ ReviewOf(b) \in Ids /\ ReviewOf(b) # ParentPlan /\ ReviewOf(b) > Terminal
            /\ ReviewOf(b) - Terminal = b /\ b \in Comp
        BY <1>1 DEF ParentPlan
      <3> QED
        BY <1>1, <2>1, <3>1 DEF ParentsOf
    <2>3. \A q \in CompIds \union {Terminal} : ParentsOf(c)[q] = 0
      <3> SUFFICES ASSUME NEW q \in CompIds \union {Terminal} PROVE ParentsOf(c)[q] = 0
        OBVIOUS
      <3>1. q \in Ids /\ q # ParentPlan /\ ~(q > Terminal)
        BY <1>1 DEF ParentPlan
      <3> QED
        BY <1>1, <2>1, <3>1 DEF ParentsOf
    <2>4. \A q \in NodeIds : \/ q \in CompIds \union {Terminal}
                            \/ \E b \in CompIds : q = ReviewOf(b)
      BY <1>1
    <2>5. \A b \in CompIds : ReviewOf(b) \in NodeIds
      BY <1>1
    <2>6. ASSUME Waits(c, p)
          PROVE  \E b \in CompIds : p = ReviewOf(b) /\ child.edges[<<b, c>>] > 0
      <3>1. p \in NodeIds /\ ParentsOf(c)[p] >= 1
        BY <1>2, <2>1, <2>6
      <3>2. PICK b \in CompIds : p = ReviewOf(b)
        BY <2>3, <2>4, <3>1
      <3> QED
        BY <2>2, <3>1, <3>2
    <2>7. ASSUME NEW b \in CompIds, p = ReviewOf(b), child.edges[<<b, c>>] > 0
          PROVE  Waits(c, p)
      BY <1>2, <2>1, <2>2, <2>5, <2>7
    <2> QED
      BY <2>6, <2>7
  <1>5. ASSUME NEW p PROVE Waits(Terminal, p) <=> \E c \in CompIds : p = ReviewOf(c)
    <2>1. Terminal \in NodeIds /\ Terminal \notin Comp
      BY <1>1
    <2>2. \A q \in NodeIds : ParentsOf(Terminal)[q]
                             = IF \E c \in CompIds : q = ReviewOf(c) THEN 1 ELSE 0
      BY <1>1, <2>1 DEF ParentsOf
    <2>3. \A c \in CompIds : ReviewOf(c) \in NodeIds
      BY <1>1
    <2> QED
      BY <1>2, <2>1, <2>2, <2>3
  <1> QED
    BY <1>3, <1>4, <1>5

-----------------------------------------------------------------------------
\* The start.
LEMMA InitDInv == SpawnInit => DInv
  BY DEF SpawnInit, DInv, GraphInv, KahnInv, ShapeInv, LinearExtension

\* Steps of _spawn_child_dag before the sort.
LEMMA SpawnDInv ==
    ASSUME DInv, Validate \/ Build \/ Insert
    PROVE  DInv'
  <1> USE DEF DInv
  <1>1. /\ step # "sort" /\ pc = "count" /\ pc' = "count" /\ result = <<>> /\ result' = <<>>
        /\ child' = child
    BY DEF Validate, Build, Insert, vars, ShapeInv, KahnInv
  <1>2. KahnInv'
    BY <1>1 DEF KahnInv, LinearExtension
  <1>3. CASE Validate \/ Insert
    <2>1. /\ UNCHANGED <<nodes, edges>>
          /\ step' \in {"persist", "sort"} => step = "persist"
      BY <1>3 DEF Validate, Insert, vars
    <2>2. GraphInv' /\ ShapeInv'
      BY <1>1, <2>1 DEF GraphInv, ShapeInv, NodeIds, CompIds, Lists, ParentsOf
    <2> QED
      BY <1>2, <2>2
  <1>4. CASE Build
    <2>1. /\ nodes' = NodeIds
          /\ edges' = Lists([e \in Ids \X NodeIds |-> ParentsOf(e[2])[e[1]]], NodeIds)
      BY <1>4 DEF Build
    <2>2. NodeIds \in SUBSET Ids
      BY NodeShape
    <2>3. GraphInv'
      BY <2>1, <2>2 DEF GraphInv, Lists
    <2>4. ShapeInv'
      BY <1>1, <2>1 DEF ShapeInv, NodeIds, CompIds, Lists, ParentsOf
    <2> QED
      BY <1>2, <2>3, <2>4
  <1> QED
    BY <1>3, <1>4

\* Steps of the sort change neither the graph nor the spec.
LEMMA SortDInv ==
    ASSUME DInv, Sort
    PROVE  DInv'
  <1>1. /\ step = "sort" /\ UNCHANGED <<nodes, edges, child, step, rows>>
        /\ Count \/ Pop \/ Finish
    BY DEF Sort, childVars, Count, Pop, Finish
  <1>2. KahnInv'
    BY <1>1, CountKahn, PopKahn, FinishKahn
  <1>3. GraphInv' /\ ShapeInv'
    BY <1>1 DEF DInv, GraphInv, ShapeInv, NodeIds, CompIds, Lists, ParentsOf
  <1> QED
    BY <1>2, <1>3 DEF DInv

\* The invariant of the spawning.
THEOREM DInvHolds == ChildSpec => []DInv
  <1>1. DInv /\ [ChildNext]_<<vars, childVars>> => DInv'
    <2> SUFFICES ASSUME DInv, [ChildNext]_<<vars, childVars>> PROVE DInv'
      OBVIOUS
    <2>1. CASE UNCHANGED <<vars, childVars>>
      <3>1. UNCHANGED <<nodes, edges, inDegree, queue, result, pc, child, step, rows>>
        BY <2>1 DEF vars, childVars
      <3>2. GraphInv' /\ ShapeInv'
        BY <3>1 DEF DInv, GraphInv, ShapeInv, NodeIds, CompIds, Lists, ParentsOf
      <3>3. (LinearExtension => LinearExtension') /\ (Stuck => Stuck')
        BY <3>1 DEF LinearExtension, Stuck, Into, Known
      <3>4. \A n : Pending(n)' = Pending(n)
        BY <3>1 DEF Pending, Into, Known
      <3>5. KahnInv'
        BY <3>1, <3>3, <3>4 DEF DInv, KahnInv
      <3> QED
        BY <3>2, <3>5 DEF DInv
    <2> QED
      BY <2>1, SpawnDInv, SortDInv DEF ChildNext, Spawned
  <1> QED
    BY InitDInv, <1>1, PTL DEF ChildSpec

\* The order of topological_sort is a linear extension of the parent lists, at
\* every moment and for every child DAG.
THEOREM SortExtends == ChildSpec => []LinearExtension
  <1>1. DInv => LinearExtension
    BY DEF DInv, KahnInv
  <1> QED
    BY DInvHolds, <1>1, PTL

-----------------------------------------------------------------------------
Below == OpToRel(<, Nat)

\* Less-than as a relation.
LEMMA BelowIsLess == \A x, y \in Nat : <<x, y>> \in Below <=> x < y
  BY SMT DEF Below, OpToRel

\* A set of naturals that is not empty has a least element.
LEMMA Least ==
    ASSUME NEW T \in SUBSET Nat, T # {}
    PROVE  \E x \in T : \A y \in T : x <= y
  <1>1. IsWellFoundedOn(Below, Nat)
    BY NatLessThanWellFounded, Zenon DEF Below
  <1>2. \E x \in T : \A y \in T : <<y, x>> \notin Below
    BY <1>1, WFMin, Zenon
  <1>3. \A x, y \in T : <<y, x>> \notin Below => x <= y
    BY BelowIsLess, SMT
  <1> QED
    BY <1>2, <1>3

\* Nodes that wait for one another hold composites that do.
LEMMA StuckIsCyclic ==
    ASSUME DInv, pc = "raised"
    PROVE  CyclicComposites
  <1>1. PICK S \in SUBSET nodes : S # {} /\ \A n \in S : \E e \in Into(n) : e[1] \in S
    BY DEF DInv, KahnInv, Stuck
  <1>2. step = "sort" /\ ShapeInv
    BY DEF DInv, ShapeInv
  <1>3. \A n \in S : \E p \in S : Waits(n, p)
    BY <1>1 DEF Waits
  <1>4. \A n \in S : n = Terminal \/ n \in CompIds \/ \E c \in CompIds : n = ReviewOf(c)
    BY <1>2, Waiting DEF NodeIds, CodingOf
  <1> DEFINE C == S \intersect CompIds
  <1>5. \A c \in CompIds : ReviewOf(c) \in S => c \in C
    BY <1>2, <1>3, WhoWaits
  <1>6. \A c \in C : \E b \in C : child.edges[<<b, c>>] > 0
    BY <1>2, <1>3, <1>5, WhoWaits
  <1>7. C # {}
    <2>1. PICK n \in S : TRUE
      BY <1>1
    <2>2. n = Terminal => \E c \in CompIds : ReviewOf(c) \in S
      BY <1>2, <1>3, WhoWaits
    <2> QED
      BY <1>4, <1>5, <2>1, <2>2
  <1> QED
    BY <1>6, <1>7 DEF CyclicComposites

\* In an order that is complete, whoever waits comes after.
LEMMA OrderOf ==
    ASSUME DInv, pc = "returned"
    PROVE  /\ step = "sort" /\ ShapeInv
           /\ DOMAIN result = 1 .. Len(result) /\ Len(result) \in Nat
           /\ \A i \in DOMAIN result : result[i] \in NodeIds
           /\ \A n \in NodeIds : \E i \in DOMAIN result : result[i] = n
           /\ \A i, j \in DOMAIN result : result[i] = result[j] => i = j
           /\ \A i \in DOMAIN result : \A p : Waits(result[i], p) =>
                 \E j \in DOMAIN result : j < i /\ result[j] = p
  <1>1. step = "sort" /\ ShapeInv /\ nodes = NodeIds
    BY Waiting DEF DInv, ShapeInv
  <1>2. result \in Seq(nodes) /\ LinearExtension /\ Elems(result) = nodes
    BY DEF DInv, KahnInv
  <1>3. DOMAIN result = 1 .. Len(result) /\ Len(result) \in Nat
    BY <1>2
  <1>4. ASSUME NEW i \in DOMAIN result, NEW p, Waits(result[i], p)
        PROVE  \E j \in DOMAIN result : j < i /\ result[j] = p
    <2>1. PICK j \in 1 .. i - 1 : result[j] = p
      BY <1>2, <1>4 DEF Waits, LinearExtension
    <2> QED
      BY <1>3, <2>1
  <1> QED
    BY <1>1, <1>2, <1>3, <1>4 DEF Elems, LinearExtension

\* In a complete order the first of any composites waits for none of them.
LEMMA OrderIsAcyclic ==
    ASSUME DInv, pc = "returned"
    PROVE  ~CyclicComposites
  <1> SUFFICES ASSUME NEW S \in SUBSET CompIds, S # {},
                      \A c \in S : \E b \in S : child.edges[<<b, c>>] > 0
               PROVE  FALSE
    BY DEF CyclicComposites
  <1> DEFINE T == {i \in DOMAIN result : result[i] \in S}
  <1>1. T \in SUBSET Nat /\ T # {}
    <2>1. S \subseteq NodeIds
      BY OrderOf, NodeShape
    <2> QED
      BY <2>1, OrderOf
  <1>2. PICK i \in T : \A j \in T : i <= j
    BY <1>1, Least
  <1>3. PICK b \in S : child.edges[<<b, result[i]>>] > 0
    BY <1>2
  <1>4. Waits(result[i], ReviewOf(b)) /\ Waits(ReviewOf(b), b)
    BY <1>3, OrderOf, WhoWaits
  <1>5. PICK j \in DOMAIN result : j < i /\ result[j] = ReviewOf(b)
    BY <1>4, OrderOf
  <1>6. PICK k \in DOMAIN result : k < j /\ result[k] = b
    BY <1>4, <1>5, OrderOf
  <1>7. k \in T /\ k \in Nat /\ j \in Nat /\ i \in Nat
    BY <1>6, OrderOf
  <1> QED
    BY <1>2, <1>5, <1>6, <1>7

\* The sort of a child DAG fails just when sequential_edges has a cycle.
THEOREM SortFailsIffCyclic == ChildSpec => []SortFailsOnlyOnCycle
  <1>1. DInv => SortFailsOnlyOnCycle
    BY StuckIsCyclic, OrderIsAcyclic DEF SortFailsOnlyOnCycle
  <1> QED
    BY DInvHolds, <1>1, PTL

\* Coding before Review, composites one after the other, the terminal Plan last.
THEOREM OrderIsStandard == ChildSpec => []StandardOrder
  <1>1. DInv => StandardOrder
    <2> SUFFICES ASSUME DInv, pc = "returned" PROVE StandardOrder
      BY DEF StandardOrder
    <2> DEFINE at(n) == CHOOSE i \in DOMAIN result : result[i] = n
    <2>1. \A n \in NodeIds : at(n) \in DOMAIN result /\ result[at(n)] = n
      BY OrderOf
    <2>2. \A n \in NodeIds, i \in DOMAIN result : result[i] = n => i = at(n)
      BY <2>1, OrderOf
    <2> HIDE DEF at
    <2>3. \A n \in NodeIds, p \in NodeIds : Waits(n, p) => at(p) < at(n)
      BY <2>1, <2>2, OrderOf
    <2>4. /\ \A c \in CompIds : c \in NodeIds /\ ReviewOf(c) \in NodeIds
          /\ Terminal \in NodeIds
          /\ \A n \in NodeIds : \/ n = Terminal \/ n \in CompIds
                               \/ \E c \in CompIds : n = ReviewOf(c)
      BY DEF NodeIds, CodingOf
    <2>5. \A c \in CompIds : at(c) < at(ReviewOf(c))
      BY <2>3, <2>4, OrderOf, WhoWaits
    <2>6. \A b, c \in CompIds : child.edges[<<b, c>>] > 0 => at(ReviewOf(b)) < at(c)
      BY <2>3, <2>4, OrderOf, WhoWaits
    <2>7. \A c \in CompIds : at(ReviewOf(c)) < at(Terminal)
      BY <2>3, <2>4, OrderOf, WhoWaits
    <2>8. \A n \in NodeIds : at(n) \in Nat /\ at(n) <= Len(result) /\ Len(result) \in DOMAIN result
      BY <2>1, OrderOf
    <2>9. \A n \in NodeIds : n # Terminal => at(n) < at(Terminal)
      BY <2>4, <2>5, <2>7, <2>8
    <2>10. at(Terminal) = Len(result)
      <3> DEFINE n == result[Len(result)]
      <3>1. n \in NodeIds /\ at(n) = Len(result)
        BY <2>2, <2>4, <2>8, OrderOf
      <3> HIDE DEF n
      <3> QED
        BY <2>4, <2>8, <2>9, <3>1
    <2> QED
      BY <2>5, <2>6, <2>10 DEF StandardOrder, CodingOf, at
  <1> QED
    BY DInvHolds, <1>1, PTL

-----------------------------------------------------------------------------
\* A place in a list of i pairs is before the last pair, or one of its two.
LEMMA PlacesOfPairs ==
    \A i \in Nat : \A k \in 1 .. 2 * i : k <= 2 * (i - 1) \/ k = 2 * i - 1 \/ k = 2 * i
  OBVIOUS

\* FlattenSeq of a list of pairs: no longer a matter of recursion.
LEMMA FlatPairs ==
    ASSUME NEW S, NEW pairs \in Seq(S \X S)
    PROVE  LET n == Len(pairs)
               F == FlattenSeq(pairs)
           IN  /\ F \in Seq(S) /\ Len(F) = 2 * n
               /\ \A i \in 1 .. n : F[2 * i - 1] = pairs[i][1] /\ F[2 * i] = pairs[i][2]
  <1> DEFINE n == Len(pairs)
  <1> n \in Nat /\ pairs \in [1 .. n -> S \X S]
    OBVIOUS
  <1> HIDE DEF n
  <1> DEFINE x == [i \in 1 .. n |-> pairs[i][1]]
             y == [i \in 1 .. n |-> pairs[i][2]]
             seqs == [i \in 1 .. n |-> <<x[i], y[i]>>]
             P == [k \in 1 .. 2 * n |->
                     IF k % 2 = 1 THEN x[(k + 1) \div 2] ELSE y[k \div 2]]
             g == [i \in 1 .. n |-> [k \in 1 .. 2 * i |-> P[k]]]
             Body(f) == [i \in 1 .. Len(seqs) |->
                            IF i = 1 THEN seqs[i] ELSE f[i - 1] \o seqs[i]]
  <1>0. /\ x \in [1 .. n -> S] /\ y \in [1 .. n -> S] /\ pairs = seqs
        /\ \A i \in 1 .. n : x[i] = pairs[i][1] /\ y[i] = pairs[i][2]
    OBVIOUS
  <1> HIDE DEF x, y
  <1>1. Len(seqs) = n /\ seqs \in Seq(S \X S)
    BY <1>0
  <1>2. \A k \in 1 .. 2 * n : \E i \in 1 .. n : k = 2 * i - 1 \/ k = 2 * i
    <2> SUFFICES ASSUME NEW k \in 1 .. 2 * n
                 PROVE  \E i \in 1 .. n : k = 2 * i - 1 \/ k = 2 * i
      OBVIOUS
    <2>1. /\ (k + 1) \div 2 \in 1 .. n
          /\ k = 2 * ((k + 1) \div 2) - 1 \/ k = 2 * ((k + 1) \div 2)
      OBVIOUS
    <2> QED
      BY <2>1
  <1>3. \A i \in 1 .. n : P[2 * i - 1] = x[i] /\ P[2 * i] = y[i]
    <2> SUFFICES ASSUME NEW i \in 1 .. n PROVE P[2 * i - 1] = x[i] /\ P[2 * i] = y[i]
      OBVIOUS
    <2>1. /\ 2 * i - 1 \in 1 .. 2 * n /\ (2 * i - 1) % 2 = 1 /\ ((2 * i - 1) + 1) \div 2 = i
          /\ 2 * i \in 1 .. 2 * n /\ (2 * i) % 2 = 0 /\ (2 * i) \div 2 = i
      OBVIOUS
    <2> QED
      BY <2>1
  <1>4. P \in [1 .. 2 * n -> S]
    <2>1. ASSUME NEW k \in 1 .. 2 * n PROVE P[k] \in S
      BY <1>0, <1>2, <1>3
    <2> QED
      BY <2>1
  <1> HIDE DEF P
  <1>5. \A i \in 1 .. n : i # 1 => g[i] = g[i - 1] \o seqs[i]
    <2> SUFFICES ASSUME NEW i \in 1 .. n, i # 1 PROVE g[i] = g[i - 1] \o seqs[i]
      OBVIOUS
    <2> DEFINE h == g[i - 1]
    <2>1. /\ i - 1 \in 1 .. n /\ h = [k \in 1 .. 2 * (i - 1) |-> P[k]]
          /\ 2 * (i - 1) \in Nat
      OBVIOUS
    <2>2. h \in Seq(S) /\ Len(h) = 2 * (i - 1) /\ \A k \in 1 .. 2 * (i - 1) : h[k] = P[k]
      BY <1>4, <2>1
    <2> HIDE DEF h
    <2>3. h \o <<x[i], y[i]>> = [k \in 1 .. 2 * i |-> P[k]]
      <3> DEFINE z == <<x[i], y[i]>>
                 u == h \o z
      <3>1. z \in Seq(S) /\ Len(z) = 2 /\ z[1] = x[i] /\ z[2] = y[i]
        BY <1>0
      <3> HIDE DEF z
      <3>2. /\ u \in Seq(S) /\ Len(u) = 2 * i /\ DOMAIN u = 1 .. 2 * i
            /\ \A k \in 1 .. 2 * i :
                  u[k] = IF k <= 2 * (i - 1) THEN h[k] ELSE z[k - 2 * (i - 1)]
        <4>1. Len(h) \in Nat /\ Len(h) = 2 * (i - 1) /\ Len(h) + Len(z) = 2 * i
          BY <2>2, <3>1
        <4>2. /\ u \in Seq(S) /\ Len(u) = Len(h) + Len(z)
              /\ \A k \in 1 .. Len(h) + Len(z) :
                    u[k] = IF k <= Len(h) THEN h[k] ELSE z[k - Len(h)]
          <5>1. h \in Seq(S) /\ z \in Seq(S)
            BY <2>2, <3>1
          <5> QED
            BY <5>1, Concatenation
        <4> HIDE DEF u
        <4> QED
          BY <4>1, <4>2
      <3> HIDE DEF u
      <3>3. \A k \in 1 .. 2 * i : u[k] = P[k]
        <4> SUFFICES ASSUME NEW k \in 1 .. 2 * i PROVE u[k] = P[k]
          OBVIOUS
        <4>1. CASE k <= 2 * (i - 1)
          BY <2>2, <3>2, <4>1
        <4>2. CASE k = 2 * i - 1
          <5>1. u[k] = z[1]
            BY <3>2, <4>2
          <5> QED
            BY <1>3, <3>1, <4>2, <5>1
        <4>3. CASE k = 2 * i
          <5>1. u[k] = z[2]
            BY <3>2, <4>3
          <5> QED
            BY <1>3, <3>1, <4>3, <5>1
        <4>4. i \in Nat /\ k \in 1 .. 2 * i
          OBVIOUS
        <4> HIDE DEF g, seqs
        <4> QED
          BY <4>1, <4>2, <4>3, <4>4, PlacesOfPairs
      <3>4. u = [k \in 1 .. 2 * i |-> u[k]]
        BY <3>2
      <3>5. u = [k \in 1 .. 2 * i |-> P[k]]
        BY <3>3, <3>4
      <3> QED
        BY <3>5 DEF u, z
    <2> QED
      BY <2>3 DEF h
  <1>6. 1 \in 1 .. n => g[1] = seqs[1]
    <2> SUFFICES ASSUME 1 \in 1 .. n PROVE g[1] = seqs[1]
      OBVIOUS
    <2>1. P[1] = x[1] /\ P[2] = y[1]
      BY <1>3
    <2>2. g[1] = [k \in 1 .. 2 |-> P[k]] /\ seqs[1] = <<x[1], y[1]>>
      OBVIOUS
    <2>3. [k \in 1 .. 2 |-> P[k]] = <<P[1], P[2]>>
      BY SMT
    <2> QED
      BY <2>1, <2>2, <2>3
  <1>7. g = Body(g)
    <2>1. \A i \in 1 .. n : g[i] = IF i = 1 THEN seqs[i] ELSE g[i - 1] \o seqs[i]
      BY <1>5, <1>6
    <2>2. g = [i \in 1 .. n |-> g[i]]
      OBVIOUS
    <2> HIDE DEF g, seqs
    <2> QED
      BY <1>1, <2>1, <2>2
  <1>8. ASSUME NEW f, f = Body(f) PROVE f = g
    <2> DEFINE T == {i \in 1 .. n : f[i] # g[i]}
    <2>1. /\ f = [i \in 1 .. n |-> f[i]]
          /\ \A i \in 1 .. n : f[i] = IF i = 1 THEN seqs[i] ELSE f[i - 1] \o seqs[i]
      <3> HIDE DEF seqs, g
      <3>1. f = [i \in 1 .. n |-> IF i = 1 THEN seqs[i] ELSE f[i - 1] \o seqs[i]]
        BY <1>1, <1>8
      <3> QED
        BY <3>1
    <2>2. ASSUME T # {} PROVE FALSE
      <3>1. T \in SUBSET Nat
        OBVIOUS
      <3>2. PICK i \in T : \A j \in T : i <= j
        BY <2>2, <3>1, Least
      <3> HIDE DEF seqs, g
      <3>3. i # 1 => i - 1 \in 1 .. n /\ f[i - 1] = g[i - 1]
        BY <3>2
      <3>4. i \in 1 .. n /\ f[i] # g[i]
        BY <3>2
      <3> QED
        BY <1>5, <1>6, <2>1, <3>3, <3>4
    <2>3. g = [i \in 1 .. n |-> g[i]]
      OBVIOUS
    <2> HIDE DEF g
    <2> QED
      BY <2>1, <2>2, <2>3
  <1> DEFINE F == FlattenSeq(seqs)
  <1>9. ASSUME n = 0
         PROVE  /\ F \in Seq(S) /\ Len(F) = 2 * n
                /\ \A i \in 1 .. n : F[2 * i - 1] = x[i] /\ F[2 * i] = y[i]
    <2>1. F = seqs /\ seqs = <<>>
      BY <1>1, <1>9 DEF FlattenSeq
    <2> HIDE DEF F, seqs
    <2>2. F \in Seq(S) /\ Len(F) = 0 /\ 1 .. n = {}
      BY <1>9, <2>1
    <2> QED
      BY <1>9, <2>2 DEF F, seqs
  <1>10. ASSUME n # 0
          PROVE  /\ F \in Seq(S) /\ Len(F) = 2 * n
                 /\ \A i \in 1 .. n : F[2 * i - 1] = x[i] /\ F[2 * i] = y[i]
    <2>1. F = (CHOOSE f : f = Body(f))[Len(seqs)]
      <3> HIDE DEF g
      <3> QED
        BY <1>1, <1>10 DEF FlattenSeq
    <2>2. (CHOOSE f : f = Body(f)) = g
      <3> HIDE DEF g, Body
      <3> QED
        BY <1>7, <1>8
    <2>3. F = g[n]
      <3> HIDE DEF g, Body, F
      <3> QED
        BY <1>1, <2>1, <2>2
    <2>4. F = [k \in 1 .. 2 * n |-> P[k]]
      <3> HIDE DEF F
      <3> QED
        BY <1>10, <2>3
    <2> HIDE DEF F, g
    <2>5. F = P /\ 2 * n \in Nat
      BY <1>4, <2>4
    <2>6. F \in Seq(S) /\ Len(F) = 2 * n
      BY <1>4, <2>5
    <2>7. \A i \in 1 .. n : F[2 * i - 1] = x[i] /\ F[2 * i] = y[i]
      BY <1>3, <2>5
    <2> QED
      BY <2>6, <2>7 DEF F
  <1> HIDE DEF F
  <1>11. /\ F \in Seq(S) /\ Len(F) = 2 * n
         /\ \A i \in 1 .. n : F[2 * i - 1] = x[i] /\ F[2 * i] = y[i]
    BY <1>9, <1>10 DEF F
  <1>12. F = FlattenSeq(pairs)
    BY <1>0 DEF F
  <1> QED
    BY <1>0, <1>11, <1>12 DEF n

\* The nodes in the order they are built in: two for each composite, then the Plan.
LEMMA BuiltShape ==
    ASSUME ShapeInv
    PROVE  LET c == child.composites
               n == Len(c)
           IN  /\ n \in Nat /\ DOMAIN c = 1 .. n /\ \A i \in 1 .. n : c[i] \in Comp
               /\ Built \in Seq(Ids) /\ Len(Built) = 2 * n + 1
               /\ Built[2 * n + 1] = Terminal
               /\ \A i \in 1 .. n : Built[2 * i - 1] = c[i] /\ Built[2 * i] = ReviewOf(c[i])
  <1> DEFINE c == child.composites
             n == Len(c)
             pairs == [i \in 1 .. n |-> <<c[i], ReviewOf(c[i])>>]
             F == FlattenSeq(pairs)
  <1>1. n \in Nat /\ c \in [1 .. n -> Comp]
    <2>1. PICK k \in 0 .. MaxComposites + 1 : c \in [1 .. k -> Comp]
      BY DEF ShapeInv, ChildDAGSpec
    <2>2. k \in Nat /\ n = k
      BY <2>1, ChildDagAssumption
    <2> QED
      BY <2>1, <2>2
  <1>2. Comp \in SUBSET Ids /\ Terminal \in Ids /\ \A d \in Comp : ReviewOf(d) \in Ids
    BY ChildDagAssumption DEF Comp, ReviewOf, Terminal
  <1>3. pairs \in Seq(Ids \X Ids) /\ Len(pairs) = n
    BY <1>1, <1>2
  <1>4. /\ F \in Seq(Ids) /\ Len(F) = 2 * n
        /\ \A i \in 1 .. n : F[2 * i - 1] = c[i] /\ F[2 * i] = ReviewOf(c[i])
    <2>1. \A i \in 1 .. n : pairs[i][1] = c[i] /\ pairs[i][2] = ReviewOf(c[i])
      OBVIOUS
    <2>2. /\ F \in Seq(Ids) /\ Len(F) = 2 * n
          /\ \A i \in 1 .. n : F[2 * i - 1] = pairs[i][1] /\ F[2 * i] = pairs[i][2]
      <3> HIDE DEF pairs, n
      <3> QED
        BY <1>3, FlatPairs
    <2> HIDE DEF F, pairs, n
    <2> QED
      BY <2>1, <2>2
  <1>5. Built = F \o <<Terminal>>
    <2>1. [i \in DOMAIN c |-> <<CodingOf(c[i]), ReviewOf(c[i])>>] = pairs
      BY <1>1 DEF CodingOf
    <2> QED
      BY <2>1, Zenon DEF Built
  <1> HIDE DEF F
  <1>6. /\ Built \in Seq(Ids) /\ Len(Built) = 2 * n + 1 /\ Built[2 * n + 1] = Terminal
        /\ \A k \in 1 .. 2 * n : Built[k] = F[k]
    <2> DEFINE z == <<Terminal>>
    <2>1. z \in Seq(Ids) /\ Len(z) = 1 /\ z[1] = Terminal
      BY <1>2
    <2> HIDE DEF z, F, n, c
    <2>2. /\ F \o z \in Seq(Ids) /\ Len(F \o z) = Len(F) + 1
          /\ \A k \in 1 .. Len(F) + 1 : (F \o z)[k] = IF k <= Len(F) THEN F[k] ELSE z[k - Len(F)]
      <3>1. F \in Seq(Ids)
        BY <1>4
      <3>2. /\ F \o z \in Seq(Ids) /\ Len(F \o z) = Len(F) + Len(z)
            /\ \A k \in 1 .. Len(F) + Len(z) :
                  (F \o z)[k] = IF k <= Len(F) THEN F[k] ELSE z[k - Len(F)]
        BY <2>1, <3>1, Concatenation
      <3> QED
        BY <2>1, <3>2
    <2>3. Built = F \o z
      BY <1>5 DEF z
    <2>4. n \in Nat /\ Len(F) = 2 * n
      BY <1>1, <1>4
    <2> HIDE DEF n
    <2> QED
      BY <2>1, <2>2, <2>3, <2>4
  <1>7. \A i \in 1 .. n : Built[2 * i - 1] = c[i] /\ Built[2 * i] = ReviewOf(c[i])
    <2> SUFFICES ASSUME NEW i \in 1 .. n
                 PROVE  Built[2 * i - 1] = c[i] /\ Built[2 * i] = ReviewOf(c[i])
      OBVIOUS
    <2>1. 2 * i - 1 \in 1 .. 2 * n /\ 2 * i \in 1 .. 2 * n
      BY <1>1
    <2> QED
      BY <1>4, <1>6, <2>1
  <1>8. DOMAIN c = 1 .. n /\ \A i \in 1 .. n : c[i] \in Comp
    BY <1>1
  <1> QED
    BY <1>1, <1>6, <1>7, <1>8

\* Where a place of that order comes from.
LEMMA BuiltPlaces ==
    ASSUME ShapeInv, NEW k \in DOMAIN Built
    PROVE  \/ k = 2 * Len(child.composites) + 1
           \/ \E i \in DOMAIN child.composites : k = 2 * i - 1 \/ k = 2 * i
  <1> DEFINE n == Len(child.composites)
  <1>1. n \in Nat /\ DOMAIN child.composites = 1 .. n /\ k \in 1 .. 2 * n + 1
    BY BuiltShape
  <1> HIDE DEF n
  <1>2. CASE k = 2 * n + 1
    BY <1>2 DEF n
  <1>3. CASE k # 2 * n + 1
    <2>1. (k + 1) \div 2 \in 1 .. n
      BY <1>1, <1>3
    <2>2. k = 2 * ((k + 1) \div 2) - 1 \/ k = 2 * ((k + 1) \div 2)
      BY <1>1
    <2> QED
      BY <1>1, <2>1, <2>2
  <1> QED
    BY <1>2, <1>3

\* It holds the nodes of the child DAG and nothing else.
LEMMA BuiltElems ==
    ASSUME ShapeInv
    PROVE  Elems(Built) = NodeIds
  <1> DEFINE c == child.composites
             n == Len(c)
  <1>1. /\ n \in Nat /\ DOMAIN c = 1 .. n
        /\ DOMAIN Built = 1 .. 2 * n + 1 /\ Built[2 * n + 1] = Terminal
        /\ \A i \in 1 .. n : Built[2 * i - 1] = c[i] /\ Built[2 * i] = ReviewOf(c[i])
    BY BuiltShape
  <1>2. ASSUME NEW k \in DOMAIN Built PROVE Built[k] \in NodeIds
    <2>1. k = 2 * n + 1 \/ \E i \in 1 .. n : k = 2 * i - 1 \/ k = 2 * i
      BY <1>1, BuiltPlaces
    <2>2. \A i \in 1 .. n : c[i] \in CompIds
      BY <1>1 DEF CompIds, Elems
    <2> QED
      BY <1>1, <2>1, <2>2 DEF NodeIds, CodingOf
  <1>3. ASSUME NEW d \in CompIds PROVE d \in Elems(Built) /\ ReviewOf(d) \in Elems(Built)
    <2>1. PICK i \in 1 .. n : c[i] = d
      BY <1>1 DEF CompIds, Elems
    <2>2. 2 * i - 1 \in DOMAIN Built /\ 2 * i \in DOMAIN Built
      BY <1>1
    <2> QED
      BY <1>1, <2>1, <2>2 DEF Elems
  <1>4. Terminal \in Elems(Built)
    BY <1>1 DEF Elems
  <1> QED
    BY <1>2, <1>3, <1>4 DEF NodeIds, CodingOf, Elems

\* A place repeats an id only if composites does.
LEMMA RepeatsComposite ==
    ASSUME ShapeInv, ~Distinct(Built)
    PROVE  Cardinality(CompIds) < Len(child.composites)
  <1> DEFINE c == child.composites
             n == Len(c)
  <1>1. /\ n \in Nat /\ DOMAIN c = 1 .. n /\ \A i \in 1 .. n : c[i] \in Comp
        /\ DOMAIN Built = 1 .. 2 * n + 1 /\ Built[2 * n + 1] = Terminal
        /\ \A i \in 1 .. n : Built[2 * i - 1] = c[i] /\ Built[2 * i] = ReviewOf(c[i])
    BY BuiltShape
  <1>2. /\ Width \in Nat /\ Terminal = Width + 1
        /\ \A d \in Comp : d \in 1 .. Width /\ ReviewOf(d) = Width + 1 + d
    BY ChildDagAssumption DEF Terminal, Comp, ReviewOf
  <1>3. ~Distinct(c)
    <2> SUFFICES ASSUME Distinct(c) PROVE FALSE
      OBVIOUS
    <2>1. PICK j \in DOMAIN Built, k \in DOMAIN Built : Built[j] = Built[k] /\ j # k
      BY DEF Distinct
    <2>2. /\ j = 2 * n + 1 \/ \E i \in 1 .. n : j = 2 * i - 1 \/ j = 2 * i
          /\ k = 2 * n + 1 \/ \E i \in 1 .. n : k = 2 * i - 1 \/ k = 2 * i
      BY <1>1, BuiltPlaces
    <2>3. \A i \in 1 .. n : /\ Built[2 * i - 1] \in 1 .. Width
                           /\ Built[2 * i] = Width + 1 + c[i] /\ Built[2 * i] > Width + 1
                           /\ c[i] \in 1 .. Width
      BY <1>1, <1>2
    <2>4. \A h, i \in 1 .. n : c[h] = c[i] => h = i
      BY <1>1 DEF Distinct
    <2> HIDE DEF c, n
    <2>5. \A h, i \in 1 .. n : Built[2 * h] = Built[2 * i] => h = i
      BY <1>2, <2>3, <2>4
    <2>6. \A h, i \in 1 .. n : Built[2 * h - 1] = Built[2 * i - 1] => h = i
      BY <1>1, <2>4
    <2>7. \A h, i \in 1 .. n : Built[2 * h - 1] # Built[2 * i]
      BY <1>2, <2>3
    <2>8. \A i \in 1 .. n : Built[2 * i - 1] # Terminal /\ Built[2 * i] # Terminal
      BY <1>2, <2>3
    <2>9. CASE j = 2 * n + 1
      BY <1>1, <2>1, <2>2, <2>8, <2>9
    <2>10. CASE k = 2 * n + 1
      BY <1>1, <2>1, <2>2, <2>8, <2>10
    <2>11. CASE j # 2 * n + 1 /\ k # 2 * n + 1
      <3>1. PICK h \in 1 .. n : j = 2 * h - 1 \/ j = 2 * h
        BY <2>2, <2>11
      <3>2. PICK i \in 1 .. n : k = 2 * i - 1 \/ k = 2 * i
        BY <2>2, <2>11
      <3> QED
        BY <2>1, <2>5, <2>6, <2>7, <3>1, <3>2
    <2> QED
      BY <2>9, <2>10, <2>11
  <1>4. c \in Surjection(1 .. n, CompIds) /\ c \notin Injection(1 .. n, CompIds)
    <2>1. c = [i \in 1 .. n |-> c[i]]
      <3>1. PICK k \in 0 .. MaxComposites + 1 : c \in [1 .. k -> Comp]
        BY DEF ShapeInv, ChildDAGSpec
      <3> QED
        BY <1>1, <3>1
    <2>2. CompIds = {c[i] : i \in 1 .. n}
      BY <1>1 DEF CompIds, Elems
    <2> HIDE DEF c, n
    <2>3. c \in [1 .. n -> CompIds]
      BY <2>1, <2>2
    <2> QED
      BY <1>1, <1>3, <2>2, <2>3 DEF Surjection, Injection, IsInjective, Distinct
  <1>5. IsFiniteSet(1 .. n) /\ Cardinality(1 .. n) = n
    BY <1>1, FS_Interval
  <1>6. IsFiniteSet(CompIds) /\ Cardinality(CompIds) <= n /\ Cardinality(CompIds) # n
    <2> HIDE DEF c, n
    <2> QED
      BY <1>4, <1>5, FS_Surjection
  <1>7. Cardinality(CompIds) \in Nat
    BY <1>6, FS_CardinalityType
  <1> QED
    BY <1>1, <1>6, <1>7

-----------------------------------------------------------------------------
\* The INSERTs.
LEMMA InitRows == SpawnInit => RowsInv
  <1> SUFFICES ASSUME SpawnInit PROVE RowsInv
    OBVIOUS
  <1>1. ShapeInv
    BY InitDInv DEF DInv
  <1>2. Len(Built) \in Nat
    BY <1>1, BuiltShape
  <1> QED
    BY <1>2 DEF SpawnInit, RowsInv, Distinct

LEMMA NextRows ==
    ASSUME DInv, RowsInv, [ChildNext]_<<vars, childVars>>
    PROVE  RowsInv'
  <1>0. ShapeInv
    BY DEF DInv
  <1>1. child' = child /\ Built' = Built /\ Valid' = Valid
    BY DEF ChildNext, Validate, Build, Insert, Sort, Spawned, childVars, vars, Built, Valid,
           CompIds
  <1>2. /\ Built \in Seq(Ids) /\ Len(Built) \in Nat \ {0} /\ DOMAIN Built = 1 .. Len(Built)
    BY <1>0, BuiltShape
  <1>3. CASE Validate
    BY <1>1, <1>3 DEF Validate, RowsInv, vars, Distinct
  <1>4. CASE Build
    <2>1. ParentPlan \notin NodeIds
      BY <1>0, NodeShape DEF ParentPlan, Comp
    <2> QED
      BY <1>1, <1>2, <1>4, <2>1 DEF Build, RowsInv, Distinct
  <1>5. CASE Insert
    <2> DEFINE id == Built[Len(rows) + 1]
    <2>1. /\ step = "persist" /\ Valid /\ Len(rows) < Len(Built) /\ Len(rows) \in Nat
          /\ nodes' = nodes /\ rows \in Seq(Ids) /\ Distinct(rows)
          /\ DOMAIN rows = 1 .. Len(rows)
          /\ \A i \in DOMAIN rows : rows[i] = Built[i]
      BY <1>5 DEF Insert, RowsInv, vars
    <2>2. CASE id \in Elems(rows)
      <3>1. step' = "raised" /\ rows' = rows
        BY <1>5, <2>2 DEF Insert
      <3>2. PICK i \in DOMAIN rows : rows[i] = id
        BY <2>2 DEF Elems
      <3>3. /\ i \in DOMAIN Built /\ Len(rows) + 1 \in DOMAIN Built
            /\ i # Len(rows) + 1 /\ Built[i] = Built[Len(rows) + 1]
        BY <1>2, <2>1, <3>2
      <3>4. ~Distinct(Built) /\ rows # <<>>
        BY <3>2, <3>3 DEF Distinct
      <3> QED
        BY <1>1, <2>1, <3>1, <3>4 DEF RowsInv, Distinct
    <2>3. CASE id \notin Elems(rows)
      <3>1. /\ rows' = Append(rows, id)
            /\ step' = IF Len(rows') = Len(Built) THEN "sort" ELSE "persist"
        BY <1>1, <1>5, <2>3 DEF Insert
      <3>2. id \in Ids
        BY <1>2, <2>1
      <3>3. /\ Append(rows, id) \in Seq(Ids) /\ Distinct(Append(rows, id))
            /\ DOMAIN Append(rows, id) = DOMAIN rows \union {Len(rows) + 1}
            /\ Append(rows, id)[Len(rows) + 1] = id
            /\ \A i \in DOMAIN rows : Append(rows, id)[i] = rows[i]
        BY <2>1, <2>3, <3>2, Appended
      <3>4. \A i \in DOMAIN rows' : rows'[i] = Built[i]
        BY <2>1, <3>1, <3>3
      <3>5. Len(rows') = Len(rows) + 1
        BY <2>1, <3>1, <3>2
      <3>6. rows' \in Seq(Ids) /\ Distinct(rows)'
        BY <3>1, <3>3 DEF Distinct
      <3>7. Len(rows') <= Len(Built) /\ step' \in {"persist", "sort"}
        <4>1. Len(rows') <= Len(Built)
          BY <1>2, <2>1, <3>5
        <4>2. step' \in {"persist", "sort"}
          BY <3>1, Zenon
        <4> QED
          BY <4>1, <4>2
      <3>8. ParentPlan \notin nodes'
        BY <2>1 DEF RowsInv
      <3>9. /\ step' = "persist" => Len(rows') < Len(Built)
            /\ step' = "sort" => Len(rows') = Len(Built)
        <4>1. CASE Len(rows') = Len(Built)
          <5>1. step' = "sort"
            BY <3>1, <4>1
          <5> QED
            BY <4>1, <5>1
        <4>2. CASE Len(rows') # Len(Built)
          <5>1. step' = "persist"
            BY <3>1, <4>2
          <5>2. Len(rows') < Len(Built)
            <6>1. Len(rows') <= Len(Built) /\ Len(Built) \in Int
              BY <1>2, <3>7
            <6>2. Len(rows') \in Int
              BY <2>1, <3>5
            <6> QED
              BY <4>2, <6>1, <6>2
          <5> QED
            BY <5>1, <5>2
        <4> QED
          BY <4>1, <4>2
      <3> QED
        BY <1>1, <2>1, <3>4, <3>6, <3>7, <3>8, <3>9 DEF RowsInv, ParentPlan
    <2> QED
      BY <2>2, <2>3
  <1>6. CASE Sort \/ Spawned \/ UNCHANGED <<vars, childVars>>
    <2>1. UNCHANGED <<nodes, child, step, rows>>
      BY <1>6 DEF Sort, Spawned, childVars, vars, Count, Pop, Finish
    <2> QED
      BY <1>1, <2>1 DEF RowsInv, Distinct
  <1> QED
    BY <1>3, <1>4, <1>5, <1>6 DEF ChildNext

\* What dag_nodes holds at every step of the spawning.
THEOREM RowsInvHolds == ChildSpec => [](DInv /\ RowsInv)
  <1>1. DInv /\ RowsInv /\ [ChildNext]_<<vars, childVars>> => RowsInv'
    BY NextRows
  <1> QED
    BY InitRows, <1>1, DInvHolds, PTL DEF ChildSpec

\* The types of the spawning.
THEOREM ChildTyped == ChildSpec => []ChildTypeOK
  <1>1. DInv /\ RowsInv => ChildTypeOK
    BY DEF DInv, RowsInv, GraphInv, ShapeInv, ChildTypeOK
  <1> QED
    BY RowsInvHolds, <1>1, PTL

\* The order that is run has each row of the child DAG once, for every spec.
THEOREM OrderOfTheRows == ChildSpec => []OrderIsTheRows
  <1>1. ASSUME DInv, RowsInv, pc = "returned"
        PROVE  Elems(result) = Elems(rows) /\ Len(result) = Len(rows)
    <2>1. step = "sort" /\ ShapeInv /\ nodes = NodeIds
      BY <1>1, OrderOf, Waiting
    <2>2. result \in Seq(nodes) /\ Distinct(result) /\ Elems(result) = nodes
      BY <1>1 DEF DInv, KahnInv, LinearExtension, Distinct
    <2>3. Elems(rows) = Elems(Built)
      <3>1. Built \in Seq(Ids)
        BY <2>1, BuiltShape
      <3>2. /\ rows \in Seq(Ids) /\ Len(rows) = Len(Built)
            /\ \A i \in DOMAIN rows : rows[i] = Built[i]
        BY <1>1, <2>1 DEF RowsInv
      <3>3. DOMAIN rows = DOMAIN Built
        BY <3>1, <3>2
      <3> QED
        BY <3>2, <3>3 DEF Elems
    <2>4. Elems(result) = Elems(rows)
      BY <2>1, <2>2, <2>3, BuiltElems
    <2>5. Cardinality(Elems(result)) = Len(result) /\ Cardinality(Elems(rows)) = Len(rows)
      BY <1>1, <2>2, DistinctLength DEF RowsInv
    <2> QED
      BY <2>4, <2>5
  <1>2. DInv /\ RowsInv => OrderIsTheRows
    BY <1>1 DEF OrderIsTheRows
  <1> QED
    BY RowsInvHolds, <1>2, PTL

\* Rows stay behind just when a spec that is valid repeats a composite id.
THEOREM DuplicatesAreLate == ChildSpec => []DuplicateIsLate
  <1>1. ASSUME DInv, RowsInv PROVE DuplicateIsLate
    <2>1. ShapeInv
      BY <1>1 DEF DInv
    <2>2. step = "raised" => \/ rows = <<>> /\ ~Valid
                             \/ rows # <<>> /\ Valid /\ ~Distinct(Built)
      BY <1>1 DEF RowsInv
    <2> QED
      BY <2>1, <2>2, RepeatsComposite DEF DuplicateIsLate
  <1> QED
    BY RowsInvHolds, <1>1, PTL
=============================================================================
