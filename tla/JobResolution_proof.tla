------------------------ MODULE JobResolution_proof ------------------------
(***************************************************************************)
(* Proofs about the graph of jobs.  Its edges are images of Depends items, *)
(* so a cycle of jobs is mapped to a cycle of test cases, and the jobs of  *)
(* a test case without dependencies have none.  The jobs are one for each  *)
(* combination of the matrices, and the finished graph has the edges that  *)
(* the documents name, told without the state of the resolver.             *)
(***************************************************************************)
EXTENDS JobResolution, Integers, TLAPS, FiniteSetTheorems, SequenceTheorems, WellFoundedInduction

\* Every job is a job of an existing test case.
JobsInv ==
    /\ jobs \in Seq(Range(jobs))
    /\ \A j \in DOMAIN jobs : jobs[j].name \in Tests
    /\ names \in Seq(Tests)
    /\ matrices \in Seq(Range(project.matrices))

\* Every test case has a job when the resolution begins.
CoverInv ==
    phase \in {"resolve", "done"} => \A n \in Tests : \E j \in DOMAIN jobs : jobs[j].name = n

\* The items at hand belong to the test case of the visited job.
AgendaInv ==
    /\ unresolved \subseteq DOMAIN jobs /\ current \subseteq DOMAIN jobs
    /\ agenda \subseteq DOMAIN Items
    /\ \A j, k \in current : j = k
    /\ \A j \in current : \A i \in agenda : Items[i].succ = jobs[j].name
    /\ current = {} => agenda = {}
    /\ phase = "multiply" => edges = <<>> /\ current = {} /\ agenda = {}

\* The edge k comes from some Depends item.
Justified(k) ==
    /\ edges[k].pred \in DOMAIN jobs /\ edges[k].succ \in DOMAIN jobs
    /\ \E i \in DOMAIN Items : /\ edges[k] = JobEdge(edges[k].pred, edges[k].succ, i)
                               /\ Items[i].pred = jobs[edges[k].pred].name
                               /\ Items[i].succ = jobs[edges[k].succ].name

EdgesInv ==
    /\ edges \in Seq(Range(edges))
    /\ \A k \in DOMAIN edges : Justified(k)

IInv ==
    /\ project \in Projects
    /\ JobsInv
    /\ CoverInv
    /\ AgendaInv
    /\ EdgesInv

----------------------------------------------------------------------------
(* Sequences and finite sets                                               *)

\* A sequence over some set is one over its range.
LEMMA OverItsRange ==
    ASSUME NEW S, NEW s \in Seq(S)
    PROVE  s \in Seq(Range(s)) /\ DOMAIN s = 1..Len(s) /\ Len(s) \in Nat
  BY DEF Range

\* What appending an element to a sequence does.
LEMMA AppendFacts ==
    ASSUME NEW s, s \in Seq(Range(s)), NEW e
    PROVE  /\ Append(s, e) \in Seq(Range(Append(s, e)))
           /\ DOMAIN s = 1..Len(s) /\ Len(s) \in Nat
           /\ DOMAIN Append(s, e) = 1..(Len(s) + 1)
           /\ Append(s, e)[Len(s) + 1] = e
           /\ \A n \in DOMAIN s : Append(s, e)[n] = s[n]
  <1>1. s \in Seq(Range(s) \cup {e})
    BY DEF Range
  <1>2. Append(s, e) \in Seq(Range(s) \cup {e})
    BY <1>1
  <1>3. /\ DOMAIN s = 1..Len(s) /\ Len(s) \in Nat
        /\ DOMAIN Append(s, e) = 1..(Len(s) + 1)
        /\ Append(s, e)[Len(s) + 1] = e
        /\ \A n \in 1..Len(s) : Append(s, e)[n] = s[n]
    BY <1>1, AppendProperties
  <1>4. Append(s, e) \in Seq(Range(Append(s, e)))
    BY <1>2, OverItsRange
  <1> QED BY <1>3, <1>4

\* What joining two sequences does.
LEMMA ConcatFacts ==
    ASSUME NEW s, s \in Seq(Range(s)), NEW t, t \in Seq(Range(t))
    PROVE  /\ s \o t \in Seq(Range(s \o t))
           /\ DOMAIN s = 1..Len(s) /\ Len(s) \in Nat
           /\ DOMAIN t = 1..Len(t) /\ Len(t) \in Nat
           /\ DOMAIN (s \o t) = 1..(Len(s) + Len(t))
           /\ \A n \in 1..Len(s) : (s \o t)[n] = s[n]
           /\ \A n \in 1..Len(t) : (s \o t)[Len(s) + n] = t[n]
           /\ \A n \in DOMAIN (s \o t) :
                 n \in DOMAIN s \/ \E k \in DOMAIN t : n = Len(s) + k
  <1> DEFINE R == Range(s) \cup Range(t)
  <1>1. s \in Seq(R) /\ t \in Seq(R)
    BY DEF Range
  <1>2. s \o t \in Seq(R)
    BY <1>1
  <1>3. /\ DOMAIN s = 1..Len(s) /\ Len(s) \in Nat
        /\ DOMAIN t = 1..Len(t) /\ Len(t) \in Nat
        /\ DOMAIN (s \o t) = 1..(Len(s) + Len(t))
        /\ \A n \in 1..Len(s) : (s \o t)[n] = s[n]
        /\ \A n \in 1..Len(t) : (s \o t)[Len(s) + n] = t[n]
    BY <1>1
  <1>4. \A n \in 1..(Len(s) + Len(t)) :
            n \in 1..Len(s) \/ \E k \in 1..Len(t) : n = Len(s) + k
    <2> SUFFICES ASSUME NEW n \in 1..(Len(s) + Len(t)), n \notin 1..Len(s)
                 PROVE  \E k \in 1..Len(t) : n = Len(s) + k
      OBVIOUS
    <2>1. n - Len(s) \in 1..Len(t) /\ n = Len(s) + (n - Len(s))
      BY <1>3
    <2> QED BY <2>1
  <1> QED BY <1>2, <1>3, <1>4, OverItsRange

\* A listing of a finite set is a sequence, and it contains every element.
LEMMA BijectionFacts ==
    ASSUME NEW S, IsFiniteSet(S), NEW q \in Bijection(1..Cardinality(S), S)
    PROVE  /\ q \in Seq(S) /\ DOMAIN q = 1..Cardinality(S) /\ Cardinality(S) \in Nat
           /\ \A n \in DOMAIN q : q[n] \in S
           /\ \A e \in S : \E n \in DOMAIN q : q[n] = e
  <1>1. Cardinality(S) \in Nat
    BY FS_CardinalityType
  <1>2. /\ q \in [1..Cardinality(S) -> S]
        /\ \A e \in S : \E n \in 1..Cardinality(S) : q[n] = e
    BY DEF Bijection, Injection, Surjection
  <1> QED BY <1>1, <1>2

\* CHOOSE takes an element, if there is one.
LEMMA ChosenIsMember ==
    ASSUME NEW S, S # {}
    PROVE  (CHOOSE x \in S : TRUE) \in S
  OBVIOUS

\* A sequence that is a function of another sequence's positions.
LEMMA MapIsSequence ==
    ASSUME NEW n \in Nat, NEW F, DOMAIN F = 1..n, F = [k \in 1..n |-> F[k]]
    PROVE  F \in Seq(Range(F)) /\ Len(F) = n
  BY DEF Range

----------------------------------------------------------------------------
(* Facts about projects                                                    *)

\* What is assumed of the documents, in the form the proofs use.
LEMMA ProjectFacts ==
    ASSUME NEW p \in Projects
    PROVE  /\ p.graph.nodes \subseteq Names /\ IsFiniteSet(p.graph.nodes)
           /\ DOMAIN p.graph.edges = 1..Len(p.graph.edges)
           /\ \A i \in DOMAIN p.graph.edges :
                 /\ p.graph.edges[i].pred \in p.graph.nodes
                 /\ p.graph.edges[i].succ \in p.graph.nodes
                 /\ \A l \in DOMAIN p.graph.edges[i].tags :
                       Len(p.graph.edges[i].tags[l].values) \in Nat
           /\ p.matrices \in Seq(Range(p.matrices))
           /\ \A m \in Range(p.matrices) : m.names \in Seq(p.graph.nodes)
  <1>1. \A i \in DOMAIN p.graph.edges : p.graph.edges[i] \in Range(p.graph.edges)
    BY DEF Range
  <1>2. DOMAIN p.graph.edges = 1..Len(p.graph.edges)
    BY ProjectsAssumption, OverItsRange
  <1>3. \A i \in DOMAIN p.graph.edges : \A l \in DOMAIN p.graph.edges[i].tags :
            Len(p.graph.edges[i].tags[l].values) \in Nat
    BY <1>1, ProjectsAssumption, OverItsRange
  <1> QED BY <1>1, <1>2, <1>3, ProjectsAssumption

\* The pairs that ResolveItem lists are finitely many, each with a job of the
\* item's test case.
LEMMA PrecedingFacts ==
    ASSUME project \in Projects, jobs \in Seq(Range(jobs)),
           NEW i \in DOMAIN Items, NEW j \in DOMAIN jobs
    PROVE  /\ IsFiniteSet(Preceding(i, j))
           /\ \A m \in Preceding(i, j) : m[2] \in Class(Items[i].pred)
  <1> DEFINE C == Class(Items[i].pred)
  <1>1. IsFiniteSet(C)
    <2>1. C \subseteq 1..Len(jobs) /\ Len(jobs) \in Nat
      BY OverItsRange DEF Class
    <2>2. IsFiniteSet(1..Len(jobs))
      BY <2>1, FS_Interval
    <2> QED BY <2>1, <2>2, FS_Subset
  <1>2. CASE SpecifiesTags(i)
    <2> DEFINE list == EvaluateTags(Items[i].tags, jobs[j].name)
               L == ArrayLengths(Items[i].tags)
               N == IF L = {} THEN {1} ELSE L
               length == CHOOSE k \in N : TRUE
    <2>1. L \subseteq Nat
      BY ProjectFacts DEF ArrayLengths, Items
    <2>2. length \in Nat
      <3>1. N # {} /\ N \subseteq Nat
        <4> HIDE DEF L, list, C
        <4>1. CASE L = {}
          BY <4>1
        <4>2. CASE L # {}
          BY <2>1, <4>2
        <4> QED BY <4>1, <4>2
      <3> HIDE DEF N
      <3>3. length \in N
        BY <3>1, ChosenIsMember
      <3> QED BY <3>1, <3>3
    <2>3. DOMAIN list = 1..length
      BY DEF EvaluateTags
    <2>4. IsFiniteSet(DOMAIN list)
      BY <2>2, <2>3, FS_Interval
    <2>5. IsFiniteSet((DOMAIN list) \X C)
      BY <2>4, <1>1, FS_Product
    <2>6. Preceding(i, j) \subseteq (DOMAIN list) \X C
      BY <1>2 DEF Preceding
    <2> HIDE DEF list, C
    <2> QED BY <2>5, <2>6, FS_Subset DEF C
  <1>3. CASE ~SpecifiesTags(i)
    <2>1. Preceding(i, j) \subseteq {1} \X C
      BY <1>3 DEF Preceding, Newest, EqualTags
    <2>2. IsFiniteSet({1} \X C)
      BY <1>1, FS_Singleton, FS_Product
    <2> HIDE DEF C
    <2> QED BY <2>1, <2>2, FS_Subset DEF C
  <1> QED BY <1>2, <1>3

----------------------------------------------------------------------------
(* The invariant                                                           *)

\* The invariant holds before the multiplier runs.
LEMMA InitIInv == Init => IInv
  <1> SUFFICES ASSUME Init PROVE IInv
    OBVIOUS
  <1> USE DEF Init
  <1>1. <<>> \in Seq(Range(<<>>)) /\ <<>> \in Seq(Tests) /\ DOMAIN <<>> = {}
    OBVIOUS
  <1>2. JobsInv
    BY <1>1, ProjectFacts DEF JobsInv
  <1>3. EdgesInv
    BY <1>1 DEF EdgesInv
  <1>4. CoverInv /\ AgendaInv
    BY DEF CoverInv, AgendaInv
  <1> QED BY <1>2, <1>3, <1>4 DEF IInv

\* Steps of the multiplier that add no job.
LEMMA StartMatrixIInv == IInv /\ StartMatrix => IInv'
  <1> SUFFICES ASSUME IInv, StartMatrix PROVE IInv'
    OBVIOUS
  <1> USE DEF StartMatrix, Exit, resolverVars
  <1>1. JobsInv'
    <2>1. /\ Head(matrices) \in Range(project.matrices)
          /\ Tail(matrices) \in Seq(Range(project.matrices))
      BY DEF IInv, JobsInv
    <2>2. Head(matrices).names \in Seq(Tests)
      BY <2>1, ProjectFacts DEF IInv, Tests
    <2> QED BY <2>1, <2>2 DEF IInv, JobsInv, Tests
  <1>2. EdgesInv'
    BY DEF IInv, EdgesInv, Justified, JobEdge, Items
  <1>3. CoverInv' /\ AgendaInv'
    BY DEF IInv, CoverInv, AgendaInv, Items
  <1> QED BY <1>1, <1>2, <1>3 DEF IInv

\* Steps that only move on or give up.
LEMMA RefuseNameIInv == IInv /\ RefuseName => IInv'
  BY DEF IInv, RefuseName, Exit, multiplierVars, resolverVars, JobsInv, CoverInv,
         AgendaInv, EdgesInv, Justified, JobEdge, Items, Tests

LEMMA NextNameIInv == IInv /\ NextName => IInv'
  <1> SUFFICES ASSUME IInv, NextName PROVE IInv'
    OBVIOUS
  <1> USE DEF NextName, resolverVars
  <1>1. JobsInv'
    BY DEF IInv, JobsInv, Tests
  <1>2. EdgesInv' /\ CoverInv' /\ AgendaInv'
    BY DEF IInv, EdgesInv, Justified, CoverInv, AgendaInv, Items
  <1> QED BY <1>1, <1>2 DEF IInv

\* A combined job belongs to the test case at hand.
LEMMA CombineNameIInv == IInv /\ CombineName => IInv'
  <1> SUFFICES ASSUME IInv, CombineName PROVE IInv'
    OBVIOUS
  <1> USE DEF CombineName, resolverVars
  <1>0. Head(names) \in Tests
    BY DEF IInv, JobsInv
  <1>1. JobsInv'
    <2> DEFINE job == [name |-> Head(names), tags |-> combos[column]]
    <2>0. job.name = Head(names) /\ jobs' = Append(jobs, job)
      OBVIOUS
    <2> HIDE DEF job
    <2>1. /\ jobs' \in Seq(Range(jobs'))
          /\ DOMAIN jobs = 1..Len(jobs) /\ Len(jobs) \in Nat
          /\ DOMAIN jobs' = 1..(Len(jobs) + 1)
          /\ jobs'[Len(jobs) + 1] = job
          /\ \A n \in DOMAIN jobs : jobs'[n] = jobs[n]
      BY <2>0, AppendFacts DEF IInv, JobsInv
    <2>2. \A n \in DOMAIN jobs' : n \in DOMAIN jobs \/ n = Len(jobs) + 1
      BY <2>1
    <2>3. \A n \in DOMAIN jobs' : jobs'[n].name \in Tests
      BY <1>0, <2>0, <2>1, <2>2 DEF IInv, JobsInv
    <2>4. Range(jobs)' = Range(jobs')
      BY DEF Range
    <2>5. UNCHANGED <<project, names, matrices>>
      OBVIOUS
    <2> QED BY <2>1, <2>3, <2>4, <2>5 DEF IInv, JobsInv, Tests
  <1>2. EdgesInv'
    BY DEF IInv, EdgesInv, AgendaInv
  <1>3. CoverInv'
    BY DEF CoverInv
  <1>4. AgendaInv'
    <2>1. unresolved \subseteq DOMAIN jobs' 
      <3>1. DOMAIN jobs \subseteq DOMAIN jobs'
        BY AppendFacts DEF IInv, JobsInv
      <3> QED BY <3>1 DEF IInv, AgendaInv
    <2> QED BY <2>1 DEF IInv, AgendaInv, Items
  <1> QED BY <1>1, <1>2, <1>3, <1>4 DEF IInv

\* Afterwards every test case has a job.
LEMMA AddUntaggedIInv == IInv /\ AddUntagged => IInv'
  <1> SUFFICES ASSUME IInv, AddUntagged PROVE IInv'
    OBVIOUS
  <1> USE DEF AddUntagged
  <1> DEFINE U == Tests \ UsedNames
  <1>1. PICK q \in Bijection(1..Cardinality(U), U) :
                jobs' = jobs \o [i \in DOMAIN q |-> [name |-> q[i], tags |-> {}]]
    OBVIOUS
  <1>2. IsFiniteSet(U)
    BY ProjectFacts, FS_Subset DEF IInv, Tests
  <1> HIDE DEF U
  <1>3. /\ DOMAIN q = 1..Cardinality(U) /\ Cardinality(U) \in Nat
        /\ \A n \in DOMAIN q : q[n] \in U
        /\ \A e \in U : \E n \in DOMAIN q : q[n] = e
    BY <1>1, <1>2, BijectionFacts
  <1> DEFINE t == [i \in DOMAIN q |-> [name |-> q[i], tags |-> {}]]
  <1>4. t \in Seq(Range(t)) /\ DOMAIN t = DOMAIN q /\ \A n \in DOMAIN t : t[n].name = q[n]
    BY <1>3, MapIsSequence
  <1>5. jobs' = jobs \o t
    BY <1>1
  <1> HIDE DEF t
  <1>6. /\ jobs' \in Seq(Range(jobs'))
        /\ DOMAIN jobs = 1..Len(jobs) /\ Len(jobs) \in Nat
        /\ DOMAIN t = 1..Len(t) /\ Len(t) \in Nat
        /\ DOMAIN jobs' = 1..(Len(jobs) + Len(t))
        /\ \A n \in 1..Len(jobs) : jobs'[n] = jobs[n]
        /\ \A n \in 1..Len(t) : jobs'[Len(jobs) + n] = t[n]
        /\ \A n \in DOMAIN jobs' : n \in DOMAIN jobs \/ \E k \in DOMAIN t : n = Len(jobs) + k
    <2>1. jobs \in Seq(Range(jobs)) /\ t \in Seq(Range(t))
      BY <1>4 DEF IInv, JobsInv
    <2>2. /\ jobs \o t \in Seq(Range(jobs \o t))
          /\ DOMAIN jobs = 1..Len(jobs) /\ Len(jobs) \in Nat
          /\ DOMAIN t = 1..Len(t) /\ Len(t) \in Nat
          /\ DOMAIN (jobs \o t) = 1..(Len(jobs) + Len(t))
          /\ \A n \in 1..Len(jobs) : (jobs \o t)[n] = jobs[n]
          /\ \A n \in 1..Len(t) : (jobs \o t)[Len(jobs) + n] = t[n]
          /\ \A n \in DOMAIN (jobs \o t) :
                n \in DOMAIN jobs \/ \E k \in DOMAIN t : n = Len(jobs) + k
      BY <2>1, ConcatFacts
    <2> QED BY <2>2, <1>5, Zenon
  <1>7. JobsInv'
    <2>1. \A n \in DOMAIN jobs' : jobs'[n].name \in Tests
      <3>1. ASSUME NEW n \in DOMAIN jobs PROVE jobs'[n].name \in Tests
        BY <1>6 DEF IInv, JobsInv
      <3>2. ASSUME NEW k \in DOMAIN t PROVE jobs'[Len(jobs) + k].name \in Tests
        <4>1. jobs'[Len(jobs) + k] = t[k] /\ t[k].name = q[k] /\ q[k] \in U
          BY <1>3, <1>4, <1>6
        <4> QED BY <4>1 DEF U
      <3> QED BY <3>1, <3>2, <1>6
    <2>2. Range(jobs)' = Range(jobs')
      BY DEF Range
    <2>3. UNCHANGED <<project, names, matrices>>
      OBVIOUS
    <2> QED BY <1>6, <2>1, <2>2, <2>3 DEF IInv, JobsInv, Tests
  <1>8. CoverInv'
    <2>1. ASSUME NEW n \in Tests
          PROVE  \E j \in DOMAIN jobs' : jobs'[j].name = n
      <3>1. CASE n \in U
        <4>1. PICK k \in DOMAIN q : q[k] = n
          BY <3>1, <1>3
        <4>2. k \in 1..Len(t) /\ jobs'[Len(jobs) + k].name = n
          BY <4>1, <1>4, <1>6
        <4>3. Len(jobs) + k \in DOMAIN jobs'
          BY <4>2, <1>6
        <4> QED BY <4>2, <4>3
      <3>2. CASE n \notin U
        <4>1. PICK k \in DOMAIN jobs : jobs[k].name = n
          BY <3>2 DEF U, UsedNames
        <4>2. k \in DOMAIN jobs' /\ jobs'[k] = jobs[k]
          BY <1>6
        <4> QED BY <4>1, <4>2
      <3> QED BY <3>1, <3>2
    <2> QED BY <2>1 DEF CoverInv, Tests
  <1>9. AgendaInv' /\ EdgesInv'
    BY DEF IInv, AgendaInv, EdgesInv, Items
  <1> QED BY <1>7, <1>8, <1>9 DEF IInv

\* Steps of the resolver that insert no edge.
LEMMA VisitJobIInv == \A j \in DOMAIN jobs : IInv /\ VisitJob(j) => IInv'
  <1> SUFFICES ASSUME NEW j \in DOMAIN jobs, IInv, VisitJob(j) PROVE IInv'
    OBVIOUS
  <1> USE DEF VisitJob, multiplierVars
  <1>1. JobsInv' /\ CoverInv' /\ EdgesInv'
    BY DEF IInv, JobsInv, CoverInv, EdgesInv, Justified, JobEdge, Items, Tests
  <1>2. AgendaInv'
    <2>1. agenda = {}
      BY DEF IInv, AgendaInv
    <2> QED BY <2>1 DEF IInv, AgendaInv, Items
  <1> QED BY <1>1, <1>2 DEF IInv

LEMMA VisitClassIInv == \A n \in Names : IInv /\ VisitClass(n) => IInv'
  <1> SUFFICES ASSUME NEW n \in Names, IInv, VisitClass(n) PROVE IInv'
    OBVIOUS
  <1> USE DEF VisitClass, multiplierVars
  <1>1. AgendaInv'
    <2>1. agenda' \subseteq DOMAIN Items
      BY DEF EdgesBetween, EdgesInto, Items
    <2>2. ASSUME NEW j \in current, NEW i \in agenda'
          PROVE  Items[i].succ = jobs[j].name
      <3>1. \A k \in current : k = j
        BY DEF IInv, AgendaInv
      <3>2. i \in EdgesBetween(project.graph, n, jobs[j].name)
        BY <3>1
      <3> QED BY <3>2 DEF EdgesBetween, EdgesInto, Items
    <2>3. current = {} => agenda' = {}
      OBVIOUS
    <2> QED BY <2>1, <2>2, <2>3 DEF IInv, AgendaInv, Items
  <1>2. JobsInv' /\ CoverInv' /\ EdgesInv'
    BY DEF IInv, JobsInv, CoverInv, EdgesInv, Justified, JobEdge, Items, Tests
  <1> QED BY <1>1, <1>2 DEF IInv

LEMMA LeaveJobIInv == IInv /\ LeaveJob => IInv'
  BY DEF IInv, LeaveJob, multiplierVars, JobsInv, CoverInv, AgendaInv, EdgesInv,
         Justified, JobEdge, Items, Tests

LEMMA FinishResolveIInv == IInv /\ FinishResolve => IInv'
  BY DEF IInv, FinishResolve, multiplierVars, resolverVars, JobsInv, CoverInv,
         AgendaInv, EdgesInv, Justified, JobEdge, Items, Tests

\* An item inserts edges between jobs of its own test cases only.
LEMMA ResolveItemIInv == \A i \in DOMAIN Items : IInv /\ ResolveItem(i) => IInv'
  <1> SUFFICES ASSUME NEW i \in DOMAIN Items, IInv, ResolveItem(i) PROVE IInv'
    OBVIOUS
  <1> USE DEF ResolveItem, multiplierVars, Exit
  <1>1. JobsInv' /\ CoverInv'
    BY DEF IInv, JobsInv, CoverInv, Tests
  <1>2. AgendaInv'
    BY DEF IInv, AgendaInv, Items
  <1>3. EdgesInv'
    <2>1. PICK j \in current :
              \/ \E q \in Listed(Preceding(i, j)) :
                    edges' = edges \o [k \in DOMAIN q |-> JobEdge(q[k][2], j, i)]
              \/ UNCHANGED edges
      OBVIOUS
    <2>2. j \in DOMAIN jobs /\ Items[i].succ = jobs[j].name
      BY DEF IInv, AgendaInv, Newest
    <2>3. UNCHANGED <<project, jobs>>
      OBVIOUS
    <2>4. CASE UNCHANGED edges
      BY <2>3, <2>4 DEF IInv, EdgesInv, Justified, JobEdge, Items
    <2>5. CASE \E q \in Listed(Preceding(i, j)) :
                  edges' = edges \o [k \in DOMAIN q |-> JobEdge(q[k][2], j, i)]
      <3> DEFINE P == Preceding(i, j)
      <3>1. PICK q \in Listed(P) :
                edges' = edges \o [k \in DOMAIN q |-> JobEdge(q[k][2], j, i)]
        BY <2>5
      <3>2. IsFiniteSet(P) /\ \A m \in P : m[2] \in Class(Items[i].pred)
        BY <2>2, PrecedingFacts DEF IInv, JobsInv
      <3> HIDE DEF P
      <3>3. q \in Bijection(1..Cardinality(P), P)
        BY <3>1 DEF Listed
      <3>4. /\ DOMAIN q = 1..Cardinality(P) /\ Cardinality(P) \in Nat
            /\ \A n \in DOMAIN q : q[n] \in P
        BY <3>2, <3>3, BijectionFacts
      <3> DEFINE t == [k \in DOMAIN q |-> JobEdge(q[k][2], j, i)]
      <3>5. t \in Seq(Range(t)) /\ DOMAIN t = DOMAIN q
        BY <3>4, MapIsSequence
      <3>6. \A n \in DOMAIN q : t[n] = JobEdge(q[n][2], j, i) /\ t[n].pred = q[n][2] /\ t[n].succ = j
        BY DEF JobEdge
      <3>7. edges' = edges \o t
        BY <3>1
      <3> HIDE DEF t
      <3>8. /\ edges' \in Seq(Range(edges'))
            /\ DOMAIN edges = 1..Len(edges) /\ DOMAIN t = 1..Len(t)
            /\ \A n \in 1..Len(edges) : edges'[n] = edges[n]
            /\ \A n \in 1..Len(t) : edges'[Len(edges) + n] = t[n]
            /\ \A n \in DOMAIN edges' : n \in DOMAIN edges \/ \E k \in DOMAIN t : n = Len(edges) + k
        BY <3>5, <3>7, ConcatFacts DEF IInv, EdgesInv
      <3>9. ASSUME NEW n \in DOMAIN edges' PROVE Justified(n)'
        <4>1. CASE n \in DOMAIN edges
          <5>1. edges'[n] = edges[n] /\ Justified(n)
            BY <4>1, <3>8 DEF IInv, EdgesInv
          <5> QED BY <5>1, <2>3 DEF Justified, JobEdge, Items
        <4>2. CASE \E k \in DOMAIN t : n = Len(edges) + k
          <5>1. PICK k \in DOMAIN t : n = Len(edges) + k
            BY <4>2
          <5>2. edges'[n] = t[k]
            BY <5>1, <3>8
          <5>3. edges'[n] = JobEdge(q[k][2], j, i) /\ edges'[n].pred = q[k][2] /\ edges'[n].succ = j
            BY <5>2, <5>1, <3>5, <3>6
          <5>4. q[k][2] \in Class(Items[i].pred)
            BY <5>1, <3>2, <3>4, <3>5
          <5>5. q[k][2] \in DOMAIN jobs /\ jobs[q[k][2]].name = Items[i].pred
            BY <5>4 DEF Class
          <5>6. UNCHANGED Items
            BY <2>3 DEF Items
          <5>7. JobEdge(q[k][2], j, i)' = JobEdge(q[k][2], j, i)
            BY <5>6 DEF JobEdge
          <5> QED BY <5>3, <5>5, <5>6, <5>7, <2>2, <2>3 DEF Justified
        <4> QED BY <4>1, <4>2, <3>8
      <3>10. Range(edges)' = Range(edges')
        BY DEF Range
      <3> QED BY <3>8, <3>9, <3>10 DEF EdgesInv
    <2> QED BY <2>1, <2>4, <2>5
  <1> QED BY <1>1, <1>2, <1>3 DEF IInv

\* A step that changes nothing.
LEMMA StutterIInv == IInv /\ UNCHANGED vars => IInv'
  BY DEF IInv, vars, multiplierVars, resolverVars, JobsInv, CoverInv, AgendaInv,
         EdgesInv, Justified, JobEdge, Items, Tests

\* The invariant of the resolution: every edge between jobs comes from a
\* Depends item between their test cases, and no test case is without a job.
THEOREM ResolutionInvariance == Spec => []IInv
  <1>1. IInv /\ [Next]_vars => IInv'
    BY StartMatrixIInv, RefuseNameIInv, CombineNameIInv, NextNameIInv, AddUntaggedIInv,
       VisitJobIInv, VisitClassIInv, ResolveItemIInv, LeaveJobIInv, FinishResolveIInv,
       StutterIInv DEF Next
  <1> QED BY InitIInv, <1>1, PTL DEF Spec

----------------------------------------------------------------------------
(* What the resolution guarantees                                          *)

\* What the scheduler assumes of the jobs and of their graph.
Schedulable ==
    /\ JobGraph.nodes \subseteq Nat /\ IsFiniteSet(JobGraph.nodes)
    /\ JobGraph \in [nodes : SUBSET DOMAIN jobs,
                     edges : Seq([pred : DOMAIN jobs, succ : DOMAIN jobs, alias : Aliases])]

\* The resolver hands over what the scheduler is proved for: finitely many jobs, and
\* edges between them under the aliases of Depends items, at every step of the way.
THEOREM JobsCanBeScheduled == Spec => []Schedulable
  <1>1. IInv => Schedulable
    <2> SUFFICES ASSUME IInv PROVE Schedulable
      OBVIOUS
    <2> DEFINE E == [pred : DOMAIN jobs, succ : DOMAIN jobs, alias : Aliases]
    <2>1. DOMAIN jobs = 1..Len(jobs) /\ Len(jobs) \in Nat
      BY DEF IInv, JobsInv
    <2>2. DOMAIN jobs \subseteq Nat /\ IsFiniteSet(DOMAIN jobs)
      BY <2>1, FS_Interval
    <2>3. \A k \in DOMAIN edges : edges[k] \in E
      <3> SUFFICES ASSUME NEW k \in DOMAIN edges PROVE edges[k] \in E
        OBVIOUS
      <3>1. PICK i \in DOMAIN Items : edges[k] = JobEdge(edges[k].pred, edges[k].succ, i)
        BY DEF IInv, EdgesInv, Justified
      <3>2. edges[k].pred \in DOMAIN jobs /\ edges[k].succ \in DOMAIN jobs
        BY DEF IInv, EdgesInv, Justified
      <3>3. Items[i].alias \in Aliases
        <4>1. project \in Projects /\ Items[i] \in Range(Items)
          BY DEF IInv, Range
        <4> QED BY <4>1, ProjectsAssumption DEF Items
      <3> QED BY <3>1, <3>2, <3>3 DEF JobEdge
    <2> HIDE DEF E
    <2>4. edges \in Seq(E)
      BY <2>3 DEF IInv, EdgesInv
    <2> QED BY <2>2, <2>4 DEF Schedulable, JobGraph, E
  <1> QED BY <1>1, ResolutionInvariance, PTL


\* The test cases of a cycle of jobs form a cycle.
LEMMA CyclesProject ==
    ASSUME IInv, NEW S \in SUBSET DOMAIN jobs, IsCyclicCore(JobGraph, S)
    PROVE  /\ {jobs[j].name : j \in S} \in SUBSET Tests
           /\ IsCyclicCore(project.graph, {jobs[j].name : j \in S})
  <1> DEFINE T == {jobs[j].name : j \in S}
  <1>1. T \in SUBSET Tests /\ T # {}
    BY DEF IInv, JobsInv, IsCyclicCore
  <1>2. ASSUME NEW j \in S
        PROVE  PredecessorSet(project.graph, jobs[j].name) \cap T # {}
    <2>1. PICK k \in EdgesInto(JobGraph, j) : JobGraph.edges[k].pred \in S
      BY DEF IsCyclicCore, PredecessorSet
    <2>2. k \in DOMAIN edges /\ edges[k].succ = j /\ edges[k].pred \in S
      BY <2>1 DEF EdgesInto, JobGraph
    <2>3. PICK i \in DOMAIN Items : /\ Items[i].pred = jobs[edges[k].pred].name
                                    /\ Items[i].succ = jobs[j].name
      BY <2>2 DEF IInv, EdgesInv, Justified
    <2>4. i \in EdgesInto(project.graph, jobs[j].name)
      BY <2>3 DEF EdgesInto, Items
    <2> QED BY <2>2, <2>3, <2>4 DEF PredecessorSet, Items
  <1>3. \A n \in T : PredecessorSet(project.graph, n) \cap T # {}
    <2> SUFFICES ASSUME NEW n \in T PROVE PredecessorSet(project.graph, n) \cap T # {}
      OBVIOUS
    <2>1. PICK j \in S : n = jobs[j].name
      OBVIOUS
    <2> HIDE DEF T
    <2> QED BY <2>1, <1>2
  <1> HIDE DEF T
  <1>4. IsCyclicCore(project.graph, T)
    BY <1>1, <1>3 DEF IsCyclicCore
  <1> QED BY <1>1, <1>4 DEF T

\* Where the test cases have no cyclic dependency, the jobs have none.
THEOREM JobsAreAcyclic == Spec => []AcyclicJobs
  <1>1. IInv => AcyclicJobs
    <2> SUFFICES ASSUME IInv, IsAcyclic(project.graph),
                        NEW S \in SUBSET DOMAIN jobs, IsCyclicCore(JobGraph, S)
                 PROVE  FALSE
      BY DEF AcyclicJobs, IsAcyclic, JobGraph
    <2> QED BY CyclesProject DEF IsAcyclic, Tests
  <1> QED BY ResolutionInvariance, <1>1, PTL

\* The jobs of a test case without dependencies can be started with.
THEOREM JobsAreRooted == Spec => []RootedJobs
  <1>1. IInv => RootedJobs
    <2> SUFFICES ASSUME IInv, phase = "done", NEW n \in Roots(project.graph)
                 PROVE  Roots(JobGraph) # {}
      BY DEF RootedJobs
    <2>1. n \in Tests /\ EdgesInto(project.graph, n) = {}
      BY DEF Roots, Tests
    <2>2. PICK j \in DOMAIN jobs : jobs[j].name = n
      BY <2>1 DEF IInv, CoverInv
    <2>3. EdgesInto(JobGraph, j) = {}
      <3> SUFFICES ASSUME NEW k \in DOMAIN edges, edges[k].succ = j PROVE FALSE
        BY DEF EdgesInto, JobGraph
      <3>1. PICK i \in DOMAIN Items : Items[i].succ = n
        BY <2>2 DEF IInv, EdgesInv, Justified
      <3> QED BY <3>1, <2>1 DEF EdgesInto, Items
    <2> QED BY <2>2, <2>3 DEF Roots, JobGraph
  <1> QED BY ResolutionInvariance, <1>1, PTL

----------------------------------------------------------------------------
(* Numbers with one digit for each dimension                               *)

\* Induction over the natural numbers, for sets: a set that is not all of them
\* would miss a smallest one.
LEMMA SetInduction ==
    ASSUME NEW S, 0 \in S, \A n \in Nat : n \in S => n + 1 \in S
    PROVE  Nat \subseteq S
  <1> DEFINE R == {ss \in Nat \X Nat : ss[1] < ss[2]}
             T == Nat \ S
  <1>1. IsWellFoundedOn(R, Nat)
    BY NatLessThanWellFounded DEF OpToRel
  <1> SUFFICES ASSUME T # {} PROVE FALSE
    OBVIOUS
  <1>2. \E x \in T : \A y \in T : ~(<<y, x>> \in R)
    <2> HIDE DEF R
    <2> QED BY <1>1, WFMin
  <1>3. PICK x \in T : \A y \in T : ~(<<y, x>> \in R)
    BY <1>2
  <1>4. x - 1 \in Nat /\ x - 1 \in T
    OBVIOUS
  <1>5. <<x - 1, x>> \in R
    BY <1>4
  <1> QED BY <1>3, <1>4, <1>5

\* Quotient and remainder.
LEMMA Division ==
    ASSUME NEW a \in Nat \ {0}, NEW x \in Nat
    PROVE  /\ x = a * (x \div a) + (x % a)
           /\ x % a \in 0..a - 1 /\ x \div a \in Nat
  <1>1. x % a \in 0..a - 1 /\ x = a * (x \div a) + (x % a) /\ x \div a \in Int
    OBVIOUS
  <1>2. x \div a >= 0
    OBVIOUS
  <1> QED BY <1>1, <1>2

\* A number has one quotient and one remainder.
LEMMA DivisionIsUnique ==
    ASSUME NEW a \in Nat \ {0}, NEW q \in Nat, NEW r \in 0..a - 1
    PROVE  (a * q + r) \div a = q /\ (a * q + r) % a = r
  <1> DEFINE x == a * q + r
             p == x \div a
             s == x % a
  <1>1. x \in Nat
    OBVIOUS
  <1>2. x = a * p + s /\ s \in 0..a - 1 /\ p \in Nat
    BY <1>1, Division
  <1> HIDE DEF p, s
  <1>3. p = q
    <2>1. a * (p - q) = r - s
      BY <1>2
    <2>2. CASE p > q
      <3>1. a * (p - q) >= a
        BY <2>2, <1>2
      <3> QED BY <2>1, <3>1, <1>2
    <2>3. CASE p < q
      <3>1. a * (q - p) >= a
        BY <2>3, <1>2
      <3>2. a * (q - p) = s - r
        BY <1>2
      <3> QED BY <3>1, <3>2, <1>2
    <2> QED BY <2>2, <2>3, <1>2
  <1>4. s = r
    BY <1>2, <1>3
  <1> QED BY <1>3, <1>4 DEF p, s

\* A digit does not depend on the higher ones.
LEMMA DigitStays ==
    ASSUME NEW a \in Nat \ {0}, NEW l \in Nat \ {0}, NEW w \in Nat, NEW x \in Nat, NEW t \in Nat
    PROVE  ((x + (a * l * w) * t) \div a) % l = (x \div a) % l
  <1> DEFINE q == x \div a
             r == x % a
             h == q \div l
             s == q % l
  <1>1. x = a * q + r /\ r \in 0..a - 1 /\ q \in Nat
    BY Division
  <1> HIDE DEF q, r
  <1>2. q = l * h + s /\ s \in 0..l - 1 /\ h \in Nat
    BY <1>1, Division
  <1> HIDE DEF h, s
  <1>3. x + (a * l * w) * t = a * (q + l * (w * t)) + r
    BY <1>1
  <1>4. w * t \in Nat /\ q + l * (w * t) \in Nat
    BY <1>1
  <1>5. (x + (a * l * w) * t) \div a = q + l * (w * t)
    BY <1>1, <1>3, <1>4, DivisionIsUnique
  <1>6. q + l * (w * t) = l * (h + w * t) + s
    BY <1>2, <1>4
  <1>7. (q + l * (w * t)) % l = s
    BY <1>2, <1>4, <1>6, DivisionIsUnique
  <1> QED BY <1>5, <1>7 DEF q, s

\* Place values D of n digits, the d-th of them below l[d].
PlaceValues(n, D, l) ==
    /\ n \in Nat \ {0} /\ l \in [1..n -> Nat \ {0}] /\ D \in [1..n + 1 -> Nat \ {0}]
    /\ D[1] = 1 /\ \A d \in 1..n : D[d + 1] = D[d] * l[d]

Digit(D, l, x, d) == (x \div D[d]) % l[d]

\* A place value divides the higher ones.
LEMMA PlaceValuesDivide ==
    ASSUME NEW n, NEW D, NEW l, PlaceValues(n, D, l)
    PROVE  \A k \in 0..n : \A e \in 1..k : \E w \in Nat : D[k + 1] = D[e] * l[e] * w
  <1> DEFINE Divides(k, e) == \E w \in Nat : D[k + 1] = D[e] * l[e] * w
             S == {k \in Nat : k <= n => \A e \in 1..k : Divides(k, e)}
  <1>1. 0 \in S
    OBVIOUS
  <1>2. \A k \in Nat : k \in S => k + 1 \in S
    <2> SUFFICES ASSUME NEW k \in S, k + 1 <= n, NEW e \in 1..k + 1
                 PROVE  Divides(k + 1, e)
      OBVIOUS
    <2>0. n \in Nat /\ k \in Nat /\ k + 1 \in 1..n /\ D[k + 2] = D[k + 1] * l[k + 1]
          /\ l[k + 1] \in Nat /\ D[k + 1] \in Nat /\ D[e] \in Nat /\ l[e] \in Nat
      BY DEF PlaceValues
    <2>1. CASE e = k + 1
      <3>1. D[(k + 1) + 1] = D[e] * l[e] * 1
        BY <2>0, <2>1
      <3> QED BY <3>1
    <2>2. CASE e # k + 1
      <3>0. e \in 1..k
        BY <2>0, <2>2
      <3>1. Divides(k, e)
        <4>1. \A d \in 1..k : Divides(k, d)
          BY <2>0
        <4> HIDE DEF Divides
        <4> QED BY <3>0, <4>1
      <3>2. PICK w \in Nat : D[k + 1] = D[e] * l[e] * w
        BY <3>1
      <3>3. D[(k + 1) + 1] = D[e] * l[e] * (w * l[k + 1])
        BY <2>0, <3>2
      <3> QED BY <2>0, <3>3
    <2> QED BY <2>1, <2>2
  <1>3. Nat \subseteq S
    <2> HIDE DEF S
    <2> QED BY <1>1, <1>2, SetInduction
  <1> QED BY <1>3 DEF PlaceValues

\* A number with a further digit in front.
LEMMA DigitInFront ==
    ASSUME NEW n, NEW D, NEW l, PlaceValues(n, D, l), NEW k \in 0..n - 1,
           NEW x \in 0..D[k + 1] - 1, NEW t \in 0..l[k + 1] - 1
    PROVE  LET y == x + D[k + 1] * t
           IN  /\ y \in 0..D[k + 2] - 1
               /\ Digit(D, l, y, k + 1) = t
               /\ \A e \in 1..k : Digit(D, l, y, e) = Digit(D, l, x, e)
  <1> DEFINE a == D[k + 1]
             b == l[k + 1]
             y == x + a * t
  <1>1. /\ n \in Nat /\ k \in Nat /\ k + 1 \in 1..n /\ D[k + 2] = a * b
        /\ a \in Nat \ {0} /\ b \in Nat \ {0}
    BY DEF PlaceValues
  <1> HIDE DEF a, b
  <1>2. y \in 0..a * b - 1
    <2>1. a * t <= a * (b - 1) /\ a * t >= 0 /\ a * t \in Int
      BY <1>1 DEF b
    <2>2. a * (b - 1) = a * b - a /\ a * b \in Int
      BY <1>1
    <2>3. x >= 0 /\ x <= a - 1 /\ x \in Int
      BY <1>1 DEF a
    <2> QED BY <1>1, <2>1, <2>2, <2>3
  <1>3. Digit(D, l, y, k + 1) = t
    <2>1. y = a * t + x /\ t \in Nat /\ x \in 0..a - 1
      BY <1>1 DEF a, b
    <2>2. y \div a = t
      BY <1>1, <2>1, DivisionIsUnique
    <2>3. t % b = t
      <3>1. b * 0 + t = t /\ t \in 0..b - 1
        BY <1>1 DEF b
      <3> QED BY <1>1, <3>1, DivisionIsUnique
    <2> QED BY <2>2, <2>3 DEF Digit, a, b
  <1>4. ASSUME NEW e \in 1..k PROVE Digit(D, l, y, e) = Digit(D, l, x, e)
    <2>0. k \in 0..n /\ e \in 1..n /\ e \in 1..n + 1
      BY <1>1
    <2>1. PICK w \in Nat : D[k + 1] = D[e] * l[e] * w
      BY <2>0, PlaceValuesDivide
    <2>2. D[e] \in Nat \ {0} /\ l[e] \in Nat \ {0}
      BY <2>0 DEF PlaceValues
    <2>3. y = x + (D[e] * l[e] * w) * t /\ x \in Nat /\ t \in Nat
      BY <1>1, <2>1 DEF a, b
    <2>4. ((x + (D[e] * l[e] * w) * t) \div D[e]) % l[e] = (x \div D[e]) % l[e]
      <3> DEFINE p == D[e]
                 m == l[e]
      <3>1. p \in Nat \ {0} /\ m \in Nat \ {0} /\ x \in Nat /\ t \in Nat
        BY <2>2, <2>3
      <3> HIDE DEF p, m
      <3> HIDE DEF y
      <3>2. \A u, v \in Nat : ((u + (p * m * w) * v) \div p) % m = (u \div p) % m
        BY <3>1, DigitStays
      <3>3. ((x + (p * m * w) * t) \div p) % m = (x \div p) % m
        BY <3>1, <3>2
      <3> QED BY <3>3 DEF p, m
    <2> QED BY <2>3, <2>4 DEF Digit
  <1> QED BY <1>1, <1>2, <1>3, <1>4 DEF a

\* Every choice of digits is that of a number.
LEMMA DigitsExist ==
    ASSUME NEW n, NEW D, NEW l, PlaceValues(n, D, l), NEW c, \A d \in 1..n : c[d] \in 0..l[d] - 1
    PROVE  \E x \in 0..D[n + 1] - 1 : \A e \in 1..n : Digit(D, l, x, e) = c[e]
  <1> DEFINE Has(k) == \E x \in 0..D[k + 1] - 1 : \A e \in 1..k : Digit(D, l, x, e) = c[e]
             S == {k \in Nat : k <= n => Has(k)}
  <1>0. n \in Nat
    BY DEF PlaceValues
  <1>1. 0 \in S
    <2>1. 0 \in 0..D[0 + 1] - 1
      BY DEF PlaceValues
    <2> QED BY <2>1
  <1>2. \A k \in Nat : k \in S => k + 1 \in S
    <2> SUFFICES ASSUME NEW k \in Nat, Has(k), k + 1 <= n PROVE Has(k + 1)
      BY <1>0
    <2>1. PICK x \in 0..D[k + 1] - 1 : \A e \in 1..k : Digit(D, l, x, e) = c[e]
      OBVIOUS
    <2>2. k \in 0..n - 1 /\ c[k + 1] \in 0..l[k + 1] - 1
      BY <1>0
    <2> DEFINE y == x + D[k + 1] * c[k + 1]
    <2>3. /\ y \in 0..D[k + 2] - 1 /\ Digit(D, l, y, k + 1) = c[k + 1]
          /\ \A e \in 1..k : Digit(D, l, y, e) = Digit(D, l, x, e)
      BY <2>2, DigitInFront
    <2> HIDE DEF y
    <2>4. \A e \in 1..k + 1 : Digit(D, l, y, e) = c[e]
      BY <2>1, <2>3
    <2>5. (k + 1) + 1 = k + 2
      OBVIOUS
    <2> QED BY <2>3, <2>4, <2>5
  <1>3. n \in S
    <2> HIDE DEF S
    <2> QED BY <1>0, <1>1, <1>2, SetInduction
  <1> QED BY <1>0, <1>3

\* A number is known by its digits.
LEMMA DigitsDetermine ==
    ASSUME NEW n, NEW D, NEW l, PlaceValues(n, D, l),
           NEW x \in 0..D[n + 1] - 1, NEW y \in 0..D[n + 1] - 1,
           \A e \in 1..n : Digit(D, l, x, e) = Digit(D, l, y, e)
    PROVE  x = y
  <1> DEFINE Known(k) == \A u, v \in 0..D[k + 1] - 1 :
                            (\A e \in 1..k : Digit(D, l, u, e) = Digit(D, l, v, e)) => u = v
             S == {k \in Nat : k <= n => Known(k)}
  <1>0. n \in Nat
    BY DEF PlaceValues
  <1>1. 0 \in S
    <2>1. D[0 + 1] - 1 = 0
      BY DEF PlaceValues
    <2> QED BY <2>1
  <1>2. \A k \in Nat : k \in S => k + 1 \in S
    <2> SUFFICES ASSUME NEW k \in Nat, Known(k), k + 1 <= n,
                        NEW u \in 0..D[(k + 1) + 1] - 1, NEW v \in 0..D[(k + 1) + 1] - 1,
                        \A e \in 1..k + 1 : Digit(D, l, u, e) = Digit(D, l, v, e)
                 PROVE  u = v
      BY <1>0
    <2> DEFINE a == D[k + 1]
               b == l[k + 1]
    <2>1. /\ k \in 0..n - 1 /\ k + 1 \in 1..n /\ D[(k + 1) + 1] = a * b
          /\ a \in Nat \ {0} /\ b \in Nat \ {0}
      <3>1. k \in 0..n - 1 /\ k + 1 \in 1..n /\ k + 1 \in 1..n + 1
        BY <1>0
      <3> QED BY <3>1 DEF PlaceValues
    <2>2. ASSUME NEW z \in 0..a * b - 1
          PROVE  /\ z = (z % a) + a * Digit(D, l, z, k + 1)
                 /\ z % a \in 0..a - 1
                 /\ \A e \in 1..k : Digit(D, l, z, e) = Digit(D, l, z % a, e)
      <3> DEFINE q == z \div a
                 r == z % a
      <3> HIDE DEF a, b
      <3>1. z \in Nat /\ a * b \in Int
        BY <2>1
      <3>2. z = a * q + r /\ r \in 0..a - 1 /\ q \in Nat
        BY <2>1, <3>1, Division
      <3> HIDE DEF q, r
      <3>3. q < b
        <4> SUFFICES ASSUME q >= b PROVE FALSE
          BY <2>1, <3>2
        <4>1. a * q >= a * b
          BY <2>1, <3>2
        <4> QED BY <2>1, <3>1, <3>2, <4>1
      <3>4. z = r + a * q
        BY <2>1, <3>2
      <3>5. /\ Digit(D, l, z, k + 1) = q
            /\ \A e \in 1..k : Digit(D, l, z, e) = Digit(D, l, r, e)
        <4>1. r \in 0..D[k + 1] - 1 /\ q \in 0..l[k + 1] - 1 /\ z = r + D[k + 1] * q
          BY <2>1, <3>2, <3>3, <3>4 DEF a, b
        <4> QED BY <2>1, <4>1, DigitInFront
      <3> QED BY <3>2, <3>4, <3>5 DEF r
    <2> HIDE DEF a, b
    <2>3. u \in 0..a * b - 1 /\ v \in 0..a * b - 1
      BY <2>1
    <2>4. /\ u % a \in 0..a - 1 /\ v % a \in 0..a - 1
          /\ \A e \in 1..k : Digit(D, l, u, e) = Digit(D, l, u % a, e)
          /\ \A e \in 1..k : Digit(D, l, v, e) = Digit(D, l, v % a, e)
          /\ u = (u % a) + a * Digit(D, l, u, k + 1)
          /\ v = (v % a) + a * Digit(D, l, v, k + 1)
      BY <2>2, <2>3
    <2>5. \A e \in 1..k : e \in 1..k + 1
      OBVIOUS
    <2>6. \A e \in 1..k : Digit(D, l, u % a, e) = Digit(D, l, v % a, e)
      BY <2>4, <2>5
    <2>7. u % a = v % a
      BY <2>4, <2>6 DEF a
    <2>8. Digit(D, l, u, k + 1) = Digit(D, l, v, k + 1)
      OBVIOUS
    <2> QED BY <2>4, <2>7, <2>8
  <1>3. n \in S
    <2> HIDE DEF S
    <2> QED BY <1>0, <1>1, <1>2, SetInduction
  <1> QED BY <1>0, <1>3

\* A matrix has dimensions, and its dimensions have rows.
Dimensions(dims) ==
    /\ dims \in Seq(Range(dims)) \ {<<>>}
    /\ \A d \in DOMAIN dims : Len(dims[d]) \in Nat \ {0} /\ DOMAIN dims[d] = 1..Len(dims[d])

Lengths(dims) == [d \in 1..Len(dims) |-> Len(dims[d])]
Places(dims) == [d \in 1..Len(dims) + 1 |-> IF d <= Len(dims) THEN Divider(dims)[d] ELSE Size(dims)]

\* The loop over dimensions in expand() computes the dividers it is meant to.
LEMMA DividerIsRecursive ==
    ASSUME NEW dims, dims \in Seq(Range(dims))
    PROVE  Divider(dims) =
             [d \in DOMAIN dims |-> IF d = 1 THEN 1 ELSE Divider(dims)[d - 1] * Len(dims[d - 1])]
  <1> DEFINE Is(g, k) == g = [d \in 1..k |-> IF d = 1 THEN 1 ELSE g[d - 1] * Len(dims[d - 1])]
             S == {k \in Nat : \E g : Is(g, k)}
  <1>1. 0 \in S
    <2>1. Is([d \in 1..0 |-> 0], 0)
      OBVIOUS
    <2> QED BY <2>1
  <1>2. \A k \in Nat : k \in S => k + 1 \in S
    <2> SUFFICES ASSUME NEW k \in Nat, k \in S PROVE k + 1 \in S
      OBVIOUS
    <2>0. PICK g : Is(g, k)
      OBVIOUS
    <2> DEFINE h == [d \in 1..k + 1 |-> IF d = 1 THEN 1 ELSE g[d - 1] * Len(dims[d - 1])]
    <2>1. \A d \in 1..k : g[d] = IF d = 1 THEN 1 ELSE g[d - 1] * Len(dims[d - 1])
      BY <2>0
    <2>2. \A d \in 1..k : h[d] = g[d]
      BY <2>1
    <2>3. \A d \in 1..k + 1 : d # 1 => d - 1 \in 1..k
      OBVIOUS
    <2>4. \A d \in 1..k + 1 : h[d] = IF d = 1 THEN 1 ELSE h[d - 1] * Len(dims[d - 1])
      BY <2>2, <2>3
    <2>5. Is(h, k + 1)
      BY <2>4
    <2>6. \E f : Is(f, k + 1)
      <3> HIDE DEF Is, h
      <3> QED BY <2>5
    <2> HIDE DEF Is
    <2> QED BY <2>6
  <1>3. DOMAIN dims = 1..Len(dims) /\ Len(dims) \in Nat
    BY OverItsRange
  <1>4. Len(dims) \in S
    <2> HIDE DEF S
    <2> QED BY <1>1, <1>2, <1>3, SetInduction
  <1>5. \E g : g = [d \in DOMAIN dims |-> IF d = 1 THEN 1 ELSE g[d - 1] * Len(dims[d - 1])]
    BY <1>3, <1>4
  <1> QED BY <1>5 DEF Divider

\* The dividers of expand() are the place values of its digits.
LEMMA PlacesFacts ==
    ASSUME NEW dims, Dimensions(dims)
    PROVE  /\ PlaceValues(Len(dims), Places(dims), Lengths(dims))
           /\ Size(dims) \in Nat \ {0} /\ Places(dims)[Len(dims) + 1] = Size(dims)
           /\ \A d \in DOMAIN dims : Places(dims)[d] = Divider(dims)[d]
           /\ DOMAIN dims = 1..Len(dims)
  <1> DEFINE n == Len(dims)
             V == Divider(dims)
             D == Places(dims)
             l == Lengths(dims)
             S == {k \in Nat : k + 1 <= n => V[k + 1] \in Nat \ {0}}
  <1>1. dims \in Seq(Range(dims)) /\ DOMAIN dims = 1..n /\ n \in Nat \ {0}
    BY OverItsRange DEF Dimensions
  <1>2. V = [d \in DOMAIN dims |-> IF d = 1 THEN 1 ELSE V[d - 1] * Len(dims[d - 1])]
    BY <1>1, DividerIsRecursive
  <1> HIDE DEF V
  <1>3. V[1] = 1 /\ \A d \in 1..n : d # 1 => V[d] = V[d - 1] * Len(dims[d - 1])
    <2>1. \A d \in DOMAIN dims : V[d] = IF d = 1 THEN 1 ELSE V[d - 1] * Len(dims[d - 1])
      <3> SUFFICES ASSUME NEW d \in DOMAIN dims
                   PROVE  V[d] = IF d = 1 THEN 1 ELSE V[d - 1] * Len(dims[d - 1])
        OBVIOUS
      <3> QED BY <1>2, Zenon
    <2>2. DOMAIN dims = 1..n /\ 1 \in 1..n
      BY <1>1
    <2> QED BY <2>1, <2>2, Zenon
  <1>4. \A d \in 1..n : l[d] = Len(dims[d]) /\ l[d] \in Nat \ {0}
    BY <1>1 DEF Lengths, Dimensions
  <1>5. \A k \in Nat : k + 1 <= n => V[k + 1] \in Nat \ {0}
    <2>1. 0 \in S
      BY <1>3
    <2>2. \A k \in Nat : k \in S => k + 1 \in S
      <3> SUFFICES ASSUME NEW k \in Nat, k + 2 <= n, V[k + 1] \in Nat \ {0}
                   PROVE  V[k + 2] \in Nat \ {0}
        BY <1>1
      <3>1. V[k + 2] = V[k + 1] * l[k + 1] /\ l[k + 1] \in Nat \ {0}
        <4>1. k + 2 \in 1..n /\ k + 1 \in 1..n /\ (k + 2) - 1 = k + 1 /\ k + 2 # 1
          BY <1>1
        <4> QED BY <4>1, <1>3, <1>4
      <3> QED BY <3>1
    <2>3. Nat \subseteq S
      <3> HIDE DEF S
      <3> QED BY <2>1, <2>2, SetInduction
    <2> QED BY <2>3
  <1>6. \A d \in 1..n : V[d] \in Nat \ {0}
    <2> SUFFICES ASSUME NEW d \in 1..n PROVE V[d] \in Nat \ {0}
      OBVIOUS
    <2>1. d - 1 \in Nat /\ (d - 1) + 1 = d /\ d <= n
      BY <1>1
    <2> QED BY <1>5, <2>1
  <1>7. Size(dims) = V[n] * l[n] /\ Size(dims) \in Nat \ {0}
    <2>1. n \in 1..n
      BY <1>1
    <2>2. Size(dims) = V[n] * l[n]
      BY <2>1, <1>4 DEF Size, V
    <2> QED BY <2>1, <2>2, <1>4, <1>6
  <1>8. D[n + 1] = Size(dims) /\ \A d \in 1..n : D[d] = V[d]
    BY <1>1 DEF Places, V
  <1>9. D \in [1..n + 1 -> Nat \ {0}]
    BY <1>1, <1>6, <1>7 DEF Places, V
  <1>10. \A d \in 1..n : D[d + 1] = D[d] * l[d]
    <2> SUFFICES ASSUME NEW d \in 1..n PROVE D[d + 1] = D[d] * l[d]
      OBVIOUS
    <2>1. CASE d = n
      BY <2>1, <1>7, <1>8
    <2>2. CASE d # n
      <3>1. d + 1 \in 1..n /\ (d + 1) - 1 = d /\ d + 1 # 1
        <4> HIDE DEF n
        <4>1. n \in Nat /\ d \in Nat /\ d >= 1 /\ d <= n /\ d # n
          BY <1>1, <2>2
        <4> QED BY <4>1
      <3> QED BY <3>1, <1>3, <1>4, <1>8
    <2> QED BY <2>1, <2>2
  <1>11. l \in [1..n -> Nat \ {0}] /\ D[1] = 1
    <2>1. 1 \in 1..n
      BY <1>1
    <2> QED BY <2>1, <1>3, <1>4, <1>8 DEF Lengths
  <1>12. PlaceValues(n, D, l)
    <2> HIDE DEF n, D, l
    <2> QED BY <1>1, <1>9, <1>10, <1>11 DEF PlaceValues
  <1> QED BY <1>1, <1>7, <1>8, <1>12 DEF V

----------------------------------------------------------------------------
(* Combinations of tags                                                    *)

\* The rows that expand() takes for its entry i.
DigitsOf(dims, i) == [d \in DOMAIN dims |-> (((i - 1) \div Divider(dims)[d]) % Len(dims[d])) + 1]

\* expand() makes each combination of rows once.
LEMMA ExpandFacts ==
    ASSUME NEW dims, Dimensions(dims)
    PROVE  /\ DOMAIN Expand(dims) = 1..Size(dims) /\ Size(dims) \in Nat \ {0}
           /\ \A i \in 1..Size(dims) : /\ Expand(dims)[i] = Chosen(dims, DigitsOf(dims, i))
                                       /\ DigitsOf(dims, i) \in DigitChoices(dims)
           /\ \A i, k \in 1..Size(dims) : DigitsOf(dims, i) = DigitsOf(dims, k) => i = k
           /\ \A c \in DigitChoices(dims) : \E i \in 1..Size(dims) : DigitsOf(dims, i) = c
  <1> DEFINE n == Len(dims)
             D == Places(dims)
             l == Lengths(dims)
             s == Size(dims)
  <1>1. /\ PlaceValues(n, D, l) /\ s \in Nat \ {0} /\ D[n + 1] = s
        /\ \A d \in DOMAIN dims : D[d] = Divider(dims)[d]
        /\ DOMAIN dims = 1..n
    BY PlacesFacts
  <1>2. \A d \in 1..n : l[d] = Len(dims[d]) /\ l[d] \in Nat \ {0} /\ DOMAIN dims[d] = 1..l[d]
    BY <1>1 DEF Lengths, Dimensions
  <1>3. \A i : DigitsOf(dims, i) = [d \in 1..n |-> Digit(D, l, i - 1, d) + 1]
    BY <1>1, <1>2 DEF DigitsOf, Digit
  <1>4. \A x \in Nat, d \in 1..n : Digit(D, l, x, d) \in 0..l[d] - 1
    <2> SUFFICES ASSUME NEW x \in Nat, NEW d \in 1..n PROVE Digit(D, l, x, d) \in 0..l[d] - 1
      OBVIOUS
    <2>1. D[d] \in Nat \ {0}
      <3>1. d \in 1..n + 1 /\ D \in [1..n + 1 -> Nat \ {0}]
        BY <1>1 DEF PlaceValues
      <3> QED BY <3>1
    <2>2. x \div D[d] \in Nat
      BY <2>1, Division
    <2> QED BY <1>2, <2>2, Division DEF Digit
  <1> HIDE DEF n, D, l, s
  <1>5. \A i \in 1..s : i - 1 \in 0..s - 1 /\ i - 1 \in Nat
    BY <1>1
  <1>6. ASSUME NEW i \in 1..s PROVE DigitsOf(dims, i) \in DigitChoices(dims)
    <2>1. \A d \in 1..n : DigitsOf(dims, i)[d] \in DOMAIN dims[d]
      <3> SUFFICES ASSUME NEW d \in 1..n PROVE DigitsOf(dims, i)[d] \in DOMAIN dims[d]
        OBVIOUS
      <3>1. DigitsOf(dims, i)[d] = Digit(D, l, i - 1, d) + 1
        BY <1>3
      <3>2. Digit(D, l, i - 1, d) \in 0..l[d] - 1
        BY <1>4, <1>5
      <3> HIDE DEF Digit
      <3> QED BY <1>2, <3>1, <3>2
    <2>2. DigitsOf(dims, i) = [d \in 1..n |-> DigitsOf(dims, i)[d]]
      BY <1>3
    <2> QED BY <1>1, <2>1, <2>2 DEF DigitChoices
  <1>7. ASSUME NEW i \in 1..s, NEW k \in 1..s, DigitsOf(dims, i) = DigitsOf(dims, k) PROVE i = k
    <2>1. \A d \in 1..n : Digit(D, l, i - 1, d) + 1 = Digit(D, l, k - 1, d) + 1
      BY <1>3, <1>7
    <2>2. \A d \in 1..n : Digit(D, l, i - 1, d) = Digit(D, l, k - 1, d)
      <3> SUFFICES ASSUME NEW d \in 1..n PROVE Digit(D, l, i - 1, d) = Digit(D, l, k - 1, d)
        OBVIOUS
      <3>1. Digit(D, l, i - 1, d) \in Int /\ Digit(D, l, k - 1, d) \in Int
        BY <1>2, <1>4, <1>5
      <3> QED BY <2>1, <3>1
    <2>3. i - 1 = k - 1
      <3>1. i - 1 \in 0..D[n + 1] - 1 /\ k - 1 \in 0..D[n + 1] - 1
        BY <1>1, <1>5
      <3>2. \A u, v \in 0..D[n + 1] - 1 :
                (\A d \in 1..n : Digit(D, l, u, d) = Digit(D, l, v, d)) => u = v
        BY <1>1, DigitsDetermine
      <3> QED BY <2>2, <3>1, <3>2
    <2> QED BY <1>1, <2>3
  <1>8. ASSUME NEW c \in DigitChoices(dims) PROVE \E i \in 1..s : DigitsOf(dims, i) = c
    <2>1. c = [d \in 1..n |-> c[d]] /\ \A d \in 1..n : c[d] \in 1..l[d]
      BY <1>1, <1>2 DEF DigitChoices
    <2> DEFINE e == [d \in 1..n |-> c[d] - 1]
    <2>2. \A d \in 1..n : e[d] \in 0..l[d] - 1 /\ e[d] + 1 = c[d]
      BY <1>2, <2>1
    <2> HIDE DEF e
    <2>3. PICK x \in 0..D[n + 1] - 1 : \A d \in 1..n : Digit(D, l, x, d) = e[d]
      BY <1>1, <2>2, DigitsExist
    <2>4. x + 1 \in 1..s /\ (x + 1) - 1 = x
      BY <1>1, <2>3
    <2>5. DigitsOf(dims, x + 1) = [d \in 1..n |-> Digit(D, l, x, d) + 1]
      BY <1>3, <2>4
    <2>6. DigitsOf(dims, x + 1) = c
      BY <2>1, <2>2, <2>3, <2>5
    <2> QED BY <2>4, <2>6
  <1>9. DOMAIN Expand(dims) = 1..s
    BY DEF Expand, s
  <1>10. ASSUME NEW i \in 1..s PROVE Expand(dims)[i] = Chosen(dims, DigitsOf(dims, i))
    <2>1. \A d \in DOMAIN dims :
            DigitsOf(dims, i)[d] = (((i - 1) \div Divider(dims)[d]) % Len(dims[d])) + 1
      BY DEF DigitsOf
    <2>2. Expand(dims)[i] =
            UNION {dims[d][(((i - 1) \div Divider(dims)[d]) % Len(dims[d])) + 1] : d \in DOMAIN dims}
      BY DEF Expand, s
    <2> QED BY <2>1, <2>2 DEF Chosen
  <1> QED BY <1>1, <1>6, <1>7, <1>8, <1>9, <1>10 DEF s

\* All combinations have the labels of the dimensions.
LEMMA CombinationsShareLabels ==
    ASSUME NEW dims,
           \A d \in DOMAIN dims : \A r, s \in DOMAIN dims[d] : LabelsOf(dims[d][r]) = LabelsOf(dims[d][s]),
           NEW b \in DigitChoices(dims), NEW c \in DigitChoices(dims)
    PROVE  LabelsOf(Chosen(dims, b)) = LabelsOf(Chosen(dims, c))
  <1>1. ASSUME NEW x \in DigitChoices(dims), NEW y \in DigitChoices(dims),
               NEW l \in LabelsOf(Chosen(dims, x))
        PROVE  l \in LabelsOf(Chosen(dims, y))
    <2>1. PICK d \in DOMAIN dims : l \in LabelsOf(dims[d][x[d]])
      BY DEF LabelsOf, Chosen
    <2>2. x[d] \in DOMAIN dims[d] /\ y[d] \in DOMAIN dims[d]
      BY DEF DigitChoices
    <2>3. l \in LabelsOf(dims[d][y[d]])
      BY <2>1, <2>2
    <2> QED BY <2>3 DEF LabelsOf, Chosen
  <1> QED BY <1>1

----------------------------------------------------------------------------
(* What the multiplier has made                                            *)

Mats == project.matrices

\* How many matrices have been started, and the place of the name that is being
\* combined in the list of the latest one.
Started == Len(Mats) - Len(matrices)
Place == Len(Mats[Started].names) - Len(names) + 1

\* A tagged job comes from a matrix, one of its names, and one of its combinations;
\* those before the current ones have been made.
Triples == {t \in Nat \X Nat \X Nat :
                /\ t[1] \in DOMAIN Mats
                /\ t[2] \in DOMAIN Mats[t[1]].names
                /\ t[3] \in 1..Size(Mats[t[1]].dims)}
Made == {t \in Triples :
            \/ t[1] < Started
            \/ t[1] = Started /\ (t[2] < Place \/ (t[2] = Place /\ t[3] < column))}

JobOf(t) == [name |-> Mats[t[1]].names[t[2]], tags |-> Expand(Mats[t[1]].dims)[t[3]]]

\* Where the multiplier is.
Progress ==
    /\ Len(matrices) <= Len(Mats)
    /\ \A i \in 1..Len(matrices) : matrices[i] = Mats[Started + i]
    /\ names = <<>> => column = 1
    /\ names # <<>> => /\ Started \in DOMAIN Mats /\ combos = Expand(Mats[Started].dims)
                       /\ Len(names) <= Len(Mats[Started].names)
                       /\ \A i \in 1..Len(names) : names[i] = Mats[Started].names[Place - 1 + i]
                       /\ column \in 1..Size(Mats[Started].dims) + 1
    /\ phase \in {"resolve", "done"} => names = <<>> /\ matrices = <<>>

\* The jobs of test cases in matrices are those that have been made, each once;
\* other test cases have at most one job, at the end.
Tagged == {j \in DOMAIN jobs : MatricesOf(jobs[j].name) # {}}
Layout == \E f \in Bijection(Tagged, Made) : \A j \in Tagged : jobs[j] = JobOf(f[j])
Untagged ==
    /\ phase = "multiply" => Tagged = DOMAIN jobs
    /\ \A j \in DOMAIN jobs \ Tagged :
            jobs[j].tags = {} /\ \A k \in DOMAIN jobs : jobs[k].name = jobs[j].name => k = j

MInv == Progress /\ Layout /\ Untagged

\* What is assumed of a matrix, in the form the proofs use.
LEMMA MatrixFacts ==
    ASSUME project \in Projects, NEW k \in DOMAIN Mats
    PROVE  /\ Mats \in Seq(Range(Mats)) /\ DOMAIN Mats = 1..Len(Mats) /\ Len(Mats) \in Nat
           /\ Mats[k].names \in Seq(Tests) /\ Len(Mats[k].names) \in Nat
           /\ DOMAIN Mats[k].names = 1..Len(Mats[k].names)
           /\ IsInjective(Mats[k].names)
           /\ Dimensions(Mats[k].dims)
           /\ \A d \in DOMAIN Mats[k].dims : \A r, s \in DOMAIN Mats[k].dims[d] :
                    LabelsOf(Mats[k].dims[d][r]) = LabelsOf(Mats[k].dims[d][s])
  <1> DEFINE m == Mats[k]
  <1>1. m \in Range(project.matrices)
    BY DEF Range, Mats
  <1>2. m.names \in Seq(Tests) /\ project.matrices \in Seq(Range(project.matrices))
    BY <1>1, ProjectFacts DEF Tests
  <1>3. /\ IsInjective(m.names)
        /\ m.dims \in Seq(Range(m.dims)) \ {<<>>}
        /\ \A rows \in Range(m.dims) : /\ rows \in Seq(Range(rows)) \ {<<>>}
                                       /\ \A S, T \in Range(rows) : LabelsOf(S) = LabelsOf(T)
    BY <1>1, MatricesAssumption
  <1> HIDE DEF m
  <1>4. ASSUME NEW d \in DOMAIN m.dims
        PROVE  /\ Len(m.dims[d]) \in Nat \ {0} /\ DOMAIN m.dims[d] = 1..Len(m.dims[d])
               /\ \A r, s \in DOMAIN m.dims[d] : LabelsOf(m.dims[d][r]) = LabelsOf(m.dims[d][s])
    <2> DEFINE rows == m.dims[d]
    <2>1. rows \in Range(m.dims)
      BY DEF Range
    <2>2. rows \in Seq(Range(rows)) \ {<<>>} /\ \A S, T \in Range(rows) : LabelsOf(S) = LabelsOf(T)
      BY <1>3, <2>1
    <2> HIDE DEF rows
    <2>3. Len(rows) \in Nat \ {0} /\ DOMAIN rows = 1..Len(rows)
      BY <2>2
    <2>4. \A r \in DOMAIN rows : rows[r] \in Range(rows)
      BY DEF Range
    <2> QED BY <2>2, <2>3, <2>4 DEF rows
  <1>5. Dimensions(m.dims)
    BY <1>3, <1>4 DEF Dimensions
  <1>6. Len(m.names) \in Nat /\ DOMAIN m.names = 1..Len(m.names)
    BY <1>2
  <1>7. Mats \in Seq(Range(Mats)) /\ DOMAIN Mats = 1..Len(Mats) /\ Len(Mats) \in Nat
    BY <1>2 DEF Mats
  <1> QED BY <1>2, <1>3, <1>4, <1>5, <1>6, <1>7 DEF m

\* The lists the multiplier works on are sequences.
LEMMA MatsFacts ==
    ASSUME IInv
    PROVE  /\ Mats \in Seq(Range(Mats)) /\ DOMAIN Mats = 1..Len(Mats) /\ Len(Mats) \in Nat
           /\ Len(matrices) \in Nat /\ Len(names) \in Nat
           /\ names \in Seq(Tests) /\ matrices \in Seq(Range(Mats))
  <1>1. Mats \in Seq(Range(Mats))
    BY ProjectFacts DEF Mats, IInv
  <1>2. DOMAIN Mats = 1..Len(Mats) /\ Len(Mats) \in Nat
    BY <1>1
  <1>3. names \in Seq(Tests) /\ matrices \in Seq(Range(Mats))
    BY DEF IInv, JobsInv, Mats
  <1> QED BY <1>1, <1>2, <1>3

\* Nothing is made, and no job changes.
LEMMA LayoutStays ==
    ASSUME Layout, UNCHANGED project, Tagged' = Tagged, Made' = Made,
           \A j \in Tagged : jobs'[j] = jobs[j]
    PROVE  Layout'
  <1>1. PICK f \in Bijection(Tagged, Made) : \A j \in Tagged : jobs[j] = JobOf(f[j])
    BY DEF Layout
  <1>2. \A t : JobOf(t)' = JobOf(t)
    BY DEF JobOf, Mats
  <1>3. f \in Bijection(Tagged', Made') /\ \A j \in Tagged' : jobs'[j] = JobOf(f[j])'
    BY <1>1, <1>2
  <1> QED BY <1>3 DEF Layout

\* The matrices of a test case are those of the documents.
LEMMA MatricesStay == UNCHANGED project => \A n : MatricesOf(n)' = MatricesOf(n)
  BY DEF MatricesOf

\* A step of the resolver, or one that refuses, makes no job.
LEMMA MInvStays ==
    ASSUME MInv, UNCHANGED <<project, multiplierVars>>,
           phase' = "multiply" => phase = "multiply",
           phase' \in {"resolve", "done"} => phase \in {"resolve", "done"}
    PROVE  MInv'
  <1>1. Progress'
    BY DEF MInv, Progress, multiplierVars, Mats, Started, Place
  <1>2. Tagged' = Tagged
    BY MatricesStay DEF Tagged, multiplierVars
  <1>3. Made' = Made
    BY DEF Made, Triples, Mats, Started, Place, multiplierVars
  <1>4. Layout'
    BY <1>2, <1>3, LayoutStays DEF MInv, multiplierVars
  <1>5. Untagged'
    BY <1>2 DEF MInv, Untagged, multiplierVars
  <1> QED BY <1>1, <1>4, <1>5 DEF MInv

\* When no name is left, all names of the matrices that were started are done.
LEMMA MadeAll ==
    ASSUME IInv, MInv, names = <<>>
    PROVE  Made = {t \in Triples : t[1] <= Started}
  <1>1. Started \in Int
    BY MatsFacts DEF Started
  <1>2. ASSUME NEW t \in Triples, t[1] = Started PROVE t[2] < Place
    <2>1. t[1] \in DOMAIN Mats /\ t[2] \in DOMAIN Mats[t[1]].names
      BY DEF Triples
    <2>2. t[2] \in 1..Len(Mats[Started].names) /\ Len(Mats[Started].names) \in Nat
      BY <1>2, <2>1, MatrixFacts DEF IInv
    <2>3. Place = Len(Mats[Started].names) - 0 + 1
      BY DEF Place
    <2> QED BY <2>2, <2>3
  <1>3. \A t \in Triples : t[1] \in Nat
    BY DEF Triples
  <1> QED BY <1>1, <1>2, <1>3 DEF Made

\* Nothing is made before the first matrix is started.
LEMMA InitMInv == Init => MInv
  <1> SUFFICES ASSUME Init PROVE MInv
    OBVIOUS
  <1>1. matrices = Mats /\ names = <<>> /\ column = 1 /\ jobs = <<>> /\ phase = "multiply"
    BY DEF Init, Mats
  <1>2. Mats \in Seq(Range(Mats))
    BY ProjectFacts DEF Init, Mats
  <1>3. Len(Mats) \in Nat /\ DOMAIN Mats = 1..Len(Mats) /\ Started = 0
    BY <1>1, <1>2 DEF Started
  <1>4. Progress
    BY <1>1, <1>3 DEF Progress
  <1>5. Tagged = {} /\ DOMAIN jobs = {}
    BY <1>1 DEF Tagged
  <1>6. Made = {}
    <2>1. \A t \in Triples : t[1] \in 1..Len(Mats)
      BY <1>3 DEF Triples
    <2> QED BY <1>3, <2>1 DEF Made
  <1>7. Layout
    <2> DEFINE f == [j \in {} |-> 0]
    <2>1. f \in Bijection({}, {})
      BY DEF Bijection, Injection, Surjection, IsInjective
    <2> QED BY <1>5, <1>6, <2>1 DEF Layout
  <1>8. Untagged
    BY <1>1, <1>5 DEF Untagged
  <1> QED BY <1>4, <1>7, <1>8 DEF MInv

\* Starting a matrix: all jobs of the earlier ones are made.
LEMMA StartMatrixMInv == ASSUME IInv, MInv, StartMatrix PROVE MInv'
  <1>0. names = <<>> /\ matrices # <<>> /\ phase = "multiply"
    BY DEF StartMatrix
  <1>1. CASE UNCHANGED <<names, combos, matrices>>
    <2>1. phase' \notin {"resolve", "done"}
      BY <1>0, <1>1 DEF StartMatrix, Exit, MInv, Progress
    <2> QED BY <1>0, <1>1, <2>1, MInvStays DEF StartMatrix, multiplierVars
  <1>2. CASE ~UNCHANGED <<names, combos, matrices>>
    <2> DEFINE m == Head(matrices)
    <2>1. /\ m.names # <<>> /\ names' = m.names /\ combos' = Expand(m.dims)
          /\ matrices' = Tail(matrices) /\ UNCHANGED <<project, jobs, column, phase>>
      BY <1>2 DEF StartMatrix
    <2>2. /\ Mats \in Seq(Range(Mats)) /\ DOMAIN Mats = 1..Len(Mats) /\ Len(Mats) \in Nat
          /\ Len(matrices) \in Nat /\ matrices \in Seq(Range(Mats))
          /\ Len(matrices) <= Len(Mats) /\ column = 1
          /\ \A i \in 1..Len(matrices) : matrices[i] = Mats[Started + i]
      BY <1>0, MatsFacts DEF MInv, Progress
    <2> DEFINE k == Started + 1
    <2>3. /\ Len(matrices) # 0 /\ Len(Tail(matrices)) = Len(matrices) - 1
          /\ Head(matrices) = matrices[1]
          /\ \A i \in 1..Len(matrices) - 1 : Tail(matrices)[i] = matrices[i + 1]
      BY <1>0, <2>2
    <2>4. Mats' = Mats /\ Started' = k /\ k \in DOMAIN Mats /\ Started \in Nat
      BY <2>1, <2>2, <2>3 DEF Started, Mats
    <2>5. m = Mats[k]
      BY <2>2, <2>3
    <2> HIDE DEF m, k
    <2>6. m.names \in Seq(Tests) /\ Len(m.names) \in Nat /\ Dimensions(m.dims)
      BY <2>4, <2>5, MatrixFacts DEF IInv
    <2>7. Place' = 1
      BY <2>1, <2>4, <2>5, <2>6 DEF Place
    <2>8. Progress'
      <3>1. Len(matrices') <= Len(Mats')
        BY <2>1, <2>2, <2>3, <2>4
      <3>2. \A i \in 1..Len(matrices') : matrices'[i] = Mats'[Started' + i]
        <4> SUFFICES ASSUME NEW i \in 1..Len(matrices) - 1 PROVE Tail(matrices)[i] = Mats[k + i]
          BY <2>1, <2>3, <2>4
        <4>1. Started + (i + 1) = k + i /\ i + 1 \in 1..Len(matrices)
          BY <2>2, <2>4 DEF k
        <4> QED BY <2>2, <2>3, <4>1
      <3>3. names' # <<>> /\ column' \in 1..Size(m.dims) + 1
        BY <2>1, <2>2, <2>6, PlacesFacts
      <3>4. \A i \in 1..Len(names') : names'[i] = Mats'[Started'].names[Place' - 1 + i]
        BY <2>1, <2>4, <2>5, <2>6, <2>7
      <3>5. Len(names') <= Len(Mats'[Started'].names)
        BY <2>1, <2>4, <2>5, <2>6
      <3> QED BY <1>0, <2>1, <2>4, <2>5, <3>1, <3>2, <3>3, <3>4, <3>5 DEF Progress
    <2>9. Tagged' = Tagged
      BY <2>1, MatricesStay DEF Tagged
    <2>10. Made' = Made
      <3>1. Triples' = Triples
        BY <2>1 DEF Triples, Mats
      <3>2. \A t \in Triples : t[1] \in Nat /\ t[2] \in Nat \ {0} /\ t[3] \in Nat \ {0}
        <4> SUFFICES ASSUME NEW t \in Triples PROVE t[1] \in Nat /\ t[2] \in Nat \ {0} /\ t[3] \in Nat \ {0}
          OBVIOUS
        <4>1. t[1] \in DOMAIN Mats /\ t[2] \in DOMAIN Mats[t[1]].names /\ t[3] \in 1..Size(Mats[t[1]].dims)
              /\ t \in Nat \X Nat \X Nat
          BY DEF Triples
        <4>2. DOMAIN Mats[t[1]].names = 1..Len(Mats[t[1]].names)
          BY <4>1, MatrixFacts DEF IInv
        <4> QED BY <4>1, <4>2
      <3>3. Made' = {t \in Triples : t[1] < k}
        BY <2>1, <2>2, <2>4, <2>7, <3>1, <3>2 DEF Made
      <3>4. Made = {t \in Triples : t[1] <= Started}
        BY <1>0, MadeAll
      <3> QED BY <2>4, <3>2, <3>3, <3>4 DEF k
    <2>11. Layout'
      BY <2>1, <2>9, <2>10, LayoutStays DEF MInv
    <2>12. Untagged'
      BY <2>1, <2>9 DEF MInv, Untagged
    <2> QED BY <2>8, <2>11, <2>12 DEF MInv
  <1> QED BY <1>1, <1>2

\* Going on to the next name: all combinations of the last one are made.
LEMMA NextNameMInv == ASSUME IInv, MInv, NextName PROVE MInv'
  <1>1. /\ phase = "multiply" /\ names # <<>> /\ column \notin DOMAIN combos
        /\ names' = Tail(names) /\ column' = 1
        /\ UNCHANGED <<project, jobs, matrices, combos, phase>>
    BY DEF NextName
  <1> DEFINE m == Mats[Started]
  <1>2. /\ Started \in DOMAIN Mats /\ combos = Expand(m.dims) /\ Len(names) <= Len(m.names)
        /\ \A i \in 1..Len(names) : names[i] = m.names[Place - 1 + i]
        /\ column \in 1..Size(m.dims) + 1
    BY <1>1 DEF MInv, Progress
  <1>3. /\ m.names \in Seq(Tests) /\ Len(m.names) \in Nat /\ Dimensions(m.dims)
        /\ Len(names) \in Nat /\ names \in Seq(Tests)
    BY <1>2, MatrixFacts, MatsFacts DEF IInv
  <1>4. Mats' = Mats /\ Started' = Started
    BY <1>1 DEF Mats, Started
  <1>5. column = Size(m.dims) + 1 /\ Size(m.dims) \in Nat \ {0}
    BY <1>1, <1>2, <1>3, ExpandFacts
  <1>6. /\ Len(names) # 0 /\ Len(Tail(names)) = Len(names) - 1
        /\ \A i \in 1..Len(names) - 1 : Tail(names)[i] = names[i + 1]
    BY <1>1, <1>3
  <1>7. Place' = Place + 1 /\ Place \in Nat \ {0}
    <2>1. Place = Len(m.names) - Len(names) + 1
      BY DEF Place
    <2>2. Place' = Len(m.names) - (Len(names) - 1) + 1
      BY <1>1, <1>4, <1>6 DEF Place
    <2> HIDE DEF m
    <2> QED BY <1>2, <1>3, <2>1, <2>2
  <1>8. Progress'
    <2>1. \A i \in 1..Len(names') : names'[i] = m.names[Place' - 1 + i]
      <3> SUFFICES ASSUME NEW i \in 1..Len(names) - 1 PROVE Tail(names)[i] = m.names[Place' - 1 + i]
        BY <1>1, <1>6
      <3>1. Place - 1 + (i + 1) = Place' - 1 + i /\ i + 1 \in 1..Len(names)
        BY <1>3, <1>7
      <3> QED BY <1>2, <1>6, <3>1
    <2>2. Len(names') <= Len(m.names) /\ column' \in 1..Size(m.dims) + 1
      BY <1>1, <1>2, <1>3, <1>5, <1>6
    <2>3. /\ Len(matrices') <= Len(Mats')
          /\ \A i \in 1..Len(matrices') : matrices'[i] = Mats'[Started' + i]
          /\ phase' = "multiply"
      BY <1>1, <1>4 DEF MInv, Progress
    <2>4. combos' = Expand(m.dims) /\ Started' \in DOMAIN Mats' /\ Mats'[Started'] = m
      BY <1>1, <1>2, <1>4
    <2> HIDE DEF m
    <2> QED BY <1>1, <2>1, <2>2, <2>3, <2>4 DEF Progress
  <1>9. Tagged' = Tagged
    BY <1>1, MatricesStay DEF Tagged
  <1>10. Made' = Made
    <2>1. Triples' = Triples
      BY <1>1 DEF Triples, Mats
    <2>2. ASSUME NEW t \in Triples, t[1] = Started
          PROVE  /\ t[2] \in Nat /\ t[3] \in Nat /\ t[3] >= 1 /\ t[3] < column
      <3>1. t[3] \in 1..Size(m.dims) /\ t[2] \in Nat
        BY <2>2 DEF Triples
      <3> QED BY <1>5, <3>1
    <2>3. \A t \in Triples : t[1] = Started =>
            ((t[2] < Place \/ (t[2] = Place /\ t[3] < column))
                <=> (t[2] < Place' \/ (t[2] = Place' /\ t[3] < column')))
      BY <1>1, <1>7, <2>2
    <2> QED BY <1>4, <2>1, <2>3 DEF Made
  <1>11. Layout'
    BY <1>1, <1>9, <1>10, LayoutStays DEF MInv
  <1>12. Untagged'
    BY <1>1, <1>9 DEF MInv, Untagged
  <1> QED BY <1>8, <1>11, <1>12 DEF MInv

\* A bijection with one more pair.
LEMMA OneMorePair ==
    ASSUME NEW S, NEW T, NEW f \in Bijection(S, T), NEW a, a \notin S, NEW b, b \notin T
    PROVE  [x \in S \cup {a} |-> IF x = a THEN b ELSE f[x]] \in Bijection(S \cup {a}, T \cup {b})
  <1> DEFINE g == [x \in S \cup {a} |-> IF x = a THEN b ELSE f[x]]
  <1>1. /\ f \in [S -> T] /\ \A x, y \in S : f[x] = f[y] => x = y
        /\ \A t \in T : \E s \in S : f[s] = t
    BY DEF Bijection, Injection, Surjection, IsInjective
  <1>2. g \in [S \cup {a} -> T \cup {b}] /\ g[a] = b /\ \A x \in S : g[x] = f[x] /\ f[x] \in T
    BY <1>1
  <1>3. DOMAIN g = S \cup {a}
    OBVIOUS
  <1> HIDE DEF g
  <1>4. \A x, y \in S \cup {a} : g[x] = g[y] => x = y
    BY <1>1, <1>2
  <1>5. \A t \in T \cup {b} : \E s \in S \cup {a} : g[s] = t
    BY <1>1, <1>2
  <1>6. g \in Bijection(S \cup {a}, T \cup {b})
    BY <1>2, <1>3, <1>4, <1>5 DEF Bijection, Injection, Surjection, IsInjective
  <1> QED BY <1>6 DEF g

\* One more job, and one more combination is made.
LEMMA CombineNameMInv == ASSUME IInv, MInv, CombineName PROVE MInv'
  <1> DEFINE m == Mats[Started]
             last == Len(jobs) + 1
             t == <<Started, Place, column>>
             job == [name |-> Head(names), tags |-> combos[column]]
  <1>1. /\ phase = "multiply" /\ names # <<>> /\ column \in DOMAIN combos
        /\ jobs' = Append(jobs, job) /\ column' = column + 1
        /\ UNCHANGED <<project, matrices, combos, names, phase>>
    BY DEF CombineName
  <1>2. /\ Started \in DOMAIN Mats /\ combos = Expand(m.dims) /\ Len(names) <= Len(m.names)
        /\ \A i \in 1..Len(names) : names[i] = m.names[Place - 1 + i]
        /\ column \in 1..Size(m.dims) + 1
    BY <1>1 DEF MInv, Progress
  <1>3. /\ Mats \in Seq(Range(Mats)) /\ DOMAIN Mats = 1..Len(Mats) /\ Len(Mats) \in Nat
        /\ m.names \in Seq(Tests) /\ Len(m.names) \in Nat /\ DOMAIN m.names = 1..Len(m.names)
        /\ Dimensions(m.dims) /\ Len(names) \in Nat /\ names \in Seq(Tests) /\ Len(matrices) \in Nat
    BY <1>2, MatrixFacts, MatsFacts DEF IInv
  <1>4. column \in 1..Size(m.dims) /\ Size(m.dims) \in Nat \ {0}
    BY <1>1, <1>2, <1>3, ExpandFacts
  <1>5. Mats' = Mats /\ Started' = Started /\ Place' = Place
    BY <1>1 DEF Mats, Started, Place
  <1>6. Place \in 1..Len(m.names) /\ Head(names) = m.names[Place]
    <2>1. Len(names) >= 1 /\ Head(names) = names[1]
      BY <1>1, <1>3
    <2>2. Place = Len(m.names) - Len(names) + 1
      BY DEF Place
    <2>3. Place \in 1..Len(m.names) /\ Place - 1 + 1 = Place
      BY <1>2, <1>3, <2>1, <2>2
    <2>4. names[1] = m.names[Place - 1 + 1]
      BY <1>2, <1>3, <2>1
    <2> QED BY <2>1, <2>3, <2>4
  <1>7. /\ DOMAIN jobs = 1..Len(jobs) /\ Len(jobs) \in Nat
        /\ DOMAIN jobs' = DOMAIN jobs \cup {last} /\ last \notin DOMAIN jobs
        /\ jobs'[last] = job
        /\ \A j \in DOMAIN jobs : jobs'[j] = jobs[j]
    <2> HIDE DEF job
    <2>1. jobs \in Seq(Range(jobs))
      BY DEF IInv, JobsInv
    <2>2. /\ DOMAIN jobs = 1..Len(jobs) /\ Len(jobs) \in Nat
          /\ DOMAIN jobs' = 1..last /\ jobs'[last] = job
          /\ \A j \in DOMAIN jobs : jobs'[j] = jobs[j]
      BY <1>1, <2>1, AppendFacts
    <2> QED BY <2>2
  <1>8. t \in Triples /\ t \notin Made /\ JobOf(t) = job
    <2>1. t[1] = Started /\ t[2] = Place /\ t[3] = column
      OBVIOUS
    <2>2. t \in Nat \X Nat \X Nat
      BY <1>2, <1>3, <1>4, <1>6
    <2>3. t \in Triples
      BY <1>2, <1>3, <1>4, <1>6, <2>1, <2>2 DEF Triples
    <2>4. ~(Started < Started) /\ ~(Place < Place) /\ ~(column < column)
      BY <1>2, <1>3, <1>4, <1>6
    <2>5. t \notin Made
      BY <2>1, <2>4 DEF Made
    <2>6. JobOf(t) = job
      BY <1>2, <1>6 DEF JobOf
    <2> QED BY <2>3, <2>5, <2>6
  <1>9. Started \in MatricesOf(job.name)
    BY <1>2, <1>3, <1>6 DEF MatricesOf, Mats, Range
  <1> HIDE DEF last, job
  <1>10. Tagged' = Tagged \cup {last} /\ last \notin Tagged
    <2>1. \A n : MatricesOf(n)' = MatricesOf(n)
      BY <1>1, MatricesStay
    <2>2. Tagged' = {j \in DOMAIN jobs' : MatricesOf(jobs'[j].name) # {}}
      BY <2>1 DEF Tagged
    <2> QED BY <1>7, <1>9, <2>2 DEF Tagged
  <1>11. Made' = Made \cup {t}
    <2>1. Triples' = Triples
      BY <1>1 DEF Triples, Mats
    <2>2. ASSUME NEW u \in Triples
          PROVE  u \in Nat \X Nat \X Nat /\ u[1] \in Nat /\ u[2] \in Nat /\ u[3] \in Nat
      BY DEF Triples
    <2>3. ASSUME NEW u \in Triples, u[1] = Started, u[2] = Place, u[3] = column PROVE u = t
      BY <2>2, <2>3
    <2>4. Made' = {u \in Triples : \/ u[1] < Started
                                   \/ u[1] = Started /\ (u[2] < Place \/ (u[2] = Place /\ u[3] < column + 1))}
      BY <1>1, <1>5, <2>1 DEF Made
    <2>5. ASSUME NEW u \in Triples PROVE u[3] < column + 1 <=> u[3] < column \/ u[3] = column
      BY <1>4, <2>2
    <2>6. ASSUME NEW u \in Made' PROVE u \in Made \cup {t}
      BY <2>3, <2>4, <2>5, <2>6 DEF Made
    <2>7. t \in Made'
      <3>1. column < column + 1
        BY <1>4
      <3> QED BY <1>8, <2>4, <3>1
    <2>8. ASSUME NEW u \in Made PROVE u \in Made'
      BY <2>4, <2>5, <2>8 DEF Made
    <2> HIDE DEF t
    <2> QED BY <2>6, <2>7, <2>8
  <1> HIDE DEF t
  <1>12. Layout'
    <2>1. PICK f \in Bijection(Tagged, Made) : \A j \in Tagged : jobs[j] = JobOf(f[j])
      BY DEF MInv, Layout
    <2>2. PICK g : g = [j \in Tagged \cup {last} |-> IF j = last THEN t ELSE f[j]]
      OBVIOUS
    <2>3. g[last] = t /\ \A j \in Tagged : g[j] = f[j]
      BY <1>10, <2>2
    <2>7. g \in Bijection(Tagged \cup {last}, Made \cup {t})
      BY <1>8, <1>10, <2>1, <2>2, OneMorePair
    <2>4. \A u : JobOf(u)' = JobOf(u)
      BY <1>1 DEF JobOf, Mats
    <2>5. \A j \in Tagged \cup {last} : jobs'[j] = JobOf(g[j])
      <3> SUFFICES ASSUME NEW j \in Tagged \cup {last} PROVE jobs'[j] = JobOf(g[j])
        OBVIOUS
      <3>1. CASE j = last
        BY <1>7, <1>8, <2>3, <3>1
      <3>2. CASE j \in Tagged
        <4>1. j \in DOMAIN jobs
          BY <3>2 DEF Tagged
        <4> QED BY <1>7, <2>1, <2>3, <3>2, <4>1
      <3> QED BY <3>1, <3>2
    <2>6. g \in Bijection(Tagged', Made') /\ \A j \in Tagged' : jobs'[j] = JobOf(g[j])'
      BY <1>10, <1>11, <2>7, <2>4, <2>5
    <2> QED BY <2>6 DEF Layout
  <1>13. Untagged'
    <2>1. Tagged' = DOMAIN jobs'
      BY <1>1, <1>7, <1>10 DEF MInv, Untagged
    <2> QED BY <2>1 DEF Untagged
  <1>14. Progress'
    <2>1. column' \in 1..Size(m.dims) + 1
      BY <1>1, <1>4
    <2> HIDE DEF m
    <2> QED BY <1>1, <1>2, <1>5, <2>1 DEF MInv, Progress, m
  <1> QED BY <1>12, <1>13, <1>14 DEF MInv

\* A test case in a matrix has a job for each combination of the matrix, as soon as
\* all matrices are done.
LEMMA NamedHasJobs ==
    ASSUME IInv, MInv, names = <<>>, matrices = <<>>
    PROVE  /\ Made = Triples
           /\ \A n \in Tests : \A k \in MatricesOf(n) : \E p \in DOMAIN Mats[k].names :
                /\ Mats[k].names[p] = n
                /\ \A i \in 1..Size(Mats[k].dims) : <<k, p, i>> \in Triples
           /\ \A t \in Triples : \E j \in Tagged : jobs[j] = JobOf(t)
  <1>1. Mats \in Seq(Range(Mats)) /\ DOMAIN Mats = 1..Len(Mats) /\ Len(Mats) \in Nat
    BY MatsFacts
  <1>2. Started = Len(Mats)
    BY <1>1 DEF Started
  <1>3. Made = Triples
    <2>1. Made = {t \in Triples : t[1] <= Started}
      BY MadeAll
    <2>2. \A t \in Triples : t[1] \in 1..Len(Mats)
      BY <1>1 DEF Triples
    <2> QED BY <1>1, <1>2, <2>1, <2>2
  <1>4. ASSUME NEW n \in Tests, NEW k \in MatricesOf(n)
        PROVE  \E p \in DOMAIN Mats[k].names :
                /\ Mats[k].names[p] = n
                /\ \A i \in 1..Size(Mats[k].dims) : <<k, p, i>> \in Triples
    <2>1. k \in DOMAIN Mats /\ n \in Range(Mats[k].names)
      BY DEF MatricesOf, Mats
    <2>2. PICK p \in DOMAIN Mats[k].names : Mats[k].names[p] = n
      BY <2>1 DEF Range
    <2>3. DOMAIN Mats[k].names = 1..Len(Mats[k].names)
      BY <2>1, MatrixFacts DEF IInv
    <2>4. ASSUME NEW i \in 1..Size(Mats[k].dims) PROVE <<k, p, i>> \in Triples
      <3>1. k \in Nat /\ p \in Nat /\ i \in Nat
        BY <1>1, <2>1, <2>3
      <3> QED BY <2>1, <2>2, <3>1 DEF Triples
    <2> QED BY <2>2, <2>4
  <1>5. ASSUME NEW t \in Triples PROVE \E j \in Tagged : jobs[j] = JobOf(t)
    <2>1. PICK f \in Bijection(Tagged, Made) : \A j \in Tagged : jobs[j] = JobOf(f[j])
      BY DEF MInv, Layout
    <2>2. PICK j \in Tagged : f[j] = t
      BY <1>3, <2>1 DEF Bijection, Surjection
    <2> QED BY <2>1, <2>2
  <1> QED BY <1>3, <1>4, <1>5

\* The jobs without tags are those of test cases in no matrix.
LEMMA AddUntaggedMInv == ASSUME IInv, MInv, AddUntagged PROVE MInv'
  <1> DEFINE U == Tests \ UsedNames
  <1>1. /\ phase = "multiply" /\ names = <<>> /\ matrices = <<>> /\ phase' = "resolve"
        /\ UNCHANGED <<project, matrices, combos, names, column>>
    BY DEF AddUntagged
  <1>2. PICK q \in Bijection(1..Cardinality(U), U) :
                jobs' = jobs \o [i \in DOMAIN q |-> [name |-> q[i], tags |-> {}]]
    BY DEF AddUntagged
  <1>3. IsFiniteSet(U)
    BY ProjectFacts, FS_Subset DEF IInv, Tests
  <1>4. ASSUME NEW n \in U PROVE MatricesOf(n) = {}
    <2> SUFFICES ASSUME NEW k \in MatricesOf(n) PROVE FALSE
      OBVIOUS
    <2>1. PICK p \in DOMAIN Mats[k].names :
                /\ Mats[k].names[p] = n
                /\ \A i \in 1..Size(Mats[k].dims) : <<k, p, i>> \in Triples
      BY <1>1, NamedHasJobs
    <2>2. 1 \in 1..Size(Mats[k].dims)
      <3>1. k \in DOMAIN Mats
        BY DEF MatricesOf, Mats
      <3>2. Dimensions(Mats[k].dims)
        BY <3>1, MatrixFacts DEF IInv
      <3> QED BY <3>2, PlacesFacts
    <2>3. <<k, p, 1>> \in Triples
      BY <2>1, <2>2
    <2>4. PICK j \in Tagged : jobs[j] = JobOf(<<k, p, 1>>)
      BY <1>1, <2>3, NamedHasJobs
    <2>5. jobs[j].name = n /\ j \in DOMAIN jobs
      BY <2>1, <2>4 DEF JobOf, Tagged
    <2> QED BY <2>5 DEF UsedNames
  <1> HIDE DEF U
  <1>5. /\ DOMAIN q = 1..Cardinality(U) /\ Cardinality(U) \in Nat
        /\ \A n \in DOMAIN q : q[n] \in U
        /\ \A a, b \in DOMAIN q : q[a] = q[b] => a = b
    <2>1. \A a, b \in DOMAIN q : q[a] = q[b] => a = b
      BY <1>2 DEF Bijection, Injection, IsInjective
    <2> QED BY <1>2, <1>3, <2>1, BijectionFacts
  <1> DEFINE t == [i \in DOMAIN q |-> [name |-> q[i], tags |-> {}]]
  <1>6. /\ t \in Seq(Range(t)) /\ DOMAIN t = DOMAIN q
        /\ \A n \in DOMAIN t : t[n].name = q[n] /\ t[n].tags = {}
    BY <1>5, MapIsSequence
  <1>7. jobs' = jobs \o t
    BY <1>2
  <1> HIDE DEF t
  <1>8. /\ DOMAIN jobs = 1..Len(jobs) /\ Len(jobs) \in Nat
        /\ DOMAIN t = 1..Len(t) /\ Len(t) \in Nat
        /\ DOMAIN jobs' = 1..(Len(jobs) + Len(t))
        /\ \A n \in DOMAIN jobs : n \in DOMAIN jobs' /\ jobs'[n] = jobs[n]
        /\ \A n \in DOMAIN t : jobs'[Len(jobs) + n] = t[n] /\ Len(jobs) + n \notin DOMAIN jobs
        /\ \A n \in DOMAIN jobs' : n \in DOMAIN jobs \/ \E k \in DOMAIN t : n = Len(jobs) + k
    <2>1. jobs \in Seq(Range(jobs)) /\ t \in Seq(Range(t))
      BY <1>6 DEF IInv, JobsInv
    <2>2. /\ DOMAIN jobs = 1..Len(jobs) /\ Len(jobs) \in Nat
          /\ DOMAIN t = 1..Len(t) /\ Len(t) \in Nat
          /\ DOMAIN (jobs \o t) = 1..(Len(jobs) + Len(t))
          /\ \A n \in 1..Len(jobs) : (jobs \o t)[n] = jobs[n]
          /\ \A n \in 1..Len(t) : (jobs \o t)[Len(jobs) + n] = t[n]
          /\ \A n \in DOMAIN (jobs \o t) :
                n \in DOMAIN jobs \/ \E k \in DOMAIN t : n = Len(jobs) + k
      BY <2>1, ConcatFacts
    <2>3. \A n \in 1..Len(jobs) : n \in 1..(Len(jobs) + Len(t))
      BY <2>2
    <2>4. \A n \in 1..Len(t) : Len(jobs) + n \notin 1..Len(jobs)
      BY <2>2
    <2> QED BY <1>7, <2>2, <2>3, <2>4, Zenon
  <1>9. ASSUME NEW j \in DOMAIN jobs', j \notin DOMAIN jobs
        PROVE  /\ jobs'[j].name \in U /\ jobs'[j].tags = {} /\ MatricesOf(jobs'[j].name) = {}
               /\ \A k \in DOMAIN jobs' : jobs'[k].name = jobs'[j].name => k = j
    <2>1. PICK a \in DOMAIN t : j = Len(jobs) + a
      BY <1>8, <1>9
    <2>2. jobs'[j].name = q[a] /\ jobs'[j].tags = {} /\ q[a] \in U
      BY <1>5, <1>6, <1>8, <2>1
    <2>3. ASSUME NEW k \in DOMAIN jobs', jobs'[k].name = q[a] PROVE k = j
      <3>1. CASE k \in DOMAIN jobs
        <4>1. q[a] \in UsedNames
          BY <1>8, <2>3, <3>1 DEF UsedNames
        <4> QED BY <2>2, <4>1 DEF U
      <3>2. CASE k \notin DOMAIN jobs
        <4>1. PICK b \in DOMAIN t : k = Len(jobs) + b
          BY <1>8, <3>2
        <4>2. q[b] = q[a]
          BY <1>6, <1>8, <2>3, <4>1
        <4> QED BY <1>5, <1>6, <2>1, <4>1, <4>2
      <3> QED BY <3>1, <3>2
    <2> QED BY <1>4, <2>2, <2>3
  <1>10. Tagged' = Tagged
    <2>1. \A n : MatricesOf(n)' = MatricesOf(n)
      BY <1>1, MatricesStay
    <2>2. Tagged' = {j \in DOMAIN jobs' : MatricesOf(jobs'[j].name) # {}}
      BY <2>1 DEF Tagged
    <2>3. \A j \in DOMAIN jobs : j \in DOMAIN jobs' /\ jobs'[j] = jobs[j]
      BY <1>8
    <2>4. \A j \in DOMAIN jobs' : j \notin DOMAIN jobs => MatricesOf(jobs'[j].name) = {}
      BY <1>9
    <2> QED BY <2>2, <2>3, <2>4 DEF Tagged
  <1>11. Made' = Made
    BY <1>1 DEF Made, Triples, Mats, Started, Place
  <1>12. Layout'
    <2>1. \A j \in Tagged : jobs'[j] = jobs[j]
      BY <1>8 DEF Tagged
    <2> QED BY <1>1, <1>10, <1>11, <2>1, LayoutStays DEF MInv
  <1>13. Untagged'
    <2>1. Tagged = DOMAIN jobs
      BY <1>1 DEF MInv, Untagged
    <2> QED BY <1>1, <1>9, <1>10, <2>1 DEF Untagged
  <1>14. Progress'
    BY <1>1 DEF MInv, Progress, Mats, Started, Place
  <1> QED BY <1>12, <1>13, <1>14 DEF MInv

\* The multiplier makes jobs in the order of matrices, names and combinations, and
\* each of them once.
THEOREM MultiplierInvariance == Spec => [](IInv /\ MInv)
  <1>1. IInv /\ MInv /\ [Next]_vars => MInv'
    <2> SUFFICES ASSUME IInv, MInv, [Next]_vars PROVE MInv'
      OBVIOUS
    <2>1. CASE StartMatrix
      BY <2>1, StartMatrixMInv
    <2>2. CASE RefuseName
      BY <2>2, MInvStays DEF RefuseName, Exit
    <2>3. CASE CombineName
      BY <2>3, CombineNameMInv
    <2>4. CASE NextName
      BY <2>4, NextNameMInv
    <2>5. CASE AddUntagged
      BY <2>5, AddUntaggedMInv
    <2>6. ASSUME NEW j \in DOMAIN jobs, VisitJob(j) PROVE MInv'
      BY <2>6, MInvStays DEF VisitJob
    <2>7. ASSUME NEW n \in Names, VisitClass(n) PROVE MInv'
      BY <2>7, MInvStays DEF VisitClass
    <2>8. ASSUME NEW i \in DOMAIN Items, ResolveItem(i) PROVE MInv'
      <3>1. /\ phase = "resolve" /\ phase' \in {"resolve", "exited", "crashed"}
            /\ UNCHANGED <<project, multiplierVars>>
        BY <2>8 DEF ResolveItem, Exit
      <3> QED BY <3>1, MInvStays
    <2>9. CASE LeaveJob
      BY <2>9, MInvStays DEF LeaveJob
    <2>10. CASE FinishResolve
      BY <2>10, MInvStays DEF FinishResolve
    <2>11. CASE UNCHANGED vars
      BY <2>11, MInvStays DEF vars
    <2> QED BY <2>1, <2>2, <2>3, <2>4, <2>5, <2>6, <2>7, <2>8, <2>9, <2>10, <2>11 DEF Next
  <1>2. IInv /\ [Next]_vars => IInv'
    BY StartMatrixIInv, RefuseNameIInv, CombineNameIInv, NextNameIInv, AddUntaggedIInv,
       VisitJobIInv, VisitClassIInv, ResolveItemIInv, LeaveJobIInv, FinishResolveIInv,
       StutterIInv DEF Next
  <1> QED BY InitIInv, InitMInv, <1>1, <1>2, PTL DEF Spec

\* What a job of a test case in a matrix comes from.
LEMMA TaggedJob ==
    ASSUME IInv, MInv, NEW f \in Bijection(Tagged, Made), NEW j \in Tagged, jobs[j] = JobOf(f[j])
    PROVE  LET k == f[j][1]  i == f[j][3]  dims == Mats[k].dims
           IN  /\ f[j] \in Triples /\ f[j] = <<k, f[j][2], i>>
               /\ k \in MatricesOf(jobs[j].name) /\ k \in DOMAIN Mats
               /\ f[j][2] \in DOMAIN Mats[k].names /\ Mats[k].names[f[j][2]] = jobs[j].name
               /\ i \in 1..Size(dims) /\ Dimensions(dims)
               /\ DigitsOf(dims, i) \in DigitChoices(dims)
               /\ jobs[j].tags = Chosen(dims, DigitsOf(dims, i))
  <1> DEFINE t == f[j]
  <1>1. t \in Triples
    BY DEF Bijection, Injection, Made
  <1>2. /\ t \in Nat \X Nat \X Nat /\ t[1] \in DOMAIN Mats /\ t[2] \in DOMAIN Mats[t[1]].names
        /\ t[3] \in 1..Size(Mats[t[1]].dims)
    BY <1>1 DEF Triples
  <1> HIDE DEF t
  <1>3. jobs[j].name = Mats[t[1]].names[t[2]] /\ jobs[j].tags = Expand(Mats[t[1]].dims)[t[3]]
    BY DEF JobOf, t
  <1>4. Dimensions(Mats[t[1]].dims)
    BY <1>2, MatrixFacts DEF IInv
  <1>5. t[1] \in MatricesOf(jobs[j].name)
    BY <1>2, <1>3 DEF MatricesOf, Mats, Range
  <1>6. /\ Expand(Mats[t[1]].dims)[t[3]] = Chosen(Mats[t[1]].dims, DigitsOf(Mats[t[1]].dims, t[3]))
        /\ DigitsOf(Mats[t[1]].dims, t[3]) \in DigitChoices(Mats[t[1]].dims)
    BY <1>2, <1>4, ExpandFacts
  <1> QED BY <1>1, <1>2, <1>3, <1>4, <1>5, <1>6 DEF t

\* A test case has as many jobs with certain tags as there are choices of rows that
\* make these tags, and one job if it is in no matrix.
THEOREM JobsAreCombinations == Spec => []EveryCombination
  <1>1. IInv /\ MInv => EveryCombination
    <2> SUFFICES ASSUME IInv, MInv, phase \in {"resolve", "done"}, NEW n \in Tests
                 PROVE  IF MatricesOf(n) = {}
                        THEN \E j \in DOMAIN jobs : Class(n) = {j} /\ jobs[j].tags = {}
                        ELSE LET All == UNION {{<<k, c>> : c \in DigitChoices(project.matrices[k].dims)} :
                                                  k \in MatricesOf(n)}
                                 TagsOf(a) == Chosen(project.matrices[a[1]].dims, a[2])
                             IN  \A T \in {TagsOf(a) : a \in All} \cup {jobs[j].tags : j \in Class(n)} :
                                     Cardinality({j \in Class(n) : jobs[j].tags = T}) =
                                     Cardinality({a \in All : TagsOf(a) = T})
      BY DEF EveryCombination
    <2>1. CASE MatricesOf(n) = {}
      <3>1. PICK j \in DOMAIN jobs : jobs[j].name = n
        BY DEF IInv, CoverInv
      <3>2. j \in DOMAIN jobs \ Tagged
        BY <2>1, <3>1 DEF Tagged
      <3>3. jobs[j].tags = {} /\ \A k \in DOMAIN jobs : jobs[k].name = n => k = j
        BY <3>1, <3>2 DEF MInv, Untagged
      <3> QED BY <2>1, <3>1, <3>3 DEF Class
    <2>2. CASE MatricesOf(n) # {}
      <3> DEFINE All == UNION {{<<k, c>> : c \in DigitChoices(Mats[k].dims)} : k \in MatricesOf(n)}
                 TagsOf(a) == Chosen(Mats[a[1]].dims, a[2])
      <3> SUFFICES ASSUME NEW T PROVE Cardinality({j \in Class(n) : jobs[j].tags = T}) =
                                      Cardinality({a \in All : TagsOf(a) = T})
        BY <2>2 DEF Mats
      <3> DEFINE S == {j \in Class(n) : jobs[j].tags = T}
                 R == {a \in All : TagsOf(a) = T}
      <3>1. PICK f \in Bijection(Tagged, Made) : \A j \in Tagged : jobs[j] = JobOf(f[j])
        BY DEF MInv, Layout
      <3> DEFINE Source(j) == <<f[j][1], DigitsOf(Mats[f[j][1]].dims, f[j][3])>>
                 g == [j \in S |-> Source(j)]
      <3>2. \A j \in S : j \in Tagged /\ j \in DOMAIN jobs /\ jobs[j].name = n /\ jobs[j].tags = T
        BY <2>2 DEF Class, Tagged
      <3>3. ASSUME NEW j \in S PROVE Source(j) \in R
        <4>1. /\ f[j][1] \in MatricesOf(n)
              /\ DigitsOf(Mats[f[j][1]].dims, f[j][3]) \in DigitChoices(Mats[f[j][1]].dims)
              /\ T = Chosen(Mats[f[j][1]].dims, DigitsOf(Mats[f[j][1]].dims, f[j][3]))
          BY <3>1, <3>2, TaggedJob
        <4> QED BY <4>1
      <3>4. ASSUME NEW j \in S, NEW h \in S, Source(j) = Source(h) PROVE j = h
        <4> DEFINE k == f[j][1]
        <4>1. f[h][1] = k /\ DigitsOf(Mats[k].dims, f[j][3]) = DigitsOf(Mats[k].dims, f[h][3])
          BY <3>4
        <4>2. /\ f[j] = <<k, f[j][2], f[j][3]>> /\ k \in DOMAIN Mats /\ Dimensions(Mats[k].dims)
              /\ f[j][2] \in DOMAIN Mats[k].names /\ Mats[k].names[f[j][2]] = n
              /\ f[j][3] \in 1..Size(Mats[k].dims)
          BY <3>1, <3>2, TaggedJob
        <4>3. /\ f[h] = <<k, f[h][2], f[h][3]>>
              /\ f[h][2] \in DOMAIN Mats[k].names /\ Mats[k].names[f[h][2]] = n
              /\ f[h][3] \in 1..Size(Mats[k].dims)
          BY <3>1, <3>2, <4>1, TaggedJob
        <4>4. f[j][2] = f[h][2]
          BY <4>2, <4>3, MatrixFacts DEF IInv, IsInjective
        <4>5. f[j][3] = f[h][3]
          BY <4>1, <4>2, <4>3, ExpandFacts
        <4>6. f[j] = f[h]
          BY <4>2, <4>3, <4>4, <4>5
        <4> QED BY <3>1, <3>2, <4>6 DEF Bijection, Injection, IsInjective
      <3>5. ASSUME NEW a \in R PROVE \E j \in S : Source(j) = a
        <4>1. PICK k \in MatricesOf(n) : \E c \in DigitChoices(Mats[k].dims) : a = <<k, c>>
          OBVIOUS
        <4>12. PICK c \in DigitChoices(Mats[k].dims) : a = <<k, c>>
          BY <4>1
        <4>2. Chosen(Mats[k].dims, c) = T
          BY <4>12
        <4>3. k \in DOMAIN Mats /\ Dimensions(Mats[k].dims)
          BY MatrixFacts DEF IInv, MatricesOf, Mats
        <4>4. PICK i \in 1..Size(Mats[k].dims) : DigitsOf(Mats[k].dims, i) = c
          BY <4>3, ExpandFacts
        <4>5. names = <<>> /\ matrices = <<>>
          BY DEF MInv, Progress
        <4>6. PICK p \in DOMAIN Mats[k].names : Mats[k].names[p] = n /\ <<k, p, i>> \in Triples
          BY <4>5, NamedHasJobs
        <4>7. Made = Triples
          BY <4>5, NamedHasJobs
        <4>8. PICK j \in Tagged : f[j] = <<k, p, i>>
          BY <3>1, <4>6, <4>7 DEF Bijection, Surjection
        <4>9. jobs[j].name = n /\ jobs[j].tags = Expand(Mats[k].dims)[i] /\ j \in DOMAIN jobs
          BY <3>1, <4>6, <4>8 DEF JobOf, Tagged
        <4>10. j \in S
          BY <4>2, <4>3, <4>4, <4>9, ExpandFacts DEF Class
        <4>11. Source(j) = a
          BY <4>12, <4>4, <4>8
        <4> QED BY <4>10, <4>11
      <3> HIDE DEF S, R, Source
      <3>6. g \in Bijection(S, R)
        <4>1. g \in [S -> R] /\ DOMAIN g = S
          BY <3>3
        <4>2. \A x, y \in S : g[x] = g[y] => x = y
          BY <3>4
        <4>3. \A a \in R : \E j \in S : g[j] = a
          BY <3>5
        <4> HIDE DEF g
        <4> QED BY <4>1, <4>2, <4>3 DEF Bijection, Injection, Surjection, IsInjective
      <3>7. IsFiniteSet(S)
        <4>1. jobs \in Seq(Range(jobs))
          BY DEF IInv, JobsInv
        <4>2. DOMAIN jobs = 1..Len(jobs) /\ Len(jobs) \in Nat
          BY <4>1, OverItsRange
        <4>3. S \subseteq 1..Len(jobs)
          BY <4>2 DEF S, Class
        <4>4. IsFiniteSet(1..Len(jobs))
          BY <4>2, FS_Interval
        <4> HIDE DEF g
        <4> QED BY <4>3, <4>4, FS_Subset
      <3>8. Cardinality(R) = Cardinality(S)
        <4> HIDE DEF g
        <4>1. ExistsBijection(S, R)
          BY <3>6 DEF ExistsBijection
        <4> QED BY <3>7, <4>1, FS_Bijection
      <3> QED BY <3>8 DEF S, R
    <2> QED BY <2>1, <2>2
  <1> QED BY <1>1, MultiplierInvariance, PTL


----------------------------------------------------------------------------
(* What a Depends item sees of the tags of a job                           *)

\* The properties of test case n after it has been given the tags T only.
Fresh(n, T) == T \cup {<<l, Default>> : l \in project.declared[n] \ LabelsOf(T)}

\* The properties of a test case of at most one matrix hold the tags of the job
\* visited latest: of the current job, if it is one of this test case.
Single(n) == Cardinality(MatricesOf(n)) <= 1
PropsInv ==
    /\ props = [n \in Tests |-> props[n]]
    /\ phase = "multiply" => current = {} /\ \A n \in Tests : props[n] = Fresh(n, {})
    /\ \A n \in Tests :
            Single(n) => \/ props[n] = Fresh(n, {})
                         \/ \E k \in Class(n) : props[n] = Fresh(n, jobs[k].tags)
    /\ \A j \in current :
            Single(jobs[j].name) => props[jobs[j].name] = Fresh(jobs[j].name, jobs[j].tags)

\* The jobs of a test case of at most one matrix have tags for the same labels.
LEMMA JobsShareLabels ==
    ASSUME IInv, MInv, NEW j \in DOMAIN jobs, NEW k \in DOMAIN jobs, jobs[j].name = jobs[k].name,
           Single(jobs[j].name)
    PROVE  LabelsOf(jobs[j].tags) = LabelsOf(jobs[k].tags)
  <1> DEFINE M == MatricesOf(jobs[j].name)
  <1>1. CASE M = {}
    <2>1. j \notin Tagged
      BY <1>1 DEF Tagged
    <2> QED BY <2>1 DEF MInv, Untagged
  <1>2. CASE M # {}
    <2>1. PICK f \in Bijection(Tagged, Made) : \A i \in Tagged : jobs[i] = JobOf(f[i])
      BY DEF MInv, Layout
    <2>2. j \in Tagged /\ k \in Tagged
      BY <1>2 DEF Tagged
    <2> DEFINE a == f[j][1]  b == f[k][1]
    <2>3. /\ a \in M /\ a \in DOMAIN Mats
          /\ DigitsOf(Mats[a].dims, f[j][3]) \in DigitChoices(Mats[a].dims)
          /\ jobs[j].tags = Chosen(Mats[a].dims, DigitsOf(Mats[a].dims, f[j][3]))
      BY <2>1, <2>2, TaggedJob
    <2>4. /\ b \in M
          /\ DigitsOf(Mats[b].dims, f[k][3]) \in DigitChoices(Mats[b].dims)
          /\ jobs[k].tags = Chosen(Mats[b].dims, DigitsOf(Mats[b].dims, f[k][3]))
      BY <2>1, <2>2, TaggedJob
    <2>5. IsFiniteSet(M)
      <3>1. M \subseteq 1..Len(Mats) /\ Len(Mats) \in Nat
        BY MatsFacts DEF MatricesOf, Mats
      <3>2. IsFiniteSet(1..Len(Mats))
        BY <3>1, FS_Interval
      <3> QED BY <3>1, <3>2, FS_Subset
    <2> HIDE DEF M, a, b
    <2>6. Cardinality(M) = 1
      <3>1. Cardinality(M) \in Nat /\ Cardinality(M) # 0
        BY <1>2, <2>5, FS_CardinalityType, FS_EmptySet
      <3>2. Cardinality(M) <= 1
        BY DEF M, Single
      <3> QED BY <3>1, <3>2
    <2>7. \E x : M = {x}
      BY <2>5, <2>6, FS_Singleton
    <2>8. a = b
      BY <2>3, <2>4, <2>7
    <2>9. \A d \in DOMAIN Mats[a].dims : \A r, s \in DOMAIN Mats[a].dims[d] :
              LabelsOf(Mats[a].dims[d][r]) = LabelsOf(Mats[a].dims[d][s])
      BY <2>3, MatrixFacts DEF IInv
    <2> QED BY <2>3, <2>4, <2>8, <2>9, CombinationsShareLabels
  <1> QED BY <1>1, <1>2

\* Tags replace a default value and the tags that have the same labels.
LEMMA RetaggedIsFresh ==
    ASSUME NEW n, NEW S, NEW T, S = {} \/ LabelsOf(S) = LabelsOf(T)
    PROVE  {t \in Fresh(n, S) : t[1] \notin LabelsOf(T)} \cup T = Fresh(n, T)
  <1>1. \A t \in S : t[1] \in LabelsOf(S)
    BY DEF LabelsOf
  <1>2. ASSUME NEW t \in Fresh(n, S), t[1] \notin LabelsOf(T) PROVE t \in Fresh(n, T)
    <2>1. t \notin S
      BY <1>1, <1>2
    <2>2. PICK l \in project.declared[n] \ LabelsOf(S) : t = <<l, Default>>
      BY <1>2, <2>1 DEF Fresh
    <2>3. l \notin LabelsOf(T)
      BY <1>2, <2>2
    <2> QED BY <2>2, <2>3 DEF Fresh
  <1>3. ASSUME NEW t \in Fresh(n, T), t \notin T
        PROVE  t \in Fresh(n, S) /\ t[1] \notin LabelsOf(T)
    <2>1. PICK l \in project.declared[n] \ LabelsOf(T) : t = <<l, Default>>
      BY <1>3 DEF Fresh
    <2>2. l \notin LabelsOf(S)
      BY <2>1 DEF LabelsOf
    <2> QED BY <2>1, <2>2 DEF Fresh
  <1>4. T \subseteq Fresh(n, T)
    BY DEF Fresh
  <1> QED BY <1>2, <1>3, <1>4

\* A step that neither visits a job nor makes one.
LEMMA PropsInvStays ==
    ASSUME PropsInv, UNCHANGED <<project, jobs, props>>, current' \subseteq current,
           phase' = "multiply" => phase = "multiply"
    PROVE  PropsInv'
  <1>1. \A n, T : Fresh(n, T)' = Fresh(n, T)
    BY DEF Fresh
  <1>2. \A n : Single(n)' = Single(n) /\ Class(n)' = Class(n)
    BY DEF Single, MatricesOf, Class
  <1> QED BY <1>1, <1>2 DEF PropsInv, Tests

\* A step that makes jobs: the properties still have their defaults.
LEMMA PropsInvMakes ==
    ASSUME PropsInv, UNCHANGED <<project, props, current>>, phase = "multiply"
    PROVE  PropsInv'
  <1>1. \A n, T : Fresh(n, T)' = Fresh(n, T)
    BY DEF Fresh
  <1> QED BY <1>1 DEF PropsInv, Tests

\* A visited job gives its tags to the test case, in place of those of earlier jobs.
LEMMA VisitJobPropsInv ==
    ASSUME IInv, MInv, PropsInv, NEW j \in DOMAIN jobs, VisitJob(j)
    PROVE  PropsInv'
  <1> DEFINE m == jobs[j].name
             T == jobs[j].tags
  <1>1. /\ UNCHANGED <<project, jobs, phase>> /\ current' = {j} /\ phase = "resolve"
        /\ props' = [props EXCEPT ![m] = {t \in @ : t[1] \notin LabelsOf(T)} \cup T]
    BY DEF VisitJob, multiplierVars, PropsWithTags
  <1>2. m \in Tests
    BY DEF IInv, JobsInv
  <1>3. \A n, S : Fresh(n, S)' = Fresh(n, S)
    BY <1>1 DEF Fresh
  <1>4. \A n : Single(n)' = Single(n) /\ Class(n)' = Class(n)
    BY <1>1 DEF Single, MatricesOf, Class
  <1>5. j \in Class(m)
    BY DEF Class
  <1>6. Single(m) => props'[m] = Fresh(m, T)
    <2> SUFFICES ASSUME Single(m) PROVE props'[m] = Fresh(m, T)
      OBVIOUS
    <2>1. props'[m] = {t \in props[m] : t[1] \notin LabelsOf(T)} \cup T
      BY <1>1, <1>2 DEF PropsInv
    <2>2. CASE props[m] = Fresh(m, {})
      BY <2>1, <2>2, RetaggedIsFresh
    <2>3. ASSUME NEW k \in Class(m), props[m] = Fresh(m, jobs[k].tags)
          PROVE  props'[m] = Fresh(m, T)
      <3>1. LabelsOf(jobs[k].tags) = LabelsOf(T)
        BY JobsShareLabels DEF Class
      <3> QED BY <2>1, <2>3, <3>1, RetaggedIsFresh
    <2> QED BY <1>2, <2>2, <2>3 DEF PropsInv
  <1> HIDE DEF m, T
  <1>7. \A n \in Tests : n # m => props'[n] = props[n]
    BY <1>1 DEF PropsInv
  <1>8. props' = [n \in Tests |-> props'[n]]
    BY <1>1 DEF PropsInv
  <1>9. ASSUME NEW n \in Tests, Single(n)
        PROVE  \/ props'[n] = Fresh(n, {})
               \/ \E k \in Class(n) : props'[n] = Fresh(n, jobs[k].tags)
    <2>1. CASE n = m
      BY <1>5, <1>6, <1>9, <2>1 DEF T
    <2>2. CASE n # m
      BY <1>7, <1>9, <2>2 DEF PropsInv
    <2> QED BY <2>1, <2>2
  <1>10. /\ Tests' = Tests /\ jobs' = jobs /\ phase' = "resolve" /\ current' = {j}
    BY <1>1 DEF Tests
  <1>11. (\A i \in current : Single(jobs[i].name) => props[jobs[i].name] = Fresh(jobs[i].name, jobs[i].tags))'
    <2>1. Single(m) => props'[m] = Fresh(m, T)
      BY <1>6
    <2>2. \A i \in current' : jobs'[i].name = m /\ jobs'[i].tags = T
      BY <1>10 DEF m, T
    <2> QED BY <1>3, <1>4, <2>1, <2>2
  <1>12. (\A n \in Tests : Single(n) => \/ props[n] = Fresh(n, {})
                                      \/ \E k \in Class(n) : props[n] = Fresh(n, jobs[k].tags))'
    BY <1>3, <1>4, <1>9, <1>10
  <1> QED BY <1>8, <1>10, <1>11, <1>12 DEF PropsInv

\* The properties of a test case of at most one matrix are those of its latest job.
LEMMA TagsInvariance == Spec => []PropsInv
  <1>1. Init => PropsInv
    <2> SUFFICES ASSUME Init PROVE PropsInv
      OBVIOUS
    <2>1. \A n \in Tests : props[n] = Fresh(n, {})
      <3>1. LabelsOf({}) = {}
        BY DEF LabelsOf
      <3>2. \A n \in Tests : props[n] = {<<l, Default>> : l \in project.declared[n]}
        BY DEF Init
      <3>3. \A n : Fresh(n, {}) = {<<l, Default>> : l \in project.declared[n]}
        BY <3>1 DEF Fresh
      <3> QED BY <3>2, <3>3
    <2>2. props = [n \in Tests |-> props[n]] /\ current = {}
      BY DEF Init
    <2> QED BY <2>1, <2>2 DEF PropsInv
  <1>2. IInv /\ MInv /\ PropsInv /\ [Next]_vars => PropsInv'
    <2> SUFFICES ASSUME IInv, MInv, PropsInv, [Next]_vars PROVE PropsInv'
      OBVIOUS
    <2>1. CASE StartMatrix
      BY <2>1, PropsInvStays DEF StartMatrix, Exit, resolverVars
    <2>2. CASE RefuseName
      BY <2>2, PropsInvStays DEF RefuseName, Exit, multiplierVars, resolverVars
    <2>3. CASE CombineName
      BY <2>3, PropsInvMakes DEF CombineName, resolverVars
    <2>4. CASE NextName
      BY <2>4, PropsInvStays DEF NextName, resolverVars
    <2>5. CASE AddUntagged
      BY <2>5, PropsInvMakes DEF AddUntagged
    <2>6. ASSUME NEW j \in DOMAIN jobs, VisitJob(j) PROVE PropsInv'
      BY <2>6, VisitJobPropsInv
    <2>7. ASSUME NEW n \in Names, VisitClass(n) PROVE PropsInv'
      BY <2>7, PropsInvStays DEF VisitClass, multiplierVars
    <2>8. ASSUME NEW i \in DOMAIN Items, ResolveItem(i) PROVE PropsInv'
      <3>1. /\ phase = "resolve" /\ phase' \in {"resolve", "exited", "crashed"}
            /\ UNCHANGED <<project, jobs, props, current>>
        BY <2>8 DEF ResolveItem, Exit, multiplierVars
      <3> QED BY <3>1, PropsInvStays
    <2>9. CASE LeaveJob
      BY <2>9, PropsInvStays DEF LeaveJob, multiplierVars
    <2>10. CASE FinishResolve
      BY <2>10, PropsInvStays DEF FinishResolve, multiplierVars, resolverVars
    <2>11. CASE UNCHANGED vars
      BY <2>11, PropsInvStays DEF vars, multiplierVars, resolverVars
    <2> QED BY <2>1, <2>2, <2>3, <2>4, <2>5, <2>6, <2>7, <2>8, <2>9, <2>10, <2>11 DEF Next
  <1> QED BY MultiplierInvariance, <1>1, <1>2, PTL DEF Spec

\* The properties of a test case have no value of a job other than the visited one.
THEOREM TagsAreFresh == Spec => []FreshEvaluation
  <1>1. PropsInv => FreshEvaluation
    BY DEF PropsInv, FreshEvaluation, Single, Fresh
  <1> QED BY TagsInvariance, <1>1, PTL


----------------------------------------------------------------------------
(* The edges of a job are the relations of its Depends items               *)

\* The relations of item i that the resolver finds: the pairs of Preceding.
Matched(i, j, p) ==
    IF SpecifiesTags(i)
    THEN LET list == EvaluateTags(Items[i].tags, jobs[j].name)
         IN  {<<i, t>> : t \in {k \in DOMAIN list : list[k] = jobs[p].tags}}
    ELSE IF OneToOne(i, j) /\ jobs[j].tags # jobs[p].tags THEN {} ELSE {<<i, 1>>}

\* Once all its items are treated, a job has as many edges from another job as they
\* have relations.
EdgesMatchItems ==
    phase = "resolve" /\ agenda = {} /\ classes = {} =>
        \A j \in current : \A n \in Tests : Distinct(n) =>
            \A p \in Class(n) :
                Cardinality(EdgesBetween(JobGraph, p, j)) =
                Cardinality(UNION {Matched(i, j, p) :
                    i \in EdgesBetween(project.graph, n, jobs[j].name)})

\* The Depends items from test case n to that of job j which have been treated.
Done(n, j) ==
    {i \in EdgesBetween(project.graph, n, jobs[j].name) : n \notin classes /\ i \notin agenda}

Relations(n, p, j) == UNION {Matched(i, j, p) : i \in Done(n, j)}

\* The current job has an edge for each relation that has been found, and jobs that
\* are not visited have none.
TreatedInv ==
    /\ current \cap unresolved = {}
    /\ \A k \in DOMAIN edges : edges[k].succ \notin unresolved
    /\ \A i \in agenda : Items[i].pred \notin classes
    /\ phase = "resolve" =>
            \A j \in current : \A n \in Tests : \A p \in Class(n) :
                Distinct(n) =>
                    /\ IsFiniteSet(Relations(n, p, j))
                    /\ Cardinality(EdgesBetween(JobGraph, p, j)) = Cardinality(Relations(n, p, j))

\* A one-to-one map given by what it does with each element.
LEMMA OneToOneMap ==
    ASSUME NEW S, NEW T, NEW g, g \in [S -> T], IsFiniteSet(S),
           \A x, y \in S : g[x] = g[y] => x = y,
           \A z \in T : \E x \in S : g[x] = z
    PROVE  IsFiniteSet(T) /\ Cardinality(T) = Cardinality(S)
  <1>1. g \in Bijection(S, T)
    BY DEF Bijection, Injection, Surjection, IsInjective
  <1>2. ExistsBijection(S, T)
    BY <1>1 DEF ExistsBijection
  <1> QED BY <1>2, FS_Bijection

\* The edges t into job j are one for each pair of P, in the order q.
EdgesFor(P, q, t, j) ==
    /\ IsFiniteSet(P) /\ q \in Bijection(1..Cardinality(P), P)
    /\ t \in Seq(Range(t)) /\ DOMAIN t = DOMAIN q
    /\ \A k \in DOMAIN q : t[k].pred = q[k][2] /\ t[k].succ = j

\* The loops of ResolveItem add one edge for each pair that they visit.
LEMMA EdgesAdded ==
    ASSUME NEW s, s \in Seq(Range(s)), NEW P, NEW q, NEW t, NEW j, EdgesFor(P, q, t, j), NEW p,
           NEW Q, Q = {m \in P : m[2] = p}, NEW g, g.edges = s, NEW h, h.edges = s \o t
    PROVE  Cardinality(EdgesBetween(h, p, j)) = Cardinality(EdgesBetween(g, p, j)) + Cardinality(Q)
  <1>0. /\ IsFiniteSet(P) /\ q \in Bijection(1..Cardinality(P), P)
        /\ t \in Seq(Range(t)) /\ DOMAIN t = DOMAIN q
        /\ \A k \in DOMAIN q : t[k].pred = q[k][2] /\ t[k].succ = j
    BY DEF EdgesFor
  <1>1. /\ q \in Seq(P) /\ DOMAIN q = 1..Cardinality(P) /\ Cardinality(P) \in Nat
        /\ \A n \in DOMAIN q : q[n] \in P
        /\ \A e \in P : \E n \in DOMAIN q : q[n] = e
    BY <1>0, BijectionFacts
  <1>2. \A k, l \in DOMAIN q : q[k] = q[l] => k = l
    BY <1>0 DEF Bijection, Injection, IsInjective
  <1>3. /\ t \in Seq(Range(t)) /\ DOMAIN t = DOMAIN q
        /\ \A k \in DOMAIN t : t[k].pred = q[k][2] /\ t[k].succ = j
    BY <1>0
  <1>4. /\ s \o t \in Seq(Range(s \o t))
        /\ DOMAIN s = 1..Len(s) /\ Len(s) \in Nat
        /\ DOMAIN t = 1..Len(t) /\ Len(t) \in Nat
        /\ DOMAIN (s \o t) = 1..(Len(s) + Len(t))
        /\ \A n \in 1..Len(s) : (s \o t)[n] = s[n]
        /\ \A n \in 1..Len(t) : (s \o t)[Len(s) + n] = t[n]
        /\ \A n \in DOMAIN (s \o t) : n \in DOMAIN s \/ \E k \in DOMAIN t : n = Len(s) + k
    BY <1>3, ConcatFacts
  <1> DEFINE c == s \o t
             A == {k \in DOMAIN s : s[k].succ = j /\ s[k].pred = p}
             B == {k \in DOMAIN c : k \notin DOMAIN s /\ c[k].pred = p}
  <1>5. EdgesBetween(g, p, j) = A
    BY DEF EdgesBetween, EdgesInto, EdgesFrom
  <1> HIDE DEF c
  <1>6. /\ \A k \in DOMAIN s : k \in DOMAIN c /\ c[k] = s[k]
        /\ \A k \in DOMAIN c : k \notin DOMAIN s => /\ k - Len(s) \in DOMAIN t
                                                   /\ k = Len(s) + (k - Len(s))
                                                   /\ c[k] = t[k - Len(s)] /\ c[k].succ = j
        /\ \A l \in DOMAIN t : /\ Len(s) + l \in DOMAIN c /\ Len(s) + l \notin DOMAIN s
                               /\ c[Len(s) + l] = t[l] /\ Len(s) + l - Len(s) = l
    <2>1. \A k \in DOMAIN s : k \in DOMAIN c /\ c[k] = s[k]
      BY <1>4 DEF c
    <2>2. ASSUME NEW k \in DOMAIN c, k \notin DOMAIN s
          PROVE  /\ k - Len(s) \in DOMAIN t /\ k = Len(s) + (k - Len(s))
                 /\ c[k] = t[k - Len(s)] /\ c[k].succ = j
      <3>1. PICK l \in DOMAIN t : k = Len(s) + l
        BY <1>4, <2>2 DEF c
      <3>2. k - Len(s) = l
        BY <1>4, <3>1
      <3>3. c[k] = t[l]
        BY <1>4, <3>1 DEF c
      <3> QED BY <1>3, <3>1, <3>2, <3>3
    <2>3. ASSUME NEW l \in DOMAIN t
          PROVE  /\ Len(s) + l \in DOMAIN c /\ Len(s) + l \notin DOMAIN s
                 /\ c[Len(s) + l] = t[l] /\ Len(s) + l - Len(s) = l
      BY <1>4 DEF c
    <2> QED BY <2>1, <2>2, <2>3
  <1>7. EdgesBetween(h, p, j) = A \cup B
    <2>1. EdgesBetween(h, p, j) = {k \in DOMAIN c : c[k].succ = j /\ c[k].pred = p}
      BY DEF EdgesBetween, EdgesInto, EdgesFrom, c
    <2> QED BY <1>6, <2>1
  <1>8. IsFiniteSet(A) /\ IsFiniteSet(B) /\ A \cap B = {}
    <2>1. IsFiniteSet(DOMAIN s) /\ IsFiniteSet(DOMAIN c)
      <3>1. DOMAIN c = 1..(Len(s) + Len(t)) /\ Len(s) + Len(t) \in Nat
        BY <1>4 DEF c
      <3> QED BY <1>4, <3>1, FS_Interval
    <2> QED BY <2>1, FS_Subset
  <1>9. Cardinality(Q) = Cardinality(B)
    <2>1. PICK f : f = [k \in B |-> q[k - Len(s)]]
      OBVIOUS
    <2>2. \A k \in B : f[k] = q[k - Len(s)] /\ k - Len(s) \in DOMAIN q
      BY <1>3, <1>6, <2>1
    <2>3. \A k \in B : f[k] \in Q
      <3> SUFFICES ASSUME NEW k \in B PROVE f[k] \in P /\ f[k][2] = p
        OBVIOUS
      <3>1. k - Len(s) \in DOMAIN t /\ c[k] = t[k - Len(s)] /\ c[k].pred = p
        BY <1>6
      <3> QED BY <1>1, <1>3, <2>2, <3>1
    <2>4. f \in [B -> Q]
      BY <2>1, <2>3
    <2>5. ASSUME NEW x \in B, NEW y \in B, f[x] = f[y] PROVE x = y
      <3>1. x - Len(s) = y - Len(s)
        BY <1>2, <2>2, <2>5
      <3> QED BY <1>6, <3>1
    <2>6. ASSUME NEW m \in Q PROVE \E k \in B : f[k] = m
      <3>1. PICK l \in DOMAIN t : q[l] = m
        BY <1>1, <1>3
      <3>2. Len(s) + l \in B
        BY <1>3, <1>6, <3>1
      <3>3. PICK k : k = Len(s) + l
        OBVIOUS
      <3>4. k \in B /\ k - Len(s) = l
        BY <1>6, <3>2, <3>3
      <3>5. f[k] = m
        BY <2>2, <3>1, <3>4
      <3> QED BY <3>4, <3>5
    <2> HIDE DEF B
    <2> QED BY <1>8, <2>4, <2>5, <2>6, OneToOneMap
  <1>10. Cardinality(A \cup B) = Cardinality(A) + Cardinality(Q)
    <2> HIDE DEF A, B
    <2>1. Cardinality(A \cup B) = Cardinality(A) + Cardinality(B) - Cardinality(A \cap B)
      BY <1>8, FS_Union
    <2>2. Cardinality(A \cap B) = 0 /\ Cardinality(A) \in Nat /\ Cardinality(B) \in Nat
      BY <1>8, FS_EmptySet, FS_CardinalityType
    <2> QED BY <1>9, <2>1, <2>2
  <1> HIDE DEF A, B
  <1> QED BY <1>5, <1>7, <1>10

\* They add none to another job.
LEMMA OtherEdgesStay ==
    ASSUME NEW s, s \in Seq(Range(s)), NEW P, NEW q, NEW t, NEW j, EdgesFor(P, q, t, j),
           NEW k \in DOMAIN (s \o t), (s \o t)[k].succ # j
    PROVE  k \in DOMAIN s /\ (s \o t)[k] = s[k]
  <1>1. t \in Seq(Range(t)) /\ DOMAIN t = DOMAIN q /\ \A l \in DOMAIN t : t[l].succ = j
    BY DEF EdgesFor
  <1>2. /\ DOMAIN s = 1..Len(s) /\ DOMAIN t = 1..Len(t)
        /\ \A n \in 1..Len(s) : (s \o t)[n] = s[n]
        /\ \A n \in 1..Len(t) : (s \o t)[Len(s) + n] = t[n]
        /\ \A n \in DOMAIN (s \o t) : n \in DOMAIN s \/ \E l \in DOMAIN t : n = Len(s) + l
    BY <1>1, ConcatFacts
  <1> QED BY <1>1, <1>2

\* The pairs with job p that ResolveItem visits are the relations of the item.
LEMMA MatchedAreVisited ==
    ASSUME IInv, NEW i \in DOMAIN Items, NEW j \in DOMAIN jobs, NEW p \in Class(Items[i].pred),
           Distinct(Items[i].pred), ~Unmatched(i, j)
    PROVE  /\ IsFiniteSet(Matched(i, j, p))
           /\ Cardinality(Matched(i, j, p)) = Cardinality({m \in Preceding(i, j) : m[2] = p})
           /\ \A r \in Matched(i, j, p) : r[1] = i
  <1> DEFINE C == Class(Items[i].pred)
             V == {m \in Preceding(i, j) : m[2] = p}
             R == Matched(i, j, p)
  <1>1. /\ \A m \in V : m = <<m[1], p>> /\ <<i, m[1]>> \in R
        /\ \A r \in R : r = <<i, r[2]>> /\ <<r[2], p>> \in V
    <2>1. CASE SpecifiesTags(i)
      <3> DEFINE list == EvaluateTags(Items[i].tags, jobs[j].name)
      <3>1. Preceding(i, j) = {m \in (DOMAIN list) \X C : jobs[m[2]].tags = list[m[1]]}
        BY <2>1 DEF Preceding
      <3>2. R = {<<i, t>> : t \in {k \in DOMAIN list : list[k] = jobs[p].tags}}
        BY <2>1 DEF Matched
      <3> HIDE DEF list, R
      <3> QED BY <3>1, <3>2
    <2>2. CASE ~SpecifiesTags(i) /\ OneToOne(i, j)
      <3> DEFINE E == EqualTags(i, j)
      <3>1. Preceding(i, j) = {1} \X Newest(E)
        BY <2>2 DEF Preceding
      <3>2. R = IF jobs[j].tags # jobs[p].tags THEN {} ELSE {<<i, 1>>}
        BY <2>2 DEF Matched
      <3>3. E = {x \in C : jobs[x].tags = jobs[j].tags}
        BY DEF EqualTags
      <3>4. C \subseteq Nat
        <4>1. DOMAIN jobs = 1..Len(jobs)
          BY OverItsRange DEF IInv, JobsInv
        <4> QED BY <4>1 DEF Class
      <3>5. p \in Newest(E) <=> jobs[j].tags = jobs[p].tags
        <4>1. \A x \in E : jobs[p].tags = jobs[j].tags => x = p
          BY <3>3 DEF Distinct
        <4> QED BY <3>3, <3>4, <4>1 DEF Newest
      <3> HIDE DEF R, E, C
      <3> QED BY <3>1, <3>2, <3>5
    <2>3. CASE ~SpecifiesTags(i) /\ ~OneToOne(i, j)
      <3>1. Preceding(i, j) = {1} \X C
        BY <2>3 DEF Preceding
      <3>2. R = {<<i, 1>>}
        BY <2>3 DEF Matched
      <3> HIDE DEF R, C
      <3>3. p \in C
        BY DEF C
      <3> QED BY <3>1, <3>2, <3>3
    <2> QED BY <2>1, <2>2, <2>3
  <1>2. IsFiniteSet(V)
    <2>1. IsFiniteSet(Preceding(i, j))
      BY PrecedingFacts DEF IInv, JobsInv
    <2> QED BY <2>1, FS_Subset
  <1> HIDE DEF V, R, C
  <1>3. PICK g : g = [m \in V |-> <<i, m[1]>>]
    OBVIOUS
  <1>4. g \in [V -> R]
    BY <1>1, <1>3
  <1>5. \A x, y \in V : g[x] = g[y] => x = y
    BY <1>1, <1>3
  <1>6. \A r \in R : \E m \in V : g[m] = r
    BY <1>1, <1>3
  <1>7. IsFiniteSet(R) /\ Cardinality(R) = Cardinality(V)
    BY <1>2, <1>4, <1>5, <1>6, OneToOneMap
  <1>8. ASSUME NEW r \in R PROVE r[1] = i
    <2>1. PICK k : r = <<i, k>>
      BY <1>1
    <2> QED BY <2>1
  <1> QED BY <1>7, <1>8 DEF V, R


\* Nothing has been treated while the multiplier runs.
LEMMA MultiplierTreats ==
    ASSUME IInv, phase = "multiply", UNCHANGED <<edges, current, agenda>>
    PROVE  TreatedInv'
  <1>1. edges' = <<>> /\ current' = {} /\ agenda' = {} /\ DOMAIN edges' = {}
    BY DEF IInv, AgendaInv
  <1> QED BY <1>1 DEF TreatedInv

\* What is related depends on the jobs and the properties only.
LEMMA MatchedStay ==
    ASSUME UNCHANGED <<project, jobs, props>>
    PROVE  /\ \A i, j, p : Matched(i, j, p)' = Matched(i, j, p)
           /\ \A n : Distinct(n)' = Distinct(n) /\ Class(n)' = Class(n)
           /\ Items' = Items /\ Tests' = Tests
  <1>2. \A n : Class(n)' = Class(n)
    BY DEF Class
  <1>3. \A n : Distinct(n)' = Distinct(n)
    BY <1>2 DEF Distinct
  <1>4. Items' = Items
    BY DEF Items
  <1>5. \A i : SpecifiesTags(i)' = SpecifiesTags(i) /\ \A j : OneToOne(i, j)' = OneToOne(i, j)
    BY <1>2, <1>4 DEF SpecifiesTags, OneToOne, DependencyIsTagged
  <1>6. \A tags, n : EvaluateTags(tags, n)' = EvaluateTags(tags, n)
    BY DEF EvaluateTags, ArrayLengths, Evaluate, ValueAt
  <1>7. \A i, j, p : Matched(i, j, p)' = Matched(i, j, p)
    BY <1>4, <1>5, <1>6 DEF Matched
  <1> QED BY <1>2, <1>3, <1>4, <1>7 DEF Tests

\* A step that leaves the relations and the edges alone.
LEMMA RelationsStay ==
    ASSUME UNCHANGED <<project, jobs, edges, props>>
    PROVE  /\ \A i, j, p : Matched(i, j, p)' = Matched(i, j, p)
           /\ \A p, j : EdgesBetween(JobGraph, p, j)' = EdgesBetween(JobGraph, p, j)
           /\ \A n : Distinct(n)' = Distinct(n) /\ Class(n)' = Class(n)
           /\ Items' = Items /\ Tests' = Tests
  <1>1. \A p, j : EdgesBetween(JobGraph, p, j)' = EdgesBetween(JobGraph, p, j)
    BY DEF EdgesBetween, EdgesInto, EdgesFrom, JobGraph
  <1> QED BY <1>1, MatchedStay

\* A step that leaves the agenda alone, too.
LEMMA TreatedInvStays ==
    ASSUME TreatedInv, UNCHANGED <<project, jobs, edges, props, classes, agenda, unresolved>>,
           current' \subseteq current, phase' = "resolve" => phase = "resolve"
    PROVE  TreatedInv'
  <1>1. \A n, j : Done(n, j)' = Done(n, j)
    BY DEF Done
  <1>2. \A n, p, j : Relations(n, p, j)' = Relations(n, p, j)
    BY <1>1, RelationsStay DEF Relations
  <1>3. Items' = Items
    BY RelationsStay
  <1> QED BY <1>2, <1>3, RelationsStay DEF TreatedInv

\* When a job is visited, it has no edge and none of its items is treated.
LEMMA VisitJobTreatedInv ==
    ASSUME IInv, TreatedInv, NEW j \in DOMAIN jobs, VisitJob(j)
    PROVE  TreatedInv'
  <1>1. /\ UNCHANGED <<project, jobs, edges, agenda>> /\ current = {} /\ current' = {j}
        /\ unresolved' = unresolved \ {j} /\ j \in unresolved
        /\ classes' = PredecessorSet(project.graph, jobs[j].name)
    BY DEF VisitJob, multiplierVars
  <1>2. agenda' = {}
    BY <1>1 DEF IInv, AgendaInv
  <1>3. \A k \in DOMAIN edges : edges[k].succ # j /\ edges[k].succ \notin unresolved'
    BY <1>1 DEF TreatedInv
  <1>4. \A n : Done(n, j)' = {}
    BY <1>1 DEF Done, EdgesBetween, EdgesInto, EdgesFrom, PredecessorSet
  <1>5. \A n, p : Relations(n, p, j)' = {}
    BY <1>4 DEF Relations
  <1>6. \A p : EdgesBetween(JobGraph, p, j)' = {}
    BY <1>1, <1>3 DEF EdgesBetween, EdgesInto, EdgesFrom, JobGraph
  <1>7. IsFiniteSet({}) /\ Cardinality({}) = 0
    BY FS_EmptySet
  <1>8. (\A i \in current : \A n \in Tests : \A p \in Class(n) :
              Distinct(n) =>
                  /\ IsFiniteSet(Relations(n, p, i))
                  /\ Cardinality(EdgesBetween(JobGraph, p, i)) = Cardinality(Relations(n, p, i)))'
    BY <1>1, <1>5, <1>6, <1>7
  <1>9. current' \cap unresolved' = {} /\ \A k \in DOMAIN edges' : edges'[k].succ \notin unresolved'
    BY <1>1, <1>3
  <1> QED BY <1>2, <1>8, <1>9 DEF TreatedInv

\* The items of the class that is visited go to the agenda, and no other item.
LEMMA VisitClassTreatedInv ==
    ASSUME IInv, TreatedInv, NEW n \in Names, VisitClass(n)
    PROVE  TreatedInv'
  <1>1. /\ UNCHANGED <<project, jobs, edges, props, current, unresolved, phase>> /\ agenda = {}
        /\ n \in classes /\ classes' = classes \ {n} /\ phase = "resolve"
        /\ agenda' = UNION {EdgesBetween(project.graph, n, jobs[j].name) : j \in current}
    BY DEF VisitClass, multiplierVars
  <1>2. \A i \in agenda' : Items[i].pred = n
    BY <1>1 DEF EdgesBetween, EdgesInto, EdgesFrom, Items
  <1>3. ASSUME NEW j \in current, NEW m PROVE Done(m, j)' = Done(m, j)
    <2>1. CASE m = n
      <3>1. Done(m, j) = {}
        BY <1>1, <2>1 DEF Done
      <3>2. EdgesBetween(project.graph, n, jobs[j].name) \subseteq agenda'
        BY <1>1
      <3>3. Done(m, j)' = {}
        BY <1>1, <2>1, <3>2 DEF Done
      <3> QED BY <3>1, <3>3
    <2>2. CASE m # n
      <3>1. \A i \in EdgesBetween(project.graph, m, jobs[j].name) : i \notin agenda'
        BY <1>2, <2>2 DEF EdgesBetween, EdgesInto, EdgesFrom, Items
      <3> QED BY <1>1, <2>2, <3>1 DEF Done
    <2> QED BY <2>1, <2>2
  <1>4. \A j \in current : \A m, p : Relations(m, p, j)' = Relations(m, p, j)
    BY <1>1, <1>3, RelationsStay DEF Relations
  <1>5. (\A j \in current : \A m \in Tests : \A p \in Class(m) :
              Distinct(m) =>
                  /\ IsFiniteSet(Relations(m, p, j))
                  /\ Cardinality(EdgesBetween(JobGraph, p, j)) = Cardinality(Relations(m, p, j)))'
    BY <1>1, <1>4, RelationsStay DEF TreatedInv
  <1>6. Items' = Items
    BY <1>1, RelationsStay
  <1> QED BY <1>1, <1>2, <1>5, <1>6 DEF TreatedInv

\* An item that is treated adds as many edges as it has relations.
LEMMA ResolveItemTreatedInv ==
    ASSUME IInv, TreatedInv, NEW i \in DOMAIN Items, ResolveItem(i)
    PROVE  TreatedInv'
  <1>1. /\ UNCHANGED <<project, jobs, props, current, classes, unresolved>>
        /\ i \in agenda /\ agenda' = agenda \ {i} /\ phase = "resolve"
    BY DEF ResolveItem, multiplierVars, Newest
  <1>2. PICK j \in current :
          \/ /\ InOrder(i, j)
             /\ \E q \in Listed(Preceding(i, j)) :
                   edges' = edges \o [k \in DOMAIN q |-> JobEdge(q[k][2], j, i)]
          \/ phase' \in {"exited", "crashed"} /\ UNCHANGED edges
    BY DEF ResolveItem, Exit
  <1>3. /\ j \in DOMAIN jobs /\ Items[i].succ = jobs[j].name
        /\ \A k \in current : k = j
    BY <1>1 DEF IInv, AgendaInv
  <1>4. \A k \in agenda' : Items'[k].pred \notin classes'
    BY <1>1 DEF TreatedInv, Items
  <1>5. CASE phase' \in {"exited", "crashed"} /\ UNCHANGED edges
    BY <1>1, <1>4, <1>5 DEF TreatedInv
  <1>6. CASE /\ ~Unmatched(i, j)
             /\ \E q \in Listed(Preceding(i, j)) :
                   edges' = edges \o [k \in DOMAIN q |-> JobEdge(q[k][2], j, i)]
    <2>0. PICK P : P = Preceding(i, j)
      OBVIOUS
    <2>1. PICK q \in Listed(P) : edges' = edges \o [k \in DOMAIN q |-> JobEdge(q[k][2], j, i)]
      BY <1>6, <2>0
    <2>2. q \in Bijection(1..Cardinality(P), P)
      BY <2>1 DEF Listed
    <2>3. PICK t : t = [k \in DOMAIN q |-> JobEdge(q[k][2], j, i)]
      OBVIOUS
    <2>4. edges' = edges \o t
      BY <2>1, <2>3
    <2>5. IsFiniteSet(P) /\ \A m \in P : m[2] \in Class(Items[i].pred)
      BY <1>3, <2>0, PrecedingFacts DEF IInv, JobsInv
    <2>6. edges \in Seq(Range(edges))
      BY DEF IInv, EdgesInv
    <2>6a. EdgesFor(P, q, t, j)
      <3>1. DOMAIN q = 1..Cardinality(P) /\ Cardinality(P) \in Nat
        BY <2>2, <2>5, BijectionFacts
      <3>2. t \in Seq(Range(t)) /\ DOMAIN t = DOMAIN q
        BY <2>3, <3>1, MapIsSequence
      <3>3. \A k \in DOMAIN q : t[k].pred = q[k][2] /\ t[k].succ = j
        BY <2>3 DEF JobEdge
      <3> QED BY <2>2, <2>5, <3>2, <3>3 DEF EdgesFor
    <2>7. ASSUME NEW p
          PROVE  Cardinality(EdgesBetween(JobGraph, p, j)') =
                 Cardinality(EdgesBetween(JobGraph, p, j)) + Cardinality({m \in P : m[2] = p})
      <3>1. PICK g : g = [nodes |-> DOMAIN jobs, edges |-> edges]
        OBVIOUS
      <3>2. PICK h : h = [nodes |-> DOMAIN jobs, edges |-> edges \o t]
        OBVIOUS
      <3>3. PICK Q : Q = {m \in P : m[2] = p}
        OBVIOUS
      <3>4. g.edges = edges /\ h.edges = edges \o t
        BY <3>1, <3>2
      <3>5. Cardinality(EdgesBetween(h, p, j)) = Cardinality(EdgesBetween(g, p, j)) + Cardinality(Q)
        BY <2>6, <2>6a, <3>3, <3>4, EdgesAdded
      <3>6. EdgesBetween(JobGraph, p, j) = EdgesBetween(g, p, j)
        BY <3>1 DEF JobGraph
      <3>7. EdgesBetween(JobGraph, p, j)' = EdgesBetween(h, p, j)
        BY <1>1, <2>4, <3>2 DEF EdgesBetween, EdgesInto, EdgesFrom, JobGraph
      <3> QED BY <2>4, <3>3, <3>5, <3>6, <3>7
    <2>8. \A k \in DOMAIN edges' : edges'[k].succ # j => k \in DOMAIN edges /\ edges'[k] = edges[k]
      BY <2>4, <2>6, <2>6a, OtherEdgesStay
    <2>9. \A p : Cardinality(EdgesBetween(JobGraph, p, j)') =
                 Cardinality(EdgesBetween(JobGraph, p, j)) + Cardinality({m \in P : m[2] = p})
      BY <2>7
    <2>10. \A k \in DOMAIN edges' : edges'[k].succ \notin unresolved'
      <3>1. j \notin unresolved
        BY DEF TreatedInv
      <3> QED BY <1>1, <2>8, <3>1 DEF TreatedInv
    <2>11. /\ \A r, b, p : Matched(r, b, p)' = Matched(r, b, p)
           /\ \A n : Distinct(n)' = Distinct(n) /\ Class(n)' = Class(n)
           /\ Tests' = Tests
      BY <1>1, MatchedStay
    <2>12. \A n : n # Items[i].pred => Done(n, j)' = Done(n, j)
      BY <1>1 DEF Done, EdgesBetween, EdgesFrom, Items
    <2>13. \A n : n = Items[i].pred => Done(n, j)' = Done(n, j) \cup {i} /\ i \notin Done(n, j)
      <3>1. i \in EdgesBetween(project.graph, Items[i].pred, jobs[j].name)
        BY <1>3 DEF EdgesBetween, EdgesInto, EdgesFrom, Items
      <3>2. Items[i].pred \notin classes
        BY <1>1 DEF TreatedInv
      <3> QED BY <1>1, <3>1, <3>2 DEF Done, Items
    <2>14. ASSUME NEW n \in Tests, NEW p \in Class(n), Distinct(n)
           PROVE  /\ IsFiniteSet(Relations(n, p, j)')
                  /\ Cardinality(EdgesBetween(JobGraph, p, j)') = Cardinality(Relations(n, p, j)')
      <3>0. /\ IsFiniteSet(Relations(n, p, j))
            /\ Cardinality(EdgesBetween(JobGraph, p, j)) = Cardinality(Relations(n, p, j))
        BY <1>1, <2>14 DEF TreatedInv
      <3>1. CASE n # Items[i].pred
        <4>1. Relations(n, p, j)' = Relations(n, p, j)
          BY <2>11, <2>12, <3>1 DEF Relations
        <4>2. {m \in P : m[2] = p} = {}
          BY <2>5, <3>1 DEF Class
        <4>3. Cardinality({m \in P : m[2] = p}) = 0
          BY <4>2, FS_EmptySet
        <4>4. Cardinality(Relations(n, p, j)) \in Nat
          BY <3>0, FS_CardinalityType
        <4> QED BY <2>9, <3>0, <4>1, <4>3, <4>4
      <3>2. CASE n = Items[i].pred
        <4> DEFINE R == Matched(i, j, p)
                   D == Relations(n, p, j)
        <4>2. /\ IsFiniteSet(R) /\ Cardinality(R) = Cardinality({m \in P : m[2] = p})
              /\ \A r \in R : r[1] = i
          BY <1>3, <1>6, <2>0, <2>14, <3>2, MatchedAreVisited
        <4>3. Relations(n, p, j)' = D \cup R
          <5>1. Relations(n, p, j)' = UNION {Matched(b, j, p) : b \in Done(n, j)'}
            BY <2>11 DEF Relations
          <5>2. D = UNION {Matched(b, j, p) : b \in Done(n, j)}
            BY DEF Relations
          <5>3. Done(n, j)' = Done(n, j) \cup {i}
            BY <2>13, <3>2
          <5> HIDE DEF D
          <5> QED BY <5>1, <5>2, <5>3
        <4>4. \A r \in D : r[1] # i
          <5>1. \A b \in Done(n, j) : \A r \in Matched(b, j, p) : r[1] = b
            BY DEF Matched
          <5> QED BY <2>13, <3>2, <5>1 DEF Relations
        <4>5. IsFiniteSet(D) /\ Cardinality(EdgesBetween(JobGraph, p, j)) = Cardinality(D)
          BY <3>0
        <4> HIDE DEF R, D
        <4>6. D \cap R = {}
          BY <4>2, <4>4
        <4>7. /\ IsFiniteSet(D \cup R)
              /\ Cardinality(D \cup R) = Cardinality(D) + Cardinality(R) - Cardinality(D \cap R)
          BY <4>2, <4>5, FS_Union
        <4>8. Cardinality(D \cap R) = 0 /\ Cardinality(D) \in Nat /\ Cardinality(R) \in Nat
          BY <4>2, <4>5, <4>6, FS_EmptySet, FS_CardinalityType
        <4>9. Cardinality(D \cup R) = Cardinality(D) + Cardinality(R)
          BY <4>7, <4>8
        <4> QED BY <2>9, <4>2, <4>3, <4>5, <4>7, <4>9
      <3> QED BY <3>1, <3>2
    <2>15. (\A b \in current : \A n \in Tests : \A p \in Class(n) :
                Distinct(n) =>
                    /\ IsFiniteSet(Relations(n, p, b))
                    /\ Cardinality(EdgesBetween(JobGraph, p, b)) = Cardinality(Relations(n, p, b)))'
      <3>1. \A b \in current' : b = j
        BY <1>1, <1>3
      <3> QED BY <1>1, <2>11, <2>14, <3>1
    <2> QED BY <1>1, <1>4, <2>10, <2>15 DEF TreatedInv
  <1> QED BY <1>2, <1>5, <1>6 DEF InOrder

\* Once all its items are treated, a job has the edges that they match.
LEMMA EdgesAreMatched == Spec => []EdgesMatchItems
  <1>1. Init => TreatedInv
    BY DEF Init, TreatedInv
  <1>2. IInv /\ TreatedInv /\ [Next]_vars => TreatedInv'
    <2> SUFFICES ASSUME IInv, TreatedInv, [Next]_vars PROVE TreatedInv'
      OBVIOUS
    <2>1. CASE StartMatrix
      BY <2>1, MultiplierTreats DEF StartMatrix, resolverVars
    <2>2. CASE RefuseName
      BY <2>2, MultiplierTreats DEF RefuseName, resolverVars
    <2>3. CASE CombineName
      BY <2>3, MultiplierTreats DEF CombineName, resolverVars
    <2>4. CASE NextName
      BY <2>4, MultiplierTreats DEF NextName, resolverVars
    <2>5. CASE AddUntagged
      BY <2>5, MultiplierTreats DEF AddUntagged
    <2>6. ASSUME NEW j \in DOMAIN jobs, VisitJob(j) PROVE TreatedInv'
      BY <2>6, VisitJobTreatedInv
    <2>7. ASSUME NEW n \in Names, VisitClass(n) PROVE TreatedInv'
      BY <2>7, VisitClassTreatedInv
    <2>8. ASSUME NEW i \in DOMAIN Items, ResolveItem(i) PROVE TreatedInv'
      BY <2>8, ResolveItemTreatedInv
    <2>9. CASE LeaveJob
      BY <2>9, TreatedInvStays DEF LeaveJob, multiplierVars
    <2>10. CASE FinishResolve
      BY <2>10, TreatedInvStays DEF FinishResolve, multiplierVars, resolverVars
    <2>11. CASE UNCHANGED vars
      BY <2>11, TreatedInvStays DEF vars, multiplierVars, resolverVars
    <2> QED BY <2>1, <2>2, <2>3, <2>4, <2>5, <2>6, <2>7, <2>8, <2>9, <2>10, <2>11 DEF Next
  <1>3. IInv /\ TreatedInv => EdgesMatchItems
    <2> SUFFICES ASSUME TreatedInv, phase = "resolve", agenda = {}, classes = {},
                        NEW j \in current, NEW n \in Tests, Distinct(n), NEW p \in Class(n)
                 PROVE  Cardinality(EdgesBetween(JobGraph, p, j)) =
                        Cardinality(UNION {Matched(i, j, p) :
                            i \in EdgesBetween(project.graph, n, jobs[j].name)})
      BY DEF EdgesMatchItems, Distinct
    <2>2. Done(n, j) = EdgesBetween(project.graph, n, jobs[j].name)
      BY DEF Done
    <2> QED BY <2>2 DEF TreatedInv, Relations
  <1> QED BY ResolutionInvariance, <1>1, <1>2, <1>3, PTL DEF Spec

\* What the code matches is what the documentation relates, where they agree.
LEMMA MatchedIsRelated ==
    ASSUME NEW j \in DOMAIN jobs, NEW n, Unequivocal(n, j), NEW p \in Class(n),
           NEW i \in EdgesBetween(project.graph, n, jobs[j].name)
    PROVE  /\ SpecifiesTags(i) \/ (jobs[p].tags = {} \/ jobs[j].tags \subseteq jobs[p].tags
                                      <=> ~(OneToOne(i, j) /\ jobs[j].tags # jobs[p].tags))
           /\ Related(i, j, p) = Matched(i, j, p)
  <1>1. Items[i].pred = n
    BY DEF EdgesBetween, EdgesFrom, Items
  <1>2. SpecifiesTags(i) \/ Agreed(n, j)
    BY DEF Unequivocal
  <1>3. OneToOne(i, j) <=> jobs[j].tags # {} /\ Cardinality(Class(n)) > 1
    BY <1>1 DEF OneToOne, DependencyIsTagged
  <1>4. SpecifiesTags(i) \/ (jobs[p].tags = {} \/ jobs[j].tags \subseteq jobs[p].tags
                                <=> ~(OneToOne(i, j) /\ jobs[j].tags # jobs[p].tags))
    <2>1. CASE jobs[j].tags = {}
      BY <1>3, <2>1
    <2>2. CASE jobs[j].tags # {}
      BY <1>2, <1>3, <2>2 DEF Agreed
    <2> QED BY <2>1, <2>2
  <1>5. CASE SpecifiesTags(i)
    BY <1>4, <1>5 DEF Related, Matched
  <1>6. CASE ~SpecifiesTags(i)
    BY <1>4, <1>6 DEF Related, Matched
  <1> QED BY <1>4, <1>5, <1>6

\* Once all its items are treated, a job has as many edges from another job as the
\* documentation names relations between them, in the cases in which it means the same
\* as the code: completeResolve() finds them in whatever order names and items come.
THEOREM EdgesAreRelations == Spec => []EdgesMatchDepends
  <1>1. IInv /\ EdgesMatchItems => EdgesMatchDepends
    <2> SUFFICES ASSUME IInv, EdgesMatchItems, phase = "resolve", agenda = {}, classes = {},
                        NEW j \in current, NEW n \in Tests, Unequivocal(n, j), NEW p \in Class(n)
                 PROVE  Cardinality(EdgesBetween(JobGraph, p, j)) =
                        Cardinality(UNION {Related(i, j, p) :
                            i \in EdgesBetween(project.graph, n, jobs[j].name)})
      BY DEF EdgesMatchDepends
    <2>1. j \in DOMAIN jobs
      BY DEF IInv, AgendaInv
    <2>2. \A i \in EdgesBetween(project.graph, n, jobs[j].name) : Related(i, j, p) = Matched(i, j, p)
      BY <2>1, MatchedIsRelated
    <2>3. Cardinality(EdgesBetween(JobGraph, p, j)) =
          Cardinality(UNION {Matched(i, j, p) : i \in EdgesBetween(project.graph, n, jobs[j].name)})
      BY DEF EdgesMatchItems, Unequivocal
    <2>4. UNION {Matched(i, j, p) : i \in EdgesBetween(project.graph, n, jobs[j].name)} =
          UNION {Related(i, j, p) : i \in EdgesBetween(project.graph, n, jobs[j].name)}
      BY <2>2
    <2> QED BY <2>3, <2>4
  <1> QED BY ResolutionInvariance, EdgesAreMatched, <1>1, PTL

----------------------------------------------------------------------------
(* The graph of the jobs that are handed over                              *)

\* What Depends item i asks for in job j, without the state of the resolver: tag sets, where the value "own" is the tag of the job
\* itself, or else the default of the property.
OwnOrGiven(v, l, j) ==
    IF v = Own THEN {t \in Fresh(jobs[j].name, jobs[j].tags) : t[1] = l} ELSE {<<l, v>>}

TagSets(i, j) ==
    LET tags == Items[i].tags
        length == CHOOSE k \in IF ArrayLengths(tags) = {} THEN {1} ELSE ArrayLengths(tags) : TRUE
    IN  [k \in 1..length |-> UNION {OwnOrGiven(ValueAt(tags[l], k), l, j) : l \in DOMAIN tags}]

\* The relations that the resolver finds, as a function of project and jobs.
Asked(i, j, p) ==
    IF SpecifiesTags(i)
    THEN {<<i, k>> : k \in {m \in DOMAIN TagSets(i, j) : TagSets(i, j)[m] = jobs[p].tags}}
    ELSE IF OneToOne(i, j) /\ jobs[j].tags # jobs[p].tags THEN {} ELSE {<<i, 1>>}

\* The relations that doc/depends-item.rst names, as a function of project and jobs.
Documented(i, j, p) ==
    IF SpecifiesTags(i)
    THEN {<<i, k>> : k \in {m \in DOMAIN TagSets(i, j) : TagSets(i, j)[m] = jobs[p].tags}}
    ELSE IF jobs[p].tags = {} \/ jobs[j].tags \subseteq jobs[p].tags THEN {<<i, 1>>} ELSE {}

\* Job j has an edge from another one for each relation between them, and no other.
EdgesAsked(j) ==
    \A n \in Tests : Distinct(n) =>
        \A p \in Class(n) :
            Cardinality(EdgesBetween(JobGraph, p, j)) =
            Cardinality(UNION {Asked(i, j, p) : i \in EdgesBetween(project.graph, n, jobs[j].name)})

\* The items treated so far are in order, and so are the edges of the jobs visited.
VisitedInv ==
    phase \in {"resolve", "done"} =>
        /\ \A i \in DOMAIN Items : \A j \in DOMAIN jobs :
                Treated(i, j) => InOrder(i, j)
        /\ \A j \in DOMAIN jobs \ (unresolved \cup current) :
                Single(jobs[j].name) => EdgesAsked(j)

\* No item is left that the program should have refused, and the edges are in order.
GraphAsAsked ==
    phase = "done" =>
        \A j \in DOMAIN jobs :
            /\ \A i \in DOMAIN Items :
                    Items[i].succ = jobs[j].name => InOrder(i, j)
            /\ Single(jobs[j].name) => EdgesAsked(j)

\* A job of a test case that is in one matrix at most has the edges its Depends items are
\* documented to make, from every dependency that documentation and code agree about.
GraphIsDocumented ==
    phase = "done" =>
        \A j \in DOMAIN jobs : Single(jobs[j].name) =>
            \A n \in Tests : Unequivocal(n, j) =>
                \A p \in Class(n) :
                    Cardinality(EdgesBetween(JobGraph, p, j)) =
                    Cardinality(UNION {Documented(i, j, p) :
                        i \in EdgesBetween(project.graph, n, jobs[j].name)})

\* What an item asks for depends on the project and the jobs only.
LEMMA AskedStay ==
    ASSUME UNCHANGED <<project, jobs>>
    PROVE  /\ \A i, j, p : Asked(i, j, p)' = Asked(i, j, p)
           /\ \A n : Distinct(n)' = Distinct(n) /\ Class(n)' = Class(n) /\ Single(n)' = Single(n)
           /\ \A i, j : InOrder(i, j)' = InOrder(i, j) /\ Unmatched(i, j)' = Unmatched(i, j)
           /\ \A i : IllFormed(i)' = IllFormed(i) /\ IllTyped(i)' = IllTyped(i)
           /\ Items' = Items /\ Tests' = Tests
  <1>1. Items' = Items /\ Tests' = Tests
    BY DEF Items, Tests
  <1>2. \A n : Class(n)' = Class(n)
    BY DEF Class
  <1>3. \A n : Distinct(n)' = Distinct(n)
    BY <1>2 DEF Distinct
  <1>4. \A n : Single(n)' = Single(n)
    BY DEF Single, MatricesOf
  <1>5. \A i : /\ SpecifiesTags(i)' = SpecifiesTags(i) /\ IllFormed(i)' = IllFormed(i)
               /\ IllTyped(i)' = IllTyped(i)
    BY <1>1 DEF SpecifiesTags, IllFormed, IllTyped, HasValue, ArrayLengths
  <1>6. \A i, j : OneToOne(i, j)' = OneToOne(i, j) /\ EqualTags(i, j)' = EqualTags(i, j)
    BY <1>1, <1>2 DEF OneToOne, DependencyIsTagged, EqualTags
  <1>7. \A i, j : Unmatched(i, j)' = Unmatched(i, j)
    BY <1>5, <1>6 DEF Unmatched
  <1>8. \A i, j : TagSets(i, j)' = TagSets(i, j)
    <2>1. \A v, l, j : OwnOrGiven(v, l, j)' = OwnOrGiven(v, l, j)
      BY DEF OwnOrGiven, Fresh
    <2> QED BY <1>1, <2>1 DEF TagSets, ArrayLengths, ValueAt
  <1>9. \A i, j, p : Asked(i, j, p)' = Asked(i, j, p)
    BY <1>5, <1>6, <1>8 DEF Asked
  <1> QED BY <1>1, <1>2, <1>3, <1>4, <1>5, <1>7, <1>9 DEF InOrder

\* The items of the visited job see the tags of this job: they match what they ask for.
LEMMA MatchedIsAsked ==
    ASSUME PropsInv, NEW j \in current, Single(jobs[j].name)
    PROVE  \A i, p : Matched(i, j, p) = Asked(i, j, p)
  <1>1. props[jobs[j].name] = Fresh(jobs[j].name, jobs[j].tags)
    BY DEF PropsInv
  <1>2. \A v, l : Evaluate(v, l, jobs[j].name) = OwnOrGiven(v, l, j)
    BY <1>1 DEF Evaluate, OwnOrGiven
  <1>3. \A i : EvaluateTags(Items[i].tags, jobs[j].name) = TagSets(i, j)
    BY <1>2 DEF EvaluateTags, TagSets
  <1> SUFFICES ASSUME NEW i, NEW p PROVE Matched(i, j, p) = Asked(i, j, p)
    OBVIOUS
  <1>4. CASE SpecifiesTags(i)
    <2>1. PICK list : list = TagSets(i, j)
      OBVIOUS
    <2>2. Matched(i, j, p) = {<<i, t>> : t \in {k \in DOMAIN list : list[k] = jobs[p].tags}}
      BY <1>3, <1>4, <2>1 DEF Matched
    <2>3. Asked(i, j, p) = {<<i, k>> : k \in {m \in DOMAIN list : list[m] = jobs[p].tags}}
      BY <1>4, <2>1 DEF Asked
    <2> QED BY <2>2, <2>3
  <1>5. CASE ~SpecifiesTags(i)
    BY <1>5 DEF Matched, Asked
  <1> QED BY <1>4, <1>5

\* A job whose edges stay keeps them in order.
LEMMA EdgesAskedStay ==
    ASSUME UNCHANGED <<project, jobs>>, NEW j, EdgesAsked(j),
           \A p : EdgesBetween(JobGraph, p, j)' = EdgesBetween(JobGraph, p, j)
    PROVE  EdgesAsked(j)'
  <1> SUFFICES ASSUME NEW n \in Tests', Distinct(n)', NEW p \in Class(n)'
               PROVE  Cardinality(EdgesBetween(JobGraph, p, j)') =
                      Cardinality(UNION {Asked(i, j, p) :
                            i \in EdgesBetween(project.graph, n, jobs[j].name)}')
    BY DEF EdgesAsked
  <1>1. n \in Tests /\ Distinct(n) /\ p \in Class(n)
    BY AskedStay
  <1>2. EdgesBetween(project.graph, n, jobs[j].name)' = EdgesBetween(project.graph, n, jobs[j].name)
    BY DEF EdgesBetween, EdgesInto, EdgesFrom
  <1>3. (UNION {Asked(i, j, p) : i \in EdgesBetween(project.graph, n, jobs[j].name)})' =
        UNION {Asked(i, j, p) : i \in EdgesBetween(project.graph, n, jobs[j].name)}
    BY <1>2, AskedStay
  <1> QED BY <1>1, <1>3 DEF EdgesAsked


\* The edges added for job j leave those of another job alone.
LEMMA ItemEdgesOfOthers ==
    ASSUME IInv, UNCHANGED jobs, NEW i \in DOMAIN Items, NEW j \in DOMAIN jobs, NEW k, k # j, NEW p,
           \E q \in Listed(Preceding(i, j)) :
                edges' = edges \o [l \in DOMAIN q |-> JobEdge(q[l][2], j, i)]
    PROVE  EdgesBetween(JobGraph, p, k)' = EdgesBetween(JobGraph, p, k)
  <1>0. PICK P : P = Preceding(i, j)
    OBVIOUS
  <1>1. PICK q \in Listed(P) : edges' = edges \o [l \in DOMAIN q |-> JobEdge(q[l][2], j, i)]
    BY <1>0
  <1>2. q \in Bijection(1..Cardinality(P), P)
    BY <1>1 DEF Listed
  <1>3. PICK t : t = [l \in DOMAIN q |-> JobEdge(q[l][2], j, i)]
    OBVIOUS
  <1>4. edges' = edges \o t
    BY <1>1, <1>3
  <1>5. IsFiniteSet(P)
    BY <1>0, PrecedingFacts DEF IInv, JobsInv
  <1>6. edges \in Seq(Range(edges))
    BY DEF IInv, EdgesInv
  <1>7. EdgesFor(P, q, t, j)
    <2>1. DOMAIN q = 1..Cardinality(P) /\ Cardinality(P) \in Nat
      BY <1>2, <1>5, BijectionFacts
    <2>2. t \in Seq(Range(t)) /\ DOMAIN t = DOMAIN q
      BY <1>3, <2>1, MapIsSequence
    <2>3. \A l \in DOMAIN q : t[l].pred = q[l][2] /\ t[l].succ = j
      BY <1>3 DEF JobEdge
    <2> QED BY <1>2, <1>5, <2>2, <2>3 DEF EdgesFor
  <1>8. \A l \in DOMAIN edges' : edges'[l].succ # j => l \in DOMAIN edges /\ edges'[l] = edges[l]
    <2> SUFFICES ASSUME NEW l \in DOMAIN (edges \o t), (edges \o t)[l].succ # j
                 PROVE  l \in DOMAIN edges /\ (edges \o t)[l] = edges[l]
      BY <1>4
    <2>1. PICK s : s = edges
      OBVIOUS
    <2>2. s \in Seq(Range(s)) /\ l \in DOMAIN (s \o t) /\ (s \o t)[l].succ # j
      BY <1>6, <2>1
    <2>3. l \in DOMAIN s /\ (s \o t)[l] = s[l]
      BY <1>7, <2>2, OtherEdgesStay
    <2> QED BY <2>1, <2>3
  <1>9. \A l \in DOMAIN edges : l \in DOMAIN edges' /\ edges'[l] = edges[l]
    <2>1. t \in Seq(Range(t))
      BY <1>7 DEF EdgesFor
    <2>2. /\ DOMAIN edges = 1..Len(edges) /\ Len(edges) \in Nat /\ Len(t) \in Nat
          /\ DOMAIN (edges \o t) = 1..(Len(edges) + Len(t))
          /\ \A n \in 1..Len(edges) : (edges \o t)[n] = edges[n]
      BY <1>6, <2>1, ConcatFacts
    <2> QED BY <1>4, <2>2
  <1> QED BY <1>8, <1>9 DEF EdgesBetween, EdgesInto, EdgesFrom, JobGraph

\* In the end all jobs have been visited.
FinishedInv == phase = "done" => unresolved = {} /\ current = {}
LEMMA AllAreVisited == Spec => []FinishedInv
  <1>1. Init => FinishedInv
    BY DEF Init, FinishedInv
  <1>2. FinishedInv /\ [Next]_vars => FinishedInv'
    <2> SUFFICES ASSUME FinishedInv, [Next]_vars, phase' = "done"
                 PROVE  unresolved' = {} /\ current' = {}
      BY DEF FinishedInv
    <2>1. CASE FinishResolve
      BY <2>1 DEF FinishResolve, resolverVars
    <2>2. CASE UNCHANGED vars
      BY <2>2 DEF vars, resolverVars, FinishedInv
    <2> QED BY <2>1, <2>2 DEF Next, StartMatrix, RefuseName, CombineName, NextName, AddUntagged,
              VisitJob, VisitClass, ResolveItem, LeaveJob, Exit
  <1> QED BY <1>1, <1>2, PTL DEF Spec

\* A step of the resolver that treats no item, and leaves the edges alone.
LEMMA VisitedInvStays ==
    ASSUME VisitedInv, UNCHANGED <<project, jobs, edges>>, phase \in {"resolve", "done"},
           \A i \in DOMAIN Items : \A j : Treated(i, j)' => Treated(i, j),
           \A j : j \notin unresolved' \cup current' => j \notin unresolved \cup current
    PROVE  VisitedInv'
  <1>1. DOMAIN jobs' = DOMAIN jobs /\ Items' = Items
    BY AskedStay
  <1>2. \A j, p : EdgesBetween(JobGraph, p, j)' = EdgesBetween(JobGraph, p, j)
    BY DEF EdgesBetween, EdgesInto, EdgesFrom, JobGraph
  <1>3. (\A i \in DOMAIN Items : \A j \in DOMAIN jobs :
            Treated(i, j) => InOrder(i, j))'
    BY <1>1, AskedStay DEF VisitedInv
  <1>4. ASSUME NEW j \in DOMAIN jobs \ (unresolved' \cup current'), Single(jobs[j].name)
        PROVE  EdgesAsked(j)'
    <2>1. EdgesAsked(j)
      BY <1>4 DEF VisitedInv
    <2> QED BY <1>2, <2>1, EdgesAskedStay
  <1>5. (\A j \in DOMAIN jobs \ (unresolved \cup current) : Single(jobs[j].name) => EdgesAsked(j))'
    BY <1>1, <1>4, AskedStay
  <1> QED BY <1>3, <1>5 DEF VisitedInv

\* The job that is left has all the edges of its items.
LEMMA LeaveJobVisitedInv ==
    ASSUME IInv, PropsInv, EdgesMatchItems, VisitedInv, LeaveJob
    PROVE  VisitedInv'
  <1>1. /\ UNCHANGED <<project, jobs, edges, unresolved, classes, agenda>> /\ phase = "resolve"
        /\ phase' = "resolve" /\ current' = {} /\ agenda = {} /\ classes = {}
    BY DEF LeaveJob, multiplierVars
  <1>2. DOMAIN jobs' = DOMAIN jobs /\ Items' = Items
    BY <1>1, AskedStay
  <1>3. (\A i \in DOMAIN Items : \A j \in DOMAIN jobs :
            Treated(i, j) => InOrder(i, j))'
    <2>1. \A i, j : Treated(i, j)' => Treated(i, j)
      BY <1>1, <1>2, AskedStay DEF Treated
    <2> QED BY <1>1, <1>2, <2>1, AskedStay DEF VisitedInv
  <1>4. ASSUME NEW j \in DOMAIN jobs \ unresolved, Single(jobs[j].name)
        PROVE  EdgesAsked(j)'
    <2>1. \A p : EdgesBetween(JobGraph, p, j)' = EdgesBetween(JobGraph, p, j)
      BY <1>1 DEF EdgesBetween, EdgesInto, EdgesFrom, JobGraph
    <2>2. EdgesAsked(j)
      <3>1. CASE j \in current
        <4>1. \A i, p : Matched(i, j, p) = Asked(i, j, p)
          BY <1>4, <3>1, MatchedIsAsked
        <4>2. ASSUME NEW n \in Tests, Distinct(n), NEW p \in Class(n)
              PROVE  Cardinality(EdgesBetween(JobGraph, p, j)) =
                     Cardinality(UNION {Asked(i, j, p) :
                          i \in EdgesBetween(project.graph, n, jobs[j].name)})
          <5>1. Cardinality(EdgesBetween(JobGraph, p, j)) =
                Cardinality(UNION {Matched(i, j, p) :
                          i \in EdgesBetween(project.graph, n, jobs[j].name)})
            BY <1>1, <3>1, <4>2 DEF EdgesMatchItems, Distinct
          <5> QED BY <4>1, <5>1
        <4> QED BY <4>2 DEF EdgesAsked
      <3>2. CASE j \notin current
        BY <1>1, <1>4, <3>2 DEF VisitedInv
      <3> QED BY <3>1, <3>2
    <2> QED BY <1>1, <2>1, <2>2, EdgesAskedStay
  <1>5. (\A j \in DOMAIN jobs \ (unresolved \cup current) : Single(jobs[j].name) => EdgesAsked(j))'
    BY <1>1, <1>2, <1>4, AskedStay
  <1> QED BY <1>3, <1>5 DEF VisitedInv

\* An item is treated only if it is in order, and its edges lead to the current job.
LEMMA ResolveItemVisitedInv ==
    ASSUME IInv, VisitedInv, NEW i \in DOMAIN Items, ResolveItem(i)
    PROVE  VisitedInv'
  <1>1. /\ UNCHANGED <<project, jobs, props, current, classes, unresolved>>
        /\ i \in agenda /\ agenda' = agenda \ {i} /\ phase = "resolve"
    BY DEF ResolveItem, multiplierVars, Newest
  <1>2. PICK j \in current :
          \/ /\ InOrder(i, j)
             /\ \E q \in Listed(Preceding(i, j)) :
                   edges' = edges \o [k \in DOMAIN q |-> JobEdge(q[k][2], j, i)]
             /\ UNCHANGED phase
          \/ phase' \in {"exited", "crashed"}
    BY DEF ResolveItem, Exit
  <1>3. /\ j \in DOMAIN jobs /\ Items[i].succ = jobs[j].name
        /\ \A k \in current : k = j
    BY <1>1 DEF IInv, AgendaInv
  <1>4. CASE phase' \in {"exited", "crashed"}
    BY <1>4 DEF VisitedInv
  <1>5. CASE /\ InOrder(i, j) /\ UNCHANGED phase
             /\ \E q \in Listed(Preceding(i, j)) :
                   edges' = edges \o [k \in DOMAIN q |-> JobEdge(q[k][2], j, i)]
    <2>1. DOMAIN jobs' = DOMAIN jobs /\ Items' = Items
      BY <1>1, AskedStay
    <2>2. ASSUME NEW m \in DOMAIN Items, NEW k \in DOMAIN jobs, Treated(m, k)'
          PROVE  InOrder(m, k)
      <3>1. CASE m = i /\ k \in current
        BY <1>3, <1>5, <3>1
      <3>2. CASE ~(m = i /\ k \in current)
        <4>1. /\ phase # "multiply" /\ k \in Class(Items[m].succ) \ unresolved
              /\ current = {k} => Items[m].pred \notin classes /\ m \notin agenda'
          BY <1>1, <2>1, <2>2, AskedStay DEF Treated
        <4>2. current = {k} => m # i
          BY <3>2
        <4>3. Treated(m, k)
          BY <1>1, <4>1, <4>2 DEF Treated
        <4> QED BY <4>3, <1>1 DEF VisitedInv
      <3> QED BY <3>1, <3>2
    <2>3. (\A m \in DOMAIN Items : \A k \in DOMAIN jobs :
              Treated(m, k) => InOrder(m, k))'
      BY <1>1, <2>1, <2>2, AskedStay
    <2>4. ASSUME NEW k \in DOMAIN jobs \ (unresolved \cup current), Single(jobs[k].name)
          PROVE  EdgesAsked(k)'
      <3>1. EdgesAsked(k)
        BY <1>1, <2>4 DEF VisitedInv
      <3>2. k # j
        BY <1>2, <2>4
      <3>3. ASSUME NEW p PROVE EdgesBetween(JobGraph, p, k)' = EdgesBetween(JobGraph, p, k)
        BY <1>1, <1>3, <1>5, <3>2, ItemEdgesOfOthers
      <3> QED BY <1>1, <3>1, <3>3, EdgesAskedStay
    <2>5. (\A k \in DOMAIN jobs \ (unresolved \cup current) :
              Single(jobs[k].name) => EdgesAsked(k))'
      BY <1>1, <2>1, <2>4, AskedStay
    <2> QED BY <2>3, <2>5 DEF VisitedInv
  <1> QED BY <1>2, <1>4, <1>5

\* When the resolution is done, every job has the edges that its items ask for, and no
\* item is left that the program should have refused.
LEMMA JobsAsAsked == Spec => []GraphAsAsked
  <1>1. Init => VisitedInv
    BY DEF Init, VisitedInv
  <1>2. IInv /\ PropsInv /\ EdgesMatchItems /\ VisitedInv /\ [Next]_vars => VisitedInv'
    <2> SUFFICES ASSUME IInv, PropsInv, EdgesMatchItems, VisitedInv, [Next]_vars
                 PROVE  VisitedInv'
      OBVIOUS
    <2>1. ASSUME phase' \notin {"resolve", "done"} PROVE VisitedInv'
      BY <2>1 DEF VisitedInv
    <2>2. CASE StartMatrix \/ RefuseName \/ CombineName \/ NextName
      <3>1. phase' \notin {"resolve", "done"}
        BY <2>2 DEF StartMatrix, RefuseName, CombineName, NextName, Exit
      <3> QED BY <2>1, <3>1
    <2>3. CASE AddUntagged
      <3>1. unresolved' = DOMAIN jobs'
        BY <2>3 DEF AddUntagged
      <3>2. \A i, j : ~Treated(i, j)'
        BY <3>1 DEF Treated, Class
      <3> QED BY <3>1, <3>2 DEF VisitedInv
    <2>4. ASSUME NEW j \in DOMAIN jobs, VisitJob(j) PROVE VisitedInv'
      <3>1. /\ UNCHANGED <<project, jobs, edges, agenda, phase>> /\ phase = "resolve"
            /\ current = {} /\ current' = {j} /\ unresolved' = unresolved \ {j}
            /\ classes' = PredecessorSet(project.graph, jobs[j].name)
        BY <2>4 DEF VisitJob, multiplierVars
      <3>2. ASSUME NEW i \in DOMAIN Items, NEW k, Treated(i, k)' PROVE Treated(i, k)
        <4>1. /\ k \in Class(Items[i].succ) \ unresolved'
              /\ k = j => Items[i].pred \notin classes'
          BY <3>1, <3>2, AskedStay DEF Treated
        <4>2. k # j
          <5> SUFFICES ASSUME k = j PROVE FALSE
            OBVIOUS
          <5>1. Items[i].succ = jobs[j].name
            BY <4>1 DEF Class
          <5> QED BY <3>1, <4>1, <5>1 DEF PredecessorSet, EdgesInto, Items
        <4> QED BY <3>1, <4>1, <4>2 DEF Treated
      <3>3. \A i \in DOMAIN Items : \A k : Treated(i, k)' => Treated(i, k)
        BY <3>2
      <3> QED BY <3>1, <3>3, VisitedInvStays
    <2>5. ASSUME NEW n \in Names, VisitClass(n) PROVE VisitedInv'
      <3>1. /\ UNCHANGED <<project, jobs, edges, current, unresolved, phase>> /\ phase = "resolve"
            /\ agenda = {} /\ n \in classes /\ classes' = classes \ {n}
            /\ agenda' = UNION {EdgesBetween(project.graph, n, jobs[j].name) : j \in current}
        BY <2>5 DEF VisitClass, multiplierVars
      <3>2. ASSUME NEW i \in DOMAIN Items, NEW k, Treated(i, k)' PROVE Treated(i, k)
        <4>1. /\ k \in Class(Items[i].succ) \ unresolved
              /\ current = {k} => Items[i].pred \notin classes' /\ i \notin agenda'
          BY <3>1, <3>2, AskedStay DEF Treated
        <4>2. current = {k} => Items[i].pred # n
          <5> SUFFICES ASSUME current = {k}, Items[i].pred = n PROVE FALSE
            OBVIOUS
          <5>1. Items[i].succ = jobs[k].name
            BY <4>1 DEF Class
          <5>2. i \in EdgesBetween(project.graph, n, jobs[k].name)
            BY <5>1 DEF EdgesBetween, EdgesInto, EdgesFrom, Items
          <5> QED BY <3>1, <4>1, <5>2
        <4> QED BY <3>1, <4>1, <4>2 DEF Treated
      <3>3. \A i \in DOMAIN Items : \A k : Treated(i, k)' => Treated(i, k)
        BY <3>2
      <3> QED BY <3>1, <3>3, VisitedInvStays
    <2>6. ASSUME NEW i \in DOMAIN Items, ResolveItem(i) PROVE VisitedInv'
      BY <2>6, ResolveItemVisitedInv
    <2>7. CASE LeaveJob
      BY <2>7, LeaveJobVisitedInv
    <2>8. CASE FinishResolve
      <3>1. UNCHANGED <<project, jobs, edges, current, unresolved, classes, agenda>> /\ phase = "resolve"
        BY <2>8 DEF FinishResolve, multiplierVars, resolverVars
      <3>2. \A i, k : Treated(i, k)' => Treated(i, k)
        BY <3>1, AskedStay DEF Treated
      <3> QED BY <3>1, <3>2, VisitedInvStays
    <2>9. CASE UNCHANGED vars
      <3>1. UNCHANGED <<project, jobs, edges, current, unresolved, classes, agenda, phase>>
        BY <2>9 DEF vars, multiplierVars, resolverVars
      <3>2. \A i, k : Treated(i, k)' => Treated(i, k)
        BY <3>1, AskedStay DEF Treated
      <3>3. CASE phase \in {"resolve", "done"}
        BY <3>1, <3>2, <3>3, VisitedInvStays
      <3> QED BY <2>1, <3>1, <3>3
    <2> QED BY <2>2, <2>3, <2>4, <2>5, <2>6, <2>7, <2>8, <2>9 DEF Next
  <1>3. FinishedInv /\ VisitedInv => GraphAsAsked
    <2> SUFFICES ASSUME FinishedInv, VisitedInv, phase = "done", NEW j \in DOMAIN jobs
                 PROVE  /\ \A i \in DOMAIN Items :
                              Items[i].succ = jobs[j].name => InOrder(i, j)
                        /\ Single(jobs[j].name) => EdgesAsked(j)
      BY DEF GraphAsAsked
    <2>1. unresolved = {} /\ current = {}
      BY DEF FinishedInv
    <2>2. \A i : Items[i].succ = jobs[j].name => Treated(i, j)
      BY <2>1 DEF Treated, Class
    <2> QED BY <2>1, <2>2 DEF VisitedInv
  <1> QED BY ResolutionInvariance, TagsInvariance, EdgesAreMatched, AllAreVisited,
             <1>1, <1>2, <1>3, PTL DEF Spec

\* When the resolution is done, every job has the edges that the documentation of its
\* Depends items names, whatever jobs were visited before it: tags as they are given,
\* the own tags of the job, all jobs of an untagged dependency, and those "that have at
\* least the same tags" of a tagged one, except where the documentation and the code
\* differ (see Agreed).
THEOREM JobsAreDocumented == Spec => []GraphIsDocumented
  <1>1. GraphAsAsked => GraphIsDocumented
    <2> SUFFICES ASSUME GraphAsAsked, phase = "done", NEW j \in DOMAIN jobs, Single(jobs[j].name),
                        NEW n \in Tests, Unequivocal(n, j), NEW p \in Class(n)
                 PROVE  Cardinality(EdgesBetween(JobGraph, p, j)) =
                        Cardinality(UNION {Documented(i, j, p) :
                            i \in EdgesBetween(project.graph, n, jobs[j].name)})
      BY DEF GraphIsDocumented
    <2>1. ASSUME NEW i \in EdgesBetween(project.graph, n, jobs[j].name)
          PROVE  Documented(i, j, p) = Asked(i, j, p)
      <3>1. SpecifiesTags(i) \/ (jobs[p].tags = {} \/ jobs[j].tags \subseteq jobs[p].tags
                                    <=> ~(OneToOne(i, j) /\ jobs[j].tags # jobs[p].tags))
        BY MatchedIsRelated
      <3>2. CASE SpecifiesTags(i)
        BY <3>2 DEF Documented, Asked
      <3>3. CASE ~SpecifiesTags(i)
        BY <3>1, <3>3 DEF Documented, Asked
      <3> QED BY <3>2, <3>3
    <2>2. Cardinality(EdgesBetween(JobGraph, p, j)) =
          Cardinality(UNION {Asked(i, j, p) : i \in EdgesBetween(project.graph, n, jobs[j].name)})
      BY DEF GraphAsAsked, EdgesAsked, Unequivocal
    <2>3. UNION {Asked(i, j, p) : i \in EdgesBetween(project.graph, n, jobs[j].name)} =
          UNION {Documented(i, j, p) : i \in EdgesBetween(project.graph, n, jobs[j].name)}
      BY <2>1
    <2> QED BY <2>2, <2>3
  <1> QED BY JobsAsAsked, <1>1, PTL

----------------------------------------------------------------------------
(* What the program refuses                                                *)

\* A matrix without test cases, one with a label in two dimensions, or one of a test
\* case that has no property for each label.
LabelsOfMatrix(m) == UNION {LabelsOf(m.dims[d][1]) : d \in DOMAIN m.dims}
WellLabelled(m, n) == LabelsOfMatrix(m) \subseteq project.declared[n]
FaultyMatrix(m) ==
    m.names = <<>> \/ Overlapping(m.dims) \/ \E n \in Range(m.names) : ~WellLabelled(m, n)

\* A Depends item with an undefined tag, with arrays of different lengths, or without
\* a partner for a job.  What a partner is, is the rule of completeResolve() here: of
\* several jobs one that has the same tags, where the documentation would also take
\* one that has more (see Agreed in JobResolution).
FaultyItem(i) == IllFormed(i) \/ \E j \in Class(Items[i].succ) : Unmatched(i, j)

Faulty == (\E m \in Range(Mats) : FaultyMatrix(m)) \/ (\E i \in DOMAIN Items : FaultyItem(i))

\* A tag that is neither a boolean, an integer, a string nor an array of values.
HasIllTyped == \E i \in DOMAIN Items : IllTyped(i)

OutcomeIsRight ==
    /\ phase = "exited" => Faulty
    /\ phase = "crashed" => HasIllTyped
    /\ phase = "done" => ~Faulty /\ ~HasIllTyped

\* The matrices started so far are in order, and the labels of the names combined so far.
MatricesInOrder ==
    phase \notin {"exited", "crashed"} =>
        \A k \in 1..Started :
            /\ Mats[k].names # <<>> /\ ~Overlapping(Mats[k].dims)
            /\ \A p \in DOMAIN Mats[k].names :
                  (k < Started \/ p < Place \/ (p = Place /\ column > 1))
                      => WellLabelled(Mats[k], Mats[k].names[p])
FaultInv ==
    /\ MatricesInOrder
    /\ phase = "exited" => Faulty
    /\ phase = "crashed" => HasIllTyped

\* The first combination has the labels of the matrix.
LEMMA LabelsOfCombination ==
    ASSUME project \in Projects, NEW k \in DOMAIN Mats
    PROVE  LabelsOf(Expand(Mats[k].dims)[1]) = LabelsOfMatrix(Mats[k])
  <1> DEFINE dims == Mats[k].dims
             c == [d \in DOMAIN dims |-> 1]
  <1>1. /\ Dimensions(dims)
        /\ \A d \in DOMAIN dims : \A r, s \in DOMAIN dims[d] : LabelsOf(dims[d][r]) = LabelsOf(dims[d][s])
    BY MatrixFacts
  <1>2. \A d \in DOMAIN dims : 1 \in DOMAIN dims[d]
    BY <1>1 DEF Dimensions
  <1> HIDE DEF dims
  <1>3. c \in DigitChoices(dims)
    BY <1>2 DEF DigitChoices
  <1>4. /\ 1 \in 1..Size(dims) /\ Expand(dims)[1] = Chosen(dims, DigitsOf(dims, 1))
        /\ DigitsOf(dims, 1) \in DigitChoices(dims)
    <2>1. Size(dims) \in Nat \ {0}
      BY <1>1, ExpandFacts
    <2>2. 1 \in 1..Size(dims)
      BY <2>1
    <2> QED BY <1>1, <2>2, ExpandFacts
  <1>5. LabelsOf(Chosen(dims, DigitsOf(dims, 1))) = LabelsOf(Chosen(dims, c))
    <2>1. PICK b : b = DigitsOf(dims, 1)
      OBVIOUS
    <2>2. PICK e : e = c
      OBVIOUS
    <2> HIDE DEF c
    <2>3. LabelsOf(Chosen(dims, b)) = LabelsOf(Chosen(dims, e))
      BY <1>1, <1>3, <1>4, <2>1, <2>2, CombinationsShareLabels
    <2> QED BY <2>1, <2>2, <2>3
  <1>6. Chosen(dims, c) = UNION {dims[d][1] : d \in DOMAIN dims}
    <2>1. \A d \in DOMAIN dims : c[d] = 1
      OBVIOUS
    <2> QED BY <2>1 DEF Chosen
  <1>7. LabelsOf(UNION {dims[d][1] : d \in DOMAIN dims}) = UNION {LabelsOf(dims[d][1]) : d \in DOMAIN dims}
    BY DEF LabelsOf
  <1>8. LabelsOfMatrix(Mats[k]) = UNION {LabelsOf(dims[d][1]) : d \in DOMAIN dims}
    BY DEF LabelsOfMatrix, dims
  <1> HIDE DEF c
  <1> QED BY <1>4, <1>5, <1>6, <1>7, <1>8 DEF dims

\* The name that is being combined, and the labels it needs.
LEMMA NameAtHand ==
    ASSUME IInv, MInv, names # <<>>
    PROVE  /\ Started \in DOMAIN Mats /\ Place \in DOMAIN Mats[Started].names
           /\ Head(names) = Mats[Started].names[Place]
           /\ LabelsOf(combos[1]) = LabelsOfMatrix(Mats[Started])
           /\ DOMAIN combos = 1..Size(Mats[Started].dims) /\ Size(Mats[Started].dims) \in Nat \ {0}
  <1> DEFINE m == Mats[Started]
  <1>1. /\ Started \in DOMAIN Mats /\ combos = Expand(m.dims) /\ Len(names) <= Len(m.names)
        /\ \A i \in 1..Len(names) : names[i] = m.names[Place - 1 + i]
    BY DEF MInv, Progress
  <1>2. /\ Len(m.names) \in Nat /\ DOMAIN m.names = 1..Len(m.names) /\ Dimensions(m.dims)
        /\ Len(names) \in Nat /\ names \in Seq(Tests)
    BY <1>1, MatrixFacts, MatsFacts DEF IInv
  <1>3. Len(names) # 0 /\ Head(names) = names[1]
    BY <1>2
  <1>4. Place = Len(m.names) - Len(names) + 1
    BY DEF Place
  <1>5. LabelsOf(combos[1]) = LabelsOfMatrix(m)
    BY <1>1, LabelsOfCombination DEF IInv
  <1>6. DOMAIN combos = 1..Size(m.dims) /\ Size(m.dims) \in Nat \ {0}
    BY <1>1, <1>2, ExpandFacts
  <1> HIDE DEF m
  <1>7. Place \in 1..Len(m.names) /\ Place - 1 + 1 = Place /\ 1 \in 1..Len(names)
    BY <1>1, <1>2, <1>3, <1>4
  <1>8. names[1] = m.names[Place]
    <2>1. names[1] = m.names[Place - 1 + 1]
      BY <1>1, <1>7
    <2> QED BY <1>7, <2>1
  <1> QED BY <1>1, <1>2, <1>3, <1>5, <1>6, <1>7, <1>8 DEF m

\* Nothing is combined, and no matrix is started.
LEMMA FaultInvStays ==
    ASSUME FaultInv, UNCHANGED <<project, matrices, names, column>>, phase \notin {"exited", "crashed"},
           phase' \notin {"exited", "crashed"}
    PROVE  FaultInv'
  <1>1. MatricesInOrder'
    BY DEF FaultInv, MatricesInOrder, Started, Place, Mats, WellLabelled
  <1> QED BY <1>1 DEF FaultInv

\* Whatever is faulty stays so, as jobs and documents stay.
LEMMA FaultyStays ==
    ASSUME UNCHANGED <<project, jobs>>
    PROVE  Faulty' = Faulty /\ HasIllTyped' = HasIllTyped
  <1>1. \A m : FaultyMatrix(m)' = FaultyMatrix(m)
    BY DEF FaultyMatrix, WellLabelled
  <1>2. \A i : FaultyItem(i)' = FaultyItem(i)
    BY AskedStay DEF FaultyItem
  <1> QED BY <1>1, <1>2, AskedStay DEF Faulty, HasIllTyped, Mats

\* A matrix that is started is in order; one that is not has a fault.
LEMMA StartMatrixFaultInv == ASSUME IInv, MInv, FaultInv, StartMatrix PROVE FaultInv'
  <1> DEFINE m == Head(matrices)
             k == Started + 1
  <1>1. /\ phase = "multiply" /\ names = <<>> /\ matrices # <<>> /\ UNCHANGED <<project, jobs, column>>
        /\ \/ /\ ~Overlapping(m.dims) /\ m.names # <<>> /\ names' = m.names
              /\ matrices' = Tail(matrices) /\ phase' = phase
           \/ (Overlapping(m.dims) \/ m.names = <<>>) /\ phase' = "exited"
    BY DEF StartMatrix, Exit
  <1>2. /\ DOMAIN Mats = 1..Len(Mats) /\ Len(Mats) \in Nat
        /\ Len(matrices) \in Nat /\ matrices \in Seq(Range(Mats))
        /\ Len(matrices) <= Len(Mats) /\ column = 1
        /\ \A i \in 1..Len(matrices) : matrices[i] = Mats[Started + i]
    BY <1>1, MatsFacts DEF MInv, Progress
  <1>3. /\ Len(matrices) # 0 /\ Len(Tail(matrices)) = Len(matrices) - 1 /\ m = matrices[1]
    BY <1>1, <1>2
  <1>4. m = Mats[k] /\ k \in DOMAIN Mats /\ Started \in Nat
    BY <1>2, <1>3 DEF Started
  <1> HIDE DEF m, k
  <1>5. CASE (Overlapping(m.dims) \/ m.names = <<>>) /\ phase' = "exited"
    <2>1. m \in Range(Mats)
      BY <1>4 DEF Range
    <2>2. Faulty
      BY <1>5, <2>1 DEF Faulty, FaultyMatrix
    <2>3. Faulty'
      BY <1>1, <2>2, FaultyStays
    <2> QED BY <1>5, <2>3 DEF FaultInv, MatricesInOrder
  <1>6. CASE /\ ~Overlapping(m.dims) /\ m.names # <<>> /\ names' = m.names
             /\ matrices' = Tail(matrices) /\ phase' = phase
    <2>1. Mats' = Mats /\ Started' = k
      BY <1>1, <1>2, <1>3, <1>6 DEF Started, Mats, k
    <2>2. Place' = 1
      <3>1. Len(m.names) \in Nat
        BY <1>4, MatrixFacts DEF IInv
      <3> QED BY <1>4, <1>6, <2>1, <3>1 DEF Place
    <2>3. ASSUME NEW i \in 1..k
          PROVE  /\ Mats[i].names # <<>> /\ ~Overlapping(Mats[i].dims)
                 /\ \A p \in DOMAIN Mats[i].names :
                        (i < k \/ p < 1 \/ (p = 1 /\ column > 1))
                            => WellLabelled(Mats[i], Mats[i].names[p])
      <3>1. CASE i = k
        <4>1. DOMAIN Mats[k].names = 1..Len(Mats[k].names)
          BY <1>4, MatrixFacts DEF IInv
        <4>2. \A p \in DOMAIN Mats[i].names : ~(i < k \/ p < 1 \/ (p = 1 /\ column > 1))
          BY <1>2, <1>4, <3>1, <4>1
        <4> QED BY <1>4, <1>6, <3>1, <4>2
      <3>2. CASE i # k
        <4>1. i \in 1..Started
          BY <1>4, <3>2 DEF k
        <4>2. \A p \in DOMAIN Mats[i].names : i < Started \/ p < Place
          <5>1. DOMAIN Mats[i].names = 1..Len(Mats[i].names) /\ Len(Mats[i].names) \in Nat
            <6>1. i \in DOMAIN Mats
              BY <1>2, <1>4, <4>1
            <6> QED BY <6>1, MatrixFacts DEF IInv
          <5>2. i = Started => Place = Len(Mats[i].names) + 1
            BY <1>1, <5>1 DEF Place
          <5> QED BY <1>4, <4>1, <5>1, <5>2
        <4> QED BY <1>1, <4>1, <4>2 DEF FaultInv, MatricesInOrder
      <3> QED BY <3>1, <3>2
    <2>4. \A n, x : WellLabelled(x, n)' = WellLabelled(x, n)
      BY <1>1 DEF WellLabelled
    <2>5. MatricesInOrder'
      BY <1>1, <2>1, <2>2, <2>3, <2>4 DEF MatricesInOrder
    <2> QED BY <1>1, <1>6, <2>5 DEF FaultInv
  <1> QED BY <1>1, <1>5, <1>6

\* A name is combined only if it has the labels.
LEMMA CombineNameFaultInv == ASSUME IInv, MInv, FaultInv, CombineName PROVE FaultInv'
  <1>1. /\ phase = "multiply" /\ names # <<>> /\ column' = column + 1
        /\ UNCHANGED <<project, matrices, combos, names, phase>>
        /\ LabelsOf(combos[1]) \subseteq project.declared[Head(names)]
    BY DEF CombineName
  <1>2. Mats' = Mats /\ Started' = Started /\ Place' = Place
    BY <1>1 DEF Mats, Started, Place
  <1>3. WellLabelled(Mats[Started], Mats[Started].names[Place])
    BY <1>1, NameAtHand DEF WellLabelled
  <1>4. \A n, x : WellLabelled(x, n)' = WellLabelled(x, n)
    BY <1>1 DEF WellLabelled
  <1>5. ASSUME NEW k \in 1..Started
        PROVE  /\ Mats[k].names # <<>> /\ ~Overlapping(Mats[k].dims)
               /\ \A p \in DOMAIN Mats[k].names :
                      (k < Started \/ p < Place \/ (p = Place /\ column' > 1))
                          => WellLabelled(Mats[k], Mats[k].names[p])
    <2>1. /\ Mats[k].names # <<>> /\ ~Overlapping(Mats[k].dims)
          /\ \A p \in DOMAIN Mats[k].names :
                (k < Started \/ p < Place) => WellLabelled(Mats[k], Mats[k].names[p])
      BY <1>1 DEF FaultInv, MatricesInOrder
    <2>2. Started \in Int
      BY MatsFacts DEF Started
    <2>3. k < Started \/ k = Started
      BY <2>2
    <2> QED BY <1>3, <2>1, <2>3
  <1>6. MatricesInOrder'
    BY <1>1, <1>2, <1>4, <1>5 DEF MatricesInOrder
  <1> QED BY <1>1, <1>6 DEF FaultInv

\* The name that is left has been combined at least once.
LEMMA NextNameFaultInv == ASSUME IInv, MInv, FaultInv, NextName PROVE FaultInv'
  <1>1. /\ phase = "multiply" /\ names # <<>> /\ column \notin DOMAIN combos
        /\ names' = Tail(names) /\ column' = 1
        /\ UNCHANGED <<project, matrices, combos, phase>>
    BY DEF NextName
  <1>2. /\ Started \in DOMAIN Mats /\ Place \in DOMAIN Mats[Started].names
        /\ DOMAIN combos = 1..Size(Mats[Started].dims) /\ Size(Mats[Started].dims) \in Nat \ {0}
    BY <1>1, NameAtHand
  <1>3. column > 1
    <2>1. column \in 1..Size(Mats[Started].dims) + 1
      BY <1>1 DEF MInv, Progress
    <2> QED BY <1>1, <1>2, <2>1
  <1>4. Mats' = Mats /\ Started' = Started
    BY <1>1 DEF Mats, Started
  <1>5. Len(names) \in Nat /\ Len(names') = Len(names) - 1 /\ Len(Mats[Started].names) \in Nat
    <2>1. names \in Seq(Tests)
      BY MatsFacts
    <2>2. Len(names) \in Nat /\ Len(Tail(names)) = Len(names) - 1
      BY <1>1, <2>1
    <2> QED BY <1>1, <1>2, <2>2, MatrixFacts DEF IInv
  <1>6. Place' = Place + 1 /\ Place \in Int
    <2>1. Place = Len(Mats[Started].names) - Len(names) + 1
          /\ Place' = Len(Mats[Started].names) - (Len(names) - 1) + 1
      BY <1>4, <1>5 DEF Place
    <2> QED BY <1>5, <2>1
  <1>7. \A n, x : WellLabelled(x, n)' = WellLabelled(x, n)
    BY <1>1 DEF WellLabelled
  <1>8. ASSUME NEW k \in 1..Started
        PROVE  /\ Mats[k].names # <<>> /\ ~Overlapping(Mats[k].dims)
               /\ \A p \in DOMAIN Mats[k].names :
                      (k < Started \/ p < Place + 1 \/ (p = Place + 1 /\ 1 > 1))
                          => WellLabelled(Mats[k], Mats[k].names[p])
    <2>1. /\ Mats[k].names # <<>> /\ ~Overlapping(Mats[k].dims)
          /\ \A p \in DOMAIN Mats[k].names :
                (k < Started \/ p < Place \/ p = Place) => WellLabelled(Mats[k], Mats[k].names[p])
      BY <1>1, <1>3 DEF FaultInv, MatricesInOrder
    <2>2. \A p \in DOMAIN Mats[k].names : p \in Int
      <3>1. k \in DOMAIN Mats
        <4>1. DOMAIN Mats = 1..Len(Mats) /\ Len(Mats) \in Nat
          BY MatsFacts
        <4> QED BY <1>2, <4>1
      <3> QED BY <3>1, MatrixFacts DEF IInv
    <2>3. \A p \in Int : p < Place + 1 => p < Place \/ p = Place
      BY <1>6
    <2> QED BY <2>1, <2>2, <2>3
  <1>9. MatricesInOrder'
    BY <1>1, <1>4, <1>6, <1>7, <1>8 DEF MatricesInOrder
  <1> QED BY <1>1, <1>9 DEF FaultInv


\* The program exits for a fault of the documents, an assertion fails for a tag of
\* another type, and neither happens for another reason; and the jobs of such documents
\* are never handed over: overlapping dimensions, matrices without test cases, labels
\* without a property, undefined tags, arrays of different lengths, and one-to-one
\* relations without a partner are found whatever the order of matrices and jobs is.
THEOREM FaultsAreRefused == Spec => []OutcomeIsRight
  <1>1. Init => FaultInv
    <2> SUFFICES ASSUME Init PROVE FaultInv
      OBVIOUS
    <2>1. matrices = Mats /\ phase = "multiply"
      BY DEF Init, Mats
    <2>2. Mats \in Seq(Range(Mats))
      BY ProjectFacts DEF Init, Mats
    <2>3. Started = 0
      BY <2>1, <2>2 DEF Started
    <2>4. 1..Started = {}
      BY <2>3
    <2>5. MatricesInOrder
      BY <2>4 DEF MatricesInOrder
    <2> QED BY <2>1, <2>5 DEF FaultInv
  <1>2. IInv /\ MInv /\ FaultInv /\ [Next]_vars => FaultInv'
    <2> SUFFICES ASSUME IInv, MInv, FaultInv, [Next]_vars PROVE FaultInv'
      OBVIOUS
    <2>0. ASSUME Faulty, UNCHANGED <<project, jobs>>, phase' = "exited" PROVE FaultInv'
      <3>1. Faulty'
        BY <2>0, FaultyStays
      <3> QED BY <2>0, <3>1 DEF FaultInv, MatricesInOrder
    <2>0a. ASSUME HasIllTyped, UNCHANGED <<project, jobs>>, phase' = "crashed" PROVE FaultInv'
      <3>1. HasIllTyped'
        BY <2>0a, FaultyStays
      <3> QED BY <2>0a, <3>1 DEF FaultInv, MatricesInOrder
    <2>1. CASE StartMatrix
      BY <2>1, StartMatrixFaultInv
    <2>2. CASE RefuseName
      <3>1. /\ names # <<>> /\ ~(LabelsOf(combos[1]) \subseteq project.declared[Head(names)])
            /\ phase' = "exited" /\ UNCHANGED <<project, jobs>>
        BY <2>2 DEF RefuseName, Exit, multiplierVars
      <3>2. /\ Started \in DOMAIN Mats /\ Place \in DOMAIN Mats[Started].names
            /\ ~WellLabelled(Mats[Started], Mats[Started].names[Place])
        BY <3>1, NameAtHand DEF WellLabelled
      <3>3. Faulty
        BY <3>2 DEF Faulty, FaultyMatrix, Range
      <3> QED BY <2>0, <3>1, <3>3
    <2>3. CASE CombineName
      BY <2>3, CombineNameFaultInv
    <2>4. CASE NextName
      BY <2>4, NextNameFaultInv
    <2>5. CASE AddUntagged
      BY <2>5, FaultInvStays DEF AddUntagged
    <2>6. ASSUME NEW j \in DOMAIN jobs, VisitJob(j) PROVE FaultInv'
      BY <2>6, FaultInvStays DEF VisitJob, multiplierVars
    <2>7. ASSUME NEW n \in Names, VisitClass(n) PROVE FaultInv'
      BY <2>7, FaultInvStays DEF VisitClass, multiplierVars
    <2>8. ASSUME NEW i \in DOMAIN Items, ResolveItem(i) PROVE FaultInv'
      <3>1. UNCHANGED <<project, multiplierVars>> /\ phase = "resolve" /\ i \in agenda
        BY <2>8 DEF ResolveItem, Newest
      <3>2. PICK j \in current :
              \/ UNCHANGED phase
              \/ (IllFormed(i) \/ Unmatched(i, j)) /\ phase' = "exited"
              \/ IllTyped(i) /\ phase' = "crashed"
        BY <2>8 DEF ResolveItem, Exit, InOrder, IllFormed
      <3>3. CASE UNCHANGED phase
        BY <3>1, <3>3, FaultInvStays DEF multiplierVars
      <3>4. CASE (IllFormed(i) \/ Unmatched(i, j)) /\ phase' = "exited"
        <4>1. j \in Class(Items[i].succ)
          BY <3>1 DEF IInv, AgendaInv, Class
        <4>2. Faulty
          BY <3>4, <4>1 DEF Faulty, FaultyItem
        <4> QED BY <2>0, <3>1, <3>4, <4>2 DEF multiplierVars
      <3>5. CASE IllTyped(i) /\ phase' = "crashed"
        <4>1. HasIllTyped
          BY <3>5 DEF HasIllTyped
        <4> QED BY <2>0a, <3>1, <3>5, <4>1 DEF multiplierVars
      <3> QED BY <3>2, <3>3, <3>4, <3>5
    <2>9. CASE LeaveJob
      BY <2>9, FaultInvStays DEF LeaveJob, multiplierVars
    <2>10. CASE FinishResolve
      BY <2>10, FaultInvStays DEF FinishResolve, multiplierVars
    <2>11. CASE UNCHANGED vars
      <3>1. UNCHANGED <<project, jobs, matrices, names, column, phase>>
        BY <2>11 DEF vars, multiplierVars
      <3>2. CASE phase = "exited"
        BY <2>0, <3>1, <3>2 DEF FaultInv
      <3>3. CASE phase = "crashed"
        BY <2>0a, <3>1, <3>3 DEF FaultInv
      <3>4. CASE phase \notin {"exited", "crashed"}
        BY <3>1, <3>4, FaultInvStays
      <3> QED BY <3>2, <3>3, <3>4
    <2> QED BY <2>1, <2>2, <2>3, <2>4, <2>5, <2>6, <2>7, <2>8, <2>9, <2>10, <2>11 DEF Next
  <1>3. IInv /\ MInv /\ FaultInv /\ GraphAsAsked => OutcomeIsRight
    <2> SUFFICES ASSUME IInv, MInv, FaultInv, GraphAsAsked, phase = "done"
                 PROVE  ~Faulty /\ ~HasIllTyped
      BY DEF OutcomeIsRight, FaultInv
    <2>1. ASSUME NEW m \in Range(Mats) PROVE ~FaultyMatrix(m)
      <3>1. PICK k \in DOMAIN Mats : m = Mats[k]
        BY DEF Range
      <3>2. names = <<>> /\ matrices = <<>>
        BY DEF MInv, Progress
      <3>3. DOMAIN Mats = 1..Len(Mats) /\ Len(Mats) \in Nat
        BY MatsFacts
      <3>4. Started = Len(Mats)
        BY <3>2, <3>3 DEF Started
      <3>5. k \in 1..Started
        BY <3>1, <3>3, <3>4
      <3>6. DOMAIN Mats[k].names = 1..Len(Mats[k].names) /\ Len(Mats[k].names) \in Nat
        BY <3>1, MatrixFacts DEF IInv
      <3>7. k = Started => Place = Len(Mats[k].names) + 1
        BY <3>2, <3>6 DEF Place
      <3>8. \A p \in DOMAIN Mats[k].names : k < Started \/ p < Place
        BY <3>4, <3>5, <3>3, <3>6, <3>7
      <3>9. /\ Mats[k].names # <<>> /\ ~Overlapping(Mats[k].dims)
            /\ \A p \in DOMAIN Mats[k].names : WellLabelled(Mats[k], Mats[k].names[p])
        BY <3>5, <3>8 DEF FaultInv, MatricesInOrder
      <3> QED BY <3>1, <3>9 DEF FaultyMatrix, Range
    <2>2. ASSUME NEW i \in DOMAIN Items PROVE ~FaultyItem(i) /\ ~IllTyped(i)
      <3>1. \A j \in DOMAIN jobs : Items[i].succ = jobs[j].name => InOrder(i, j)
        BY DEF GraphAsAsked
      <3>2. Items[i].succ \in Tests
        <4>1. Items[i] \in Range(Items)
          BY DEF Range
        <4>2. \A e \in Range(project.graph.edges) : e.succ \in project.graph.nodes
          BY ProjectsAssumption DEF IInv
        <4> QED BY <4>1, <4>2 DEF Items, Tests
      <3>3. \E j \in DOMAIN jobs : jobs[j].name = Items[i].succ
        BY <3>2 DEF IInv, CoverInv
      <3> QED BY <3>1, <3>3 DEF FaultyItem, Class, InOrder
    <2> QED BY <2>1, <2>2 DEF Faulty, HasIllTyped
  <1> QED BY MultiplierInvariance, JobsAsAsked, <1>1, <1>2, <1>3, PTL DEF Spec
=============================================================================
