-------------------------- MODULE JobScheduler_proof --------------------------
(***************************************************************************)
(* Proofs about JobScheduler: whatever the jobs, their results and the     *)
(* dependency graph, cyclic or not, the invariants of the module hold and  *)
(* the module implements TopologicalRun.                                   *)
(***************************************************************************)
EXTENDS JobScheduler, FiniteSetTheorems, SequenceTheorems, WellFoundedInduction, TLAPS

----------------------------------------------------------------------------
(* Facts about sequences and their ranges.                                 *)

IsInjectiveSeq(s) == \A i, k \in DOMAIN s : s[i] = s[k] => i = k

\* The sequences of length zero and one.
LEMMA ShortSeqs ==
    ASSUME NEW S
    PROVE  <<>> \in Seq(S) /\ \A e \in S : <<e>> \in Seq(S)
  OBVIOUS

\* Appending adds one element to the range.
LEMMA RangeAppend ==
    ASSUME NEW S, NEW s \in Seq(S), NEW e \in S
    PROVE  /\ Append(s, e) \in Seq(S)
           /\ Range(Append(s, e)) = Range(s) \cup {e}
           /\ IsInjectiveSeq(s) /\ e \notin Range(s) => IsInjectiveSeq(Append(s, e))
  BY DEF Range, IsInjectiveSeq

\* Taking the head of a sequence without repetitions removes it from the range.
LEMMA RangeTail ==
    ASSUME NEW S, NEW s \in Seq(S), s # <<>>
    PROVE  /\ Head(s) \in S /\ Tail(s) \in Seq(S)
           /\ Range(s) = Range(Tail(s)) \cup {Head(s)}
           /\ IsInjectiveSeq(s) => /\ Head(s) \notin Range(Tail(s))
                                   /\ IsInjectiveSeq(Tail(s))
  <1>1. /\ Head(s) \in S /\ Tail(s) \in Seq(S) /\ Len(s) \in Nat \ {0}
        /\ Len(Tail(s)) = Len(s) - 1
        /\ \A i \in 1..Len(Tail(s)) : Tail(s)[i] = s[i + 1]
        /\ DOMAIN s = 1..Len(s) /\ DOMAIN Tail(s) = 1..Len(Tail(s))
        /\ Head(s) = s[1]
    BY HeadTailProperties, EmptySeq, LenProperties
  <1>2. Range(s) \subseteq Range(Tail(s)) \cup {Head(s)}
    <2> SUFFICES ASSUME NEW i \in 1..Len(s), i # 1
                 PROVE  s[i] \in Range(Tail(s))
      BY <1>1 DEF Range
    <2>1. i - 1 \in 1..Len(Tail(s)) /\ Tail(s)[i - 1] = s[i]
      BY <1>1
    <2> QED BY <2>1, <1>1 DEF Range
  <1>3. Range(Tail(s)) \cup {Head(s)} \subseteq Range(s)
    BY <1>1 DEF Range
  <1>4. ASSUME IsInjectiveSeq(s)
        PROVE  Head(s) \notin Range(Tail(s)) /\ IsInjectiveSeq(Tail(s))
    <2>1. \A i \in 1..Len(Tail(s)) : i + 1 \in 1..Len(s) /\ i + 1 # 1
      BY <1>1
    <2>2. Head(s) \notin Range(Tail(s))
      BY <1>1, <1>4, <2>1 DEF Range, IsInjectiveSeq
    <2>3. IsInjectiveSeq(Tail(s))
      <3> SUFFICES ASSUME NEW i \in 1..Len(Tail(s)), NEW k \in 1..Len(Tail(s)),
                          Tail(s)[i] = Tail(s)[k]
                   PROVE  i = k
        BY <1>1 DEF IsInjectiveSeq
      <3>1. s[i + 1] = s[k + 1] BY <1>1
      <3>2. i + 1 = k + 1 BY <3>1, <2>1, <1>1, <1>4 DEF IsInjectiveSeq
      <3> QED BY <3>2
    <2> QED BY <2>2, <2>3
  <1> QED BY <1>1, <1>2, <1>3, <1>4

\* Concatenation unites the ranges and keeps disjoint sequences injective.
LEMMA RangeConcat ==
    ASSUME NEW S, NEW s \in Seq(S), NEW t \in Seq(S)
    PROVE  /\ s \o t \in Seq(S)
           /\ Range(s \o t) = Range(s) \cup Range(t)
           /\ IsInjectiveSeq(s) /\ IsInjectiveSeq(t) /\ Range(s) \cap Range(t) = {}
                 => IsInjectiveSeq(s \o t)
  <1>1. /\ s \o t \in Seq(S)
        /\ Range(s \o t) = Range(s) \cup Range(t)
    BY ConcatProperties, RangeConcatenation
  <1>2. ASSUME IsInjectiveSeq(s), IsInjectiveSeq(t), Range(s) \cap Range(t) = {}
        PROVE  IsInjectiveSeq(s \o t)
    <2> SUFFICES ASSUME NEW i \in 1..(Len(s) + Len(t)), NEW k \in 1..(Len(s) + Len(t)),
                        (s \o t)[i] = (s \o t)[k]
                 PROVE  i = k
      BY ConcatProperties, LenProperties DEF IsInjectiveSeq
    <2>1. /\ Len(s) \in Nat /\ Len(t) \in Nat
          /\ DOMAIN s = 1..Len(s) /\ DOMAIN t = 1..Len(t)
      BY LenProperties
    <2>2. \A n \in 1..(Len(s) + Len(t)) :
             (s \o t)[n] = IF n <= Len(s) THEN s[n] ELSE t[n - Len(s)]
      BY ConcatProperties
    <2>3. CASE i <= Len(s) /\ k <= Len(s)
      BY <2>1, <2>2, <2>3, <1>2 DEF IsInjectiveSeq
    <2>4. CASE i > Len(s) /\ k > Len(s)
      <3>1. /\ i - Len(s) \in 1..Len(t) /\ k - Len(s) \in 1..Len(t)
            /\ t[i - Len(s)] = t[k - Len(s)]
        BY <2>1, <2>2, <2>4
      <3>2. i - Len(s) = k - Len(s)
        BY <3>1, <2>1, <1>2 DEF IsInjectiveSeq
      <3> QED BY <3>2, <2>1
    <2>5. CASE i <= Len(s) /\ k > Len(s)
      <3>1. (s \o t)[i] \in Range(s) BY <2>1, <2>2, <2>5 DEF Range
      <3>2. k - Len(s) \in 1..Len(t) /\ (s \o t)[k] = t[k - Len(s)]
        BY <2>1, <2>2, <2>5
      <3>3. (s \o t)[k] \in Range(t) BY <2>1, <3>2 DEF Range
      <3> QED BY <3>1, <3>3, <1>2
    <2>6. CASE k <= Len(s) /\ i > Len(s)
      <3>1. (s \o t)[k] \in Range(s) BY <2>1, <2>2, <2>6 DEF Range
      <3>2. i - Len(s) \in 1..Len(t) /\ (s \o t)[i] = t[i - Len(s)]
        BY <2>1, <2>2, <2>6
      <3>3. (s \o t)[i] \in Range(t) BY <2>1, <3>2 DEF Range
      <3> QED BY <3>1, <3>3, <1>2
    <2> QED BY <2>1, <2>3, <2>4, <2>5, <2>6
  <1> QED BY <1>1, <1>2

\* A listing of a finite set is a sequence without repetitions over the set.
LEMMA ListingIsSequence ==
    ASSUME NEW S, IsFiniteSet(S), NEW key, NEW q \in Listings(S, key)
    PROVE  q \in Seq(S) /\ Range(q) = S /\ IsInjectiveSeq(q)
  <1>1. Cardinality(S) \in Nat
    BY FS_CardinalityType
  <1>2. q \in Bijection(1..Cardinality(S), S)
    BY DEF Listings
  <1>3. /\ q \in [1..Cardinality(S) -> S]
        /\ \A t \in S : \E n \in 1..Cardinality(S) : q[n] = t
        /\ \A i, k \in 1..Cardinality(S) : q[i] = q[k] => i = k
    BY <1>2 DEF Bijection, Injection, Surjection, IsInjective
  <1>4. q \in Seq(S)
    BY <1>1, <1>3, SeqDef
  <1> QED BY <1>3, <1>4 DEF Range, IsInjectiveSeq

\* A set of natural numbers has a least element.
LEMMA LeastOfNumbers ==
    ASSUME NEW T \in SUBSET Nat, T # {}
    PROVE  \E i \in T : \A j \in T : i <= j
  <1>1. IsWellFoundedOn(OpToRel(<, Nat), Nat)
    BY NatLessThanWellFounded
  <1>2. PICK i \in T : \A j \in T : ~(<<j, i>> \in OpToRel(<, Nat))
    BY <1>1, WFMin
  <1>3. \A j \in T : ~(j < i)
    BY <1>2 DEF OpToRel
  <1> QED BY <1>3

----------------------------------------------------------------------------
(* Facts about the dependency graph and the counters.                      *)

\* What GraphsAssumption says about one graph.
LEMMA GraphFacts ==
    ASSUME NEW g \in JobGraphs
    PROVE  /\ g.nodes \subseteq Jobs /\ IsFiniteSet(g.nodes)
           /\ g.edges \in Seq([pred : Jobs, succ : Jobs, alias : Aliases])
           /\ Len(g.edges) \in Nat /\ DOMAIN g.edges = 1..Len(g.edges)
           /\ IsFiniteSet(DOMAIN g.edges)
           /\ \A i \in DOMAIN g.edges :
                 g.edges[i].pred \in g.nodes /\ g.edges[i].succ \in g.nodes
           /\ \A v : PredecessorSet(g, v) \subseteq g.nodes
  <1>1. g \in [nodes : SUBSET Jobs,
               edges : Seq([pred : Jobs, succ : Jobs, alias : Aliases])]
    BY GraphsAssumption
  <1>2. /\ g.nodes \subseteq Jobs
        /\ g.edges \in Seq([pred : Jobs, succ : Jobs, alias : Aliases])
    BY <1>1
  <1>3. Len(g.edges) \in Nat /\ DOMAIN g.edges = 1..Len(g.edges)
    BY <1>2, LenProperties
  <1>4. IsFiniteSet(DOMAIN g.edges)
    BY <1>3, FS_Interval
  <1>5. IsFiniteSet(g.nodes)
    BY <1>2, JobsAssumption, FS_Subset
  <1>6. \A i \in DOMAIN g.edges :
            g.edges[i].pred \in g.nodes /\ g.edges[i].succ \in g.nodes
    BY GraphsAssumption
  <1>7. \A v : PredecessorSet(g, v) \subseteq g.nodes
    BY <1>6 DEF PredecessorSet, EdgesInto
  <1> QED BY <1>2, <1>3, <1>4, <1>5, <1>6, <1>7

\* The edges into j from jobs outside D: what the count of j stands for.
OpenEdges(g, j, D) == {i \in EdgesInto(g, j) : g.edges[i].pred \notin D}

\* The count of open edges is a number, and it is zero exactly if every
\* predecessor is in D.
LEMMA OpenEdgesZero ==
    ASSUME NEW g \in JobGraphs, NEW j, NEW D
    PROVE  /\ IsFiniteSet(OpenEdges(g, j, D))
           /\ Cardinality(OpenEdges(g, j, D)) \in Nat
           /\ Cardinality(OpenEdges(g, j, D)) = 0 <=> PredecessorSet(g, j) \subseteq D
  <1>1. OpenEdges(g, j, D) \in SUBSET DOMAIN g.edges
    BY DEF OpenEdges, EdgesInto
  <1>2. IsFiniteSet(OpenEdges(g, j, D))
    BY <1>1, GraphFacts, FS_Subset
  <1>3. Cardinality(OpenEdges(g, j, D)) = 0 <=> OpenEdges(g, j, D) = {}
    BY <1>2, FS_EmptySet
  <1>4. OpenEdges(g, j, D) = {} <=> PredecessorSet(g, j) \subseteq D
    BY DEF OpenEdges, PredecessorSet
  <1> QED BY <1>2, <1>3, <1>4, FS_CardinalityType

\* When f joins D, the count of j drops by the number of edges from f to j.
LEMMA OpenEdgesDrop ==
    ASSUME NEW g \in JobGraphs, NEW j, NEW D, NEW f, f \notin D
    PROVE  Cardinality(OpenEdges(g, j, D \cup {f})) =
           Cardinality(OpenEdges(g, j, D)) - Cardinality(EdgesBetween(g, f, j))
  <1>1. OpenEdges(g, j, D \cup {f}) = OpenEdges(g, j, D) \ EdgesBetween(g, f, j)
    BY DEF OpenEdges, EdgesBetween, EdgesInto, EdgesFrom
  <1>2. OpenEdges(g, j, D) \cap EdgesBetween(g, f, j) = EdgesBetween(g, f, j)
    BY DEF OpenEdges, EdgesBetween, EdgesInto, EdgesFrom
  <1>3. IsFiniteSet(OpenEdges(g, j, D))
    BY OpenEdgesZero
  <1> QED BY <1>1, <1>2, <1>3, FS_Difference

\* The number of edges from f to j.
LEMMA MultiplicityFacts ==
    ASSUME NEW g \in JobGraphs, NEW f, NEW j
    PROVE  /\ Cardinality(EdgesBetween(g, f, j)) \in Nat
           /\ Cardinality(EdgesBetween(g, f, j)) > 0 <=> f \in PredecessorSet(g, j)
  <1>1. EdgesBetween(g, f, j) \in SUBSET DOMAIN g.edges
    BY DEF EdgesBetween, EdgesInto
  <1>2. IsFiniteSet(EdgesBetween(g, f, j))
    BY <1>1, GraphFacts, FS_Subset
  <1>3. EdgesBetween(g, f, j) # {} <=> f \in PredecessorSet(g, j)
    BY DEF EdgesBetween, EdgesFrom, PredecessorSet, EdgesInto
  <1> QED BY <1>2, <1>3, FS_EmptySet, FS_CardinalityType

\* A node is a root exactly if it has no predecessor.
LEMMA RootsFacts ==
    ASSUME NEW g \in JobGraphs
    PROVE  /\ Roots(g) \subseteq g.nodes /\ IsFiniteSet(Roots(g))
           /\ \A j \in g.nodes : j \in Roots(g) <=> PredecessorSet(g, j) = {}
  <1>1. Roots(g) \in SUBSET g.nodes
    BY DEF Roots
  <1>2. IsFiniteSet(Roots(g))
    BY <1>1, GraphFacts, FS_Subset
  <1> QED BY <1>1, <1>2 DEF Roots, PredecessorSet

----------------------------------------------------------------------------
(* The inductive invariant.                                                *)

\* The call or test case in flight, if there is one.
FlightShape ==
    \/ posted = <<>> /\ running = <<>>
    \/ \E j \in graph.nodes : posted = <<Dispatch(j)>> /\ running = <<>>
    \/ \E j \in graph.nodes : posted = <<>> /\ running = <<j>>
    \/ \E j \in graph.nodes : posted = <<Finished(j)>> /\ running = <<>>

\* What holds in each phase of execRunCommand().
Phases ==
    /\ main # "exited" <=> exitCode = NoExit
    /\ main \in {"start", "exec"} =>
          done = <<>> /\ running = <<>> /\ Ended = {} /\ DOMAIN outcome = {}
    /\ main = "start" => posted = <<>> /\ ready = <<>> /\ todo = {} /\ ~quitting
    /\ main = "loop" /\ quitting => ready = <<>> /\ posted = <<>> /\ running = <<>>

\* The counters cover the waiting jobs and the roots, whose count stays zero.
CounterDomain ==
    main \in {"exec", "loop"} =>
        /\ DOMAIN counts = todo \cup Roots(graph)
        /\ \A r \in Roots(graph) : counts[r] = 0 /\ r \notin todo

\* m_results runs parallel to m_done, and a job has an outcome from the end of
\* its test case on.
Bookkeeping ==
    /\ Len(results) = Len(done)
    /\ \A i \in 1..Len(done) : done[i] \in DOMAIN outcome /\ results[i] = outcome[done[i]]
    /\ main # "exited" => DOMAIN outcome = Range(done) \cup Ended

IInv ==
    /\ TypeOK /\ OneByOne /\ TopologicalOrder /\ CountsExact
    /\ OnlyCyclesStarve /\ VerdictIsTrue
    /\ \A j \in Range(ready) : PredecessorSet(graph, j) \subseteq Range(done)
    /\ FlightShape /\ Phases /\ CounterDomain /\ Bookkeeping

\* The sets of jobs in flight, for each shape of the event queue.
LEMMA FlightSets ==
    /\ posted = <<>> => Dispatched = {} /\ Ended = {}
    /\ \A j : posted = <<Dispatch(j)>> => Dispatched = {j} /\ Ended = {}
    /\ \A j : posted = <<Finished(j)>> => Dispatched = {} /\ Ended = {j}
    /\ running = <<>> => Range(running) = {}
    /\ \A j : running = <<j>> => Range(running) = {j}
  <1>1. posted = <<>> => Dispatched = {} /\ Ended = {}
    BY DEF Dispatched, Ended
  <1>2. \A j : posted = <<Dispatch(j)>> => Dispatched = {j} /\ Ended = {}
    BY DEF Dispatched, Ended, Dispatch
  <1>3. \A j : posted = <<Finished(j)>> => Dispatched = {} /\ Ended = {j}
    BY DEF Dispatched, Ended, Finished
  <1>4. running = <<>> => Range(running) = {}
    BY DEF Range
  <1>5. \A j : running = <<j>> => Range(running) = {j}
    BY DEF Range
  <1> QED BY <1>1, <1>2, <1>3, <1>4, <1>5

\* The same for the next state.
LEMMA FlightSetsNext ==
    /\ posted' = <<>> => Dispatched' = {} /\ Ended' = {}
    /\ \A j : posted' = <<Dispatch(j)>> => Dispatched' = {j} /\ Ended' = {}
    /\ \A j : posted' = <<Finished(j)>> => Dispatched' = {} /\ Ended' = {j}
    /\ running' = <<>> => Range(running)' = {}
    /\ \A j : running' = <<j>> => Range(running)' = {j}
  <1>1. posted' = <<>> => Dispatched' = {} /\ Ended' = {}
    BY DEF Dispatched, Ended
  <1>2. \A j : posted' = <<Dispatch(j)>> => Dispatched' = {j} /\ Ended' = {}
    BY DEF Dispatched, Ended, Dispatch
  <1>3. \A j : posted' = <<Finished(j)>> => Dispatched' = {} /\ Ended' = {j}
    BY DEF Dispatched, Ended, Finished
  <1>4. running' = <<>> => Range(running)' = {}
    BY DEF Range
  <1>5. \A j : running' = <<j>> => Range(running)' = {j}
    BY DEF Range
  <1> QED BY <1>1, <1>2, <1>3, <1>4, <1>5

LEMMA InitIInv == Init => IInv
  <1> SUFFICES ASSUME Init PROVE IInv
    OBVIOUS
  <1> USE DEF Init
  <1>1. TypeOK
    BY EmptySeq DEF TypeOK, NoExit
  <1>2. Dispatched = {} /\ Ended = {} /\ Range(running) = {}
    BY FlightSets
  <1>3. Range(done) = {} /\ Range(ready) = {}
    BY DEF Range
  <1>4. OneByOne /\ TopologicalOrder /\ CountsExact
    BY <1>2, <1>3 DEF OneByOne, TopologicalOrder, CountsExact, InFlight
  <1>5. OnlyCyclesStarve /\ VerdictIsTrue
    BY DEF OnlyCyclesStarve, VerdictIsTrue, NoExit
  <1>6. FlightShape /\ Phases /\ CounterDomain /\ Bookkeeping
    BY <1>2, <1>3 DEF FlightShape, Phases, CounterDomain, Bookkeeping, NoExit
  <1> QED BY <1>1, <1>3, <1>4, <1>5, <1>6 DEF IInv

LEMMA StartEmptyIInv == IInv /\ StartEmpty => IInv'
  <1> SUFFICES ASSUME IInv, StartEmpty PROVE IInv'
    OBVIOUS
  <1> USE DEF IInv, StartEmpty, EmitFinished, schedulerVars, jobVars
  <1>1. TypeOK'
    BY DEF TypeOK
  <1>2. posted = <<>> /\ running = <<>> /\ done = <<>> /\ ready = <<>> /\ todo = {}
    BY DEF Phases
  <1>3. /\ Dispatched' = {} /\ Ended' = {} /\ Range(running)' = {}
        /\ Range(done)' = {} /\ Range(ready)' = {}
    BY <1>2, FlightSetsNext DEF Range
  <1>4. OneByOne' /\ TopologicalOrder' /\ CountsExact'
    BY <1>2, <1>3 DEF OneByOne, TopologicalOrder, CountsExact, InFlight
  <1>5. OnlyCyclesStarve' /\ VerdictIsTrue'
    BY DEF OnlyCyclesStarve, VerdictIsTrue, NoExit, Phases
  <1>6. FlightShape' /\ Phases' /\ Bookkeeping'
    BY <1>2, <1>3 DEF FlightShape, Phases, Bookkeeping, Ended
  <1>7. CounterDomain'
    BY <1>2 DEF CounterDomain, TypeOK, Roots
  <1> QED BY <1>1, <1>3, <1>4, <1>5, <1>6, <1>7

LEMMA StartIInv == IInv /\ Start => IInv'
  <1> SUFFICES ASSUME IInv, Start PROVE IInv'
    OBVIOUS
  <1> USE DEF IInv, Start, jobVars
  <1>1. graph \in JobGraphs /\ TypeOK
    BY DEF TypeOK
  <1>2. posted = <<>> /\ running = <<>> /\ done = <<>> /\ ready = <<>> /\ todo = {}
        /\ Ended = {} /\ DOMAIN outcome = {} /\ ~quitting
    BY DEF Phases
  <1>3. PICK q \in Listings(Roots(graph), [j \in Jobs |-> j]) :
            EmitJobReady(posted, q)
    OBVIOUS
  <1>4. q \in Seq(Roots(graph)) /\ Range(q) = Roots(graph) /\ IsInjectiveSeq(q)
    BY <1>1, <1>3, RootsFacts, ListingIsSequence
  <1>5. q # <<>>
    BY <1>4 DEF Range
  <1> DEFINE j == Head(q)
  <1>6. /\ j \in Roots(graph) /\ ready' = Tail(q) /\ ready' \in Seq(Roots(graph))
        /\ Roots(graph) = Range(ready') \cup {j} /\ j \notin Range(ready')
        /\ IsInjectiveSeq(ready')
    BY <1>3, <1>4, <1>5, RangeTail DEF EmitJobReady
  <1>7. posted' = <<Dispatch(j)>> /\ running' = <<>>
    BY <1>2, <1>3 DEF EmitJobReady
  <1>8. /\ Dispatched' = {j} /\ Ended' = {} /\ Range(running)' = {}
        /\ InFlight' = {j} /\ Range(done)' = {} /\ done' = <<>>
    <2>1. Range(<<>>) = {} BY DEF Range
    <2> QED BY <1>2, <1>7, FlightSetsNext, <2>1 DEF InFlight
  <1>9. /\ Roots(graph) \subseteq graph.nodes
        /\ \A k \in graph.nodes : k \in Roots(graph) <=> PredecessorSet(graph, k) = {}
    BY <1>1, RootsFacts
  <1>10. /\ \A k \in graph.nodes : counts'[k] = Cardinality(OpenEdges(graph, k, {}))
         /\ DOMAIN counts' = graph.nodes
    BY DEF InitialCounts, OpenEdges
  <1>11. \A k \in graph.nodes :
            /\ counts'[k] \in Nat
            /\ counts'[k] = 0 <=> k \in Roots(graph)
    BY <1>1, <1>9, <1>10, OpenEdgesZero
  <1>12. TypeOK'
    <2>1. ready' \in Seq(graph.nodes)
      BY <1>6, <1>9, SeqMonotonic
    <2>2. posted' \in Seq([slot : {"dispatch", "onJobFinished"}, job : graph.nodes])
      BY <1>6, <1>7, <1>9 DEF Dispatch
    <2> QED BY <1>10, <1>11, <2>1, <2>2 DEF TypeOK
  <1>13. OneByOne'
    BY <1>6, <1>7, <1>8, <1>9 DEF OneByOne, IsInjectiveSeq
  <1>14. TopologicalOrder'
    BY <1>6, <1>8, <1>9 DEF TopologicalOrder
  <1>15. CountsExact'
    BY <1>8, <1>9, <1>10, <1>11 DEF CountsExact, OpenEdges
  <1>16. OnlyCyclesStarve' /\ VerdictIsTrue'
    BY DEF OnlyCyclesStarve, VerdictIsTrue, NoExit, Phases
  <1>17. \A k \in Range(ready') : PredecessorSet(graph, k) \subseteq Range(done')
    BY <1>6, <1>9
  <1>18. FlightShape' /\ Phases' /\ Bookkeeping'
    BY <1>2, <1>6, <1>7, <1>8, <1>9 DEF FlightShape, Phases, Bookkeeping
  <1>19. CounterDomain'
    BY <1>9, <1>10, <1>11 DEF CounterDomain
  <1> QED BY <1>12, <1>13, <1>14, <1>15, <1>16, <1>17, <1>18, <1>19

LEMMA EnterEventLoopIInv == IInv /\ EnterEventLoop => IInv'
  <1> SUFFICES ASSUME IInv, EnterEventLoop PROVE IInv'
    OBVIOUS
  <1> USE DEF IInv, EnterEventLoop, schedulerVars, jobVars
  <1>0. Dispatched' = Dispatched /\ Ended' = Ended /\ Range(running)' = Range(running)
    BY DEF Dispatched, Ended, Range
  <1>1. TypeOK' /\ OneByOne' /\ CountsExact'
    <2>1. TypeOK' BY DEF TypeOK
    <2>2. OneByOne' BY <1>0 DEF OneByOne, InFlight
    <2>3. CountsExact' BY DEF CountsExact
    <2> QED BY <2>1, <2>2, <2>3
  <1>2. TopologicalOrder'
    BY DEF TopologicalOrder, InFlight, Dispatched, Ended
  <1>3. OnlyCyclesStarve' /\ VerdictIsTrue'
    BY DEF OnlyCyclesStarve, VerdictIsTrue
  <1>4. FlightShape' /\ Phases' /\ CounterDomain' /\ Bookkeeping'
    BY DEF FlightShape, Phases, CounterDomain, Bookkeeping, Ended
  <1> QED BY <1>1, <1>2, <1>3, <1>4

LEMMA DispatchJobIInv ==
    ASSUME NEW j \in Jobs, IInv, DispatchJob(j)
    PROVE  IInv'
  <1> USE DEF IInv, DispatchJob, schedulerVars, jobVars
  <1>1. posted = <<Dispatch(j)>> /\ running = <<>> /\ j \in graph.nodes
    <2>1. posted # <<>> /\ Head(posted) = Dispatch(j)
      OBVIOUS
    <2>2. \A k : Dispatch(j) # Finished(k) /\ (Dispatch(k) = Dispatch(j) => k = j)
      BY DEF Dispatch, Finished
    <2> QED BY <2>1, <2>2 DEF FlightShape
  <1>2. Dispatched = {j} /\ Ended = {} /\ Range(running) = {}
    BY <1>1, FlightSets
  <1>3. posted' = <<>> /\ Dispatched' = {} /\ Ended' = {}
    BY <1>1, FlightSetsNext
  <1>4. \/ /\ running' = <<j>> /\ Range(running)' = {j} /\ InFlight' = InFlight
           /\ UNCHANGED <<main, exitCode>>
        \/ /\ running' = <<>> /\ InFlight' = {}
           /\ main' = "exited" /\ exitCode' = 1
    <2>1. CASE running' = Append(running, j) /\ UNCHANGED <<main, exitCode>>
      <3>1. running' = <<j>>
        BY <1>1, <2>1
      <3> QED BY <2>1, <3>1, <1>2, <1>3, FlightSetsNext DEF InFlight
    <2>2. CASE main' = "exited" /\ exitCode' = 1 /\ UNCHANGED running
      BY <1>1, <1>3, <2>2, FlightSetsNext DEF InFlight
    <2> QED BY <2>1, <2>2
  <1>5. TypeOK'
    <2>1. running' \in Seq(graph.nodes)
      <3>1. <<>> \in Seq(graph.nodes) /\ <<j>> \in Seq(graph.nodes)
        BY <1>1, ShortSeqs
      <3> QED BY <3>1, <1>4
    <2>2. posted' \in Seq([slot : {"dispatch", "onJobFinished"}, job : graph.nodes])
      BY <1>3, EmptySeq
    <2> QED BY <1>4, <2>1, <2>2 DEF TypeOK
  <1>6. OneByOne'
    <2>1. Len(posted') + Len(running') <= 1
      BY <1>3, <1>4
    <2> QED BY <1>4, <2>1 DEF OneByOne
  <1>7. TopologicalOrder'
    BY <1>4 DEF TopologicalOrder
  <1>8. CountsExact' /\ CounterDomain'
    BY <1>4 DEF CountsExact, CounterDomain
  <1>9. OnlyCyclesStarve' /\ VerdictIsTrue'
    BY <1>4 DEF OnlyCyclesStarve, VerdictIsTrue
  <1>10. FlightShape'
    BY <1>1, <1>3, <1>4 DEF FlightShape
  <1>11. Phases'
    BY <1>1, <1>3, <1>4 DEF Phases, NoExit
  <1>12. Bookkeeping'
    BY <1>2, <1>3, <1>4 DEF Bookkeeping
  <1> QED BY <1>5, <1>6, <1>7, <1>8, <1>9, <1>10, <1>11, <1>12

LEMMA TestcaseEndsIInv == IInv /\ TestcaseEnds => IInv'
  <1> SUFFICES ASSUME IInv, TestcaseEnds PROVE IInv'
    OBVIOUS
  <1> USE DEF IInv, schedulerVars
  <1>1. PICK j \in graph.nodes : posted = <<>> /\ running = <<j>>
    BY DEF FlightShape, TestcaseEnds
  <1>2. Last(running) = j /\ Front(running) = <<>>
    BY <1>1 DEF Last, Front
  <1>3. PICK res \in Outcomes :
            outcome' = [k \in DOMAIN outcome \cup {j} |->
                           IF k = j THEN res ELSE outcome[k]]
    BY <1>2 DEF TestcaseEnds
  <1>4. /\ main = "loop" /\ UNCHANGED <<schedulerVars, quitting, main, exitCode>>
        /\ exporting' \in {exporting, exporting \cup {j}}
        /\ posted' = <<Finished(j)>> /\ running' = <<>>
    BY <1>1, <1>2 DEF TestcaseEnds
  <1>5. /\ Dispatched = {} /\ Ended = {} /\ Range(running) = {j}
        /\ Dispatched' = {} /\ Ended' = {j} /\ Range(running)' = {}
        /\ InFlight' = InFlight
    BY <1>1, <1>4, FlightSets, FlightSetsNext DEF InFlight
  <1>6. j \notin Range(done)
    BY <1>4, <1>5 DEF OneByOne, InFlight
  <1>7. DOMAIN outcome = Range(done)
    BY <1>4, <1>5 DEF Bookkeeping
  <1>8. /\ DOMAIN outcome' = DOMAIN outcome \cup {j}
        /\ outcome'[j] = res
        /\ \A k \in DOMAIN outcome : outcome'[k] = outcome[k]
    BY <1>3, <1>6, <1>7
  <1>9. TypeOK'
    <2>1. posted' \in Seq([slot : {"dispatch", "onJobFinished"}, job : graph.nodes])
      BY <1>4 DEF Finished
    <2>2. running' \in Seq(graph.nodes)
      BY <1>4
    <2>3. DOMAIN outcome' \subseteq graph.nodes
          /\ \A k \in DOMAIN outcome' : outcome'[k] \in Outcomes
      BY <1>8 DEF TypeOK
    <2> QED BY <1>4, <2>1, <2>2, <2>3 DEF TypeOK
  <1>10. OneByOne'
    <2>1. Len(posted') + Len(running') <= 1
      BY <1>4
    <2> QED BY <1>4, <1>5, <2>1 DEF OneByOne
  <1>11. TopologicalOrder' /\ CountsExact' /\ CounterDomain'
    <2>1. TopologicalOrder' BY <1>4, <1>5 DEF TopologicalOrder
    <2>2. CountsExact' BY <1>4 DEF CountsExact
    <2>3. CounterDomain' BY <1>4 DEF CounterDomain
    <2> QED BY <2>1, <2>2, <2>3
  <1>12. OnlyCyclesStarve' /\ VerdictIsTrue'
    BY <1>4 DEF OnlyCyclesStarve, VerdictIsTrue, Phases, NoExit
  <1>13. FlightShape' /\ Phases'
    BY <1>1, <1>4 DEF FlightShape, Phases
  <1>14. Bookkeeping'
    BY <1>4, <1>5, <1>7, <1>8 DEF Bookkeeping
  <1> QED BY <1>4, <1>9, <1>10, <1>11, <1>12, <1>13, <1>14

\* A test case that ends the program leaves no call behind.
LEMMA TestcaseExitsIInv == IInv /\ TestcaseExits => IInv'
  <1> SUFFICES ASSUME IInv, TestcaseExits PROVE IInv'
    OBVIOUS
  <1> USE DEF IInv, schedulerVars, jobVars
  <1>1. PICK j \in graph.nodes : posted = <<>> /\ running = <<j>>
    BY DEF FlightShape, TestcaseExits
  <1>2. /\ main = "loop" /\ main' = "exited" /\ exitCode' = 1
        /\ UNCHANGED <<schedulerVars, jobVars, quitting>>
        /\ posted' = <<>> /\ running' = <<>>
    BY <1>1 DEF TestcaseExits
  <1>3. /\ Dispatched' = {} /\ Ended' = {} /\ Ended = {} /\ Range(running)' = {} /\ InFlight' = {}
    BY <1>1, <1>2, FlightSets, FlightSetsNext DEF InFlight
  <1>4. TypeOK'
    <2>1. posted' \in Seq([slot : {"dispatch", "onJobFinished"}, job : graph.nodes])
      BY <1>2, EmptySeq
    <2>2. running' \in Seq(graph.nodes)
      BY <1>2, ShortSeqs
    <2> QED BY <1>2, <2>1, <2>2 DEF TypeOK
  <1>5. OneByOne'
    <2>1. Len(posted') + Len(running') <= 1
      BY <1>2
    <2> QED BY <1>2, <2>1 DEF OneByOne
  <1>6. TopologicalOrder'
    BY <1>2, <1>3 DEF TopologicalOrder
  <1>7. CountsExact' /\ CounterDomain'
    BY <1>2 DEF CountsExact, CounterDomain
  <1>8. OnlyCyclesStarve' /\ VerdictIsTrue'
    BY <1>2 DEF OnlyCyclesStarve, VerdictIsTrue
  <1>9. FlightShape'
    BY <1>2 DEF FlightShape
  <1>10. Phases'
    BY <1>2 DEF Phases, NoExit
  <1>11. Bookkeeping'
    BY <1>2, <1>3 DEF Bookkeeping
  <1> QED BY <1>2, <1>4, <1>5, <1>6, <1>7, <1>8, <1>9, <1>10, <1>11

LEMMA LeaveEventLoopIInv == IInv /\ LeaveEventLoop => IInv'
  <1> SUFFICES ASSUME IInv, LeaveEventLoop PROVE IInv'
    OBVIOUS
  <1> USE DEF IInv, LeaveEventLoop, schedulerVars, jobVars
  <1>1. posted = <<>> /\ running = <<>> /\ ready = <<>>
    BY DEF Phases
  <1>2. /\ Dispatched = {} /\ Ended = {} /\ Range(running) = {} /\ InFlight = {}
        /\ Range(ready) = {} /\ InFlight' = {} /\ Dispatched' = {} /\ Ended' = {}
    BY <1>1, FlightSets, FlightSetsNext DEF InFlight, Range
  <1>3. TypeOK' /\ OneByOne' /\ TopologicalOrder' /\ CountsExact' /\ CounterDomain'
    <2>1. TypeOK' BY DEF TypeOK, NoExit
    <2>2. OneByOne' BY DEF OneByOne
    <2>3. TopologicalOrder' BY <1>2 DEF TopologicalOrder
    <2>4. CountsExact' /\ CounterDomain' BY DEF CountsExact, CounterDomain
    <2> QED BY <2>1, <2>2, <2>3, <2>4
  <1>4. graph.nodes \ Range(done) = todo
    BY <1>2 DEF OneByOne
  <1>5. \A j \in todo : PredecessorSet(graph, j) \cap todo # {}
    <2> SUFFICES ASSUME NEW j \in todo
                 PROVE  PredecessorSet(graph, j) \cap todo # {}
      OBVIOUS
    <2>1. Cardinality(OpenEdges(graph, j, Range(done))) > 0
      BY DEF CountsExact, OpenEdges
    <2>2. ~ (PredecessorSet(graph, j) \subseteq Range(done))
      BY <2>1, OpenEdgesZero DEF TypeOK
    <2>3. PredecessorSet(graph, j) \subseteq graph.nodes
      BY GraphFacts DEF TypeOK
    <2> QED BY <2>2, <2>3, <1>4
  <1>6. OnlyCyclesStarve'
    BY <1>4, <1>5 DEF OnlyCyclesStarve, IsCyclicCore
  <1>7. VerdictIsTrue'
    <2>1. DOMAIN outcome = Range(done)
      BY <1>2 DEF Bookkeeping
    <2>2. /\ DOMAIN results = 1..Len(done) /\ DOMAIN done = 1..Len(done)
      BY LenProperties DEF TypeOK, Bookkeeping
    <2>3. HasFailed <=> \E j \in DOMAIN outcome : outcome[j] = "Fail"
      <3>1. \A i \in 1..Len(done) : results[i] = outcome[done[i]]
        BY DEF Bookkeeping
      <3>2. \A j : j \in DOMAIN outcome <=> \E i \in 1..Len(done) : done[i] = j
        BY <2>1, <2>2 DEF Range
      <3> QED BY <2>2, <3>1, <3>2 DEF HasFailed
    <2>4. exitCode' = IF HasFailed THEN 2 ELSE 0
      OBVIOUS
    <2> QED BY <2>1, <2>3, <2>4 DEF VerdictIsTrue
  <1>8. FlightShape' /\ Bookkeeping'
    BY <1>1 DEF FlightShape, Bookkeeping
  <1>9. Phases'
    BY DEF Phases, NoExit
  <1> QED BY <1>3, <1>6, <1>7, <1>8, <1>9

LEMMA OnJobFinishedIInv ==
    ASSUME NEW f \in Jobs, IInv, OnJobFinished(f)
    PROVE  IInv'
  <1> USE DEF IInv, jobVars
  <1>1. /\ main = "loop" /\ posted # <<>> /\ Head(posted) = Finished(f)
        /\ done' = Append(done, f)
        /\ results' = Append(results, outcome[f])
        /\ todo' = todo \ Released(f)
        /\ counts' = [j \in DOMAIN counts \ Released(f) |-> CountsWithout(f)[j]]
        /\ UNCHANGED <<graph, outcome, exporting, running, main, exitCode>>
    BY DEF OnJobFinished
  <1>2. posted = <<Finished(f)>> /\ running = <<>> /\ f \in graph.nodes
    <2>1. \A k : Dispatch(k) # Finished(f) /\ (Finished(k) = Finished(f) => k = f)
      BY DEF Dispatch, Finished
    <2> QED BY <1>1, <2>1 DEF FlightShape
  <1>3. /\ Dispatched = {} /\ Ended = {f} /\ Range(running) = {} /\ InFlight = {f}
        /\ Range(running)' = {}
    BY <1>1, <1>2, FlightSets, FlightSetsNext DEF InFlight
  <1>4. graph \in JobGraphs /\ todo \subseteq graph.nodes
    BY DEF TypeOK
  <1>5. f \notin Range(done) /\ f \notin todo /\ f \notin Range(ready)
    BY <1>1, <1>3 DEF OneByOne
  <1>6. /\ done' \in Seq(graph.nodes)
        /\ Range(done') = Range(done) \cup {f}
        /\ IsInjectiveSeq(done')
    <2>1. done \in Seq(graph.nodes) /\ IsInjectiveSeq(done)
      BY <1>1 DEF TypeOK, OneByOne, IsInjectiveSeq
    <2> HIDE DEF IInv
    <2> QED BY <1>1, <1>2, <1>5, <2>1, RangeAppend
  <1>7. \A j \in todo :
           /\ j \in DOMAIN counts
           /\ counts[j] = Cardinality(OpenEdges(graph, j, Range(done)))
           /\ counts[j] > 0
    BY <1>1 DEF CountsExact, OpenEdges
  <1>8. \A j \in todo :
           CountsWithout(f)[j] = Cardinality(OpenEdges(graph, j, Range(done')))
    BY <1>4, <1>5, <1>6, <1>7, OpenEdgesDrop DEF CountsWithout, Multiplicity
  <1>9. \A j \in Released(f) : PredecessorSet(graph, j) \subseteq Range(done')
    BY <1>4, <1>8, OpenEdgesZero DEF Released
  <1>10. \A j \in todo \ Released(f) :
            /\ CountsWithout(f)[j] = Cardinality(OpenEdges(graph, j, Range(done')))
            /\ CountsWithout(f)[j] \in Nat /\ CountsWithout(f)[j] > 0
    <2> SUFFICES ASSUME NEW j \in todo \ Released(f)
                 PROVE  CountsWithout(f)[j] \in Nat /\ CountsWithout(f)[j] > 0
      BY <1>8
    <2>1. CountsWithout(f)[j] \in Nat
      BY <1>4, <1>8, OpenEdgesZero
    <2>2. CASE Multiplicity(f, j) > 0
      <3>1. CountsWithout(f)[j] # 0
        BY <2>2 DEF Released
      <3> HIDE DEF IInv
      <3> QED BY <2>1, <3>1
    <2>3. CASE ~(Multiplicity(f, j) > 0)
      <3>1. Multiplicity(f, j) = 0
        BY <2>3, <1>4, MultiplicityFacts DEF Multiplicity
      <3>2. j \in DOMAIN counts /\ counts[j] \in Nat /\ counts[j] > 0
        BY <1>7 DEF TypeOK
      <3>3. CountsWithout(f)[j] = counts[j]
        BY <3>1, <3>2 DEF CountsWithout
      <3> QED BY <3>2, <3>3
    <2> QED BY <2>2, <2>3
  <1>11. Released(f) \subseteq todo /\ IsFiniteSet(Released(f))
    <2>1. Released(f) \in SUBSET graph.nodes
      BY <1>4 DEF Released
    <2> QED BY <1>4, <2>1, GraphFacts, FS_Subset DEF Released
  <1>12. PICK q \in Listings(Released(f), ReleaseOrder(f)) :
            LET r == ready \o q
            IN  \/ /\ r # <<>>
                   /\ EmitJobReady(Tail(posted), r)
                   /\ UNCHANGED quitting
                \/ /\ r = <<>>
                   /\ quitting' = TRUE
                   /\ posted' = Tail(posted)
                   /\ UNCHANGED ready
    BY DEF OnJobFinished, EmitFinished
  <1> DEFINE r == ready \o q
  <1>13. q \in Seq(Released(f)) /\ Range(q) = Released(f) /\ IsInjectiveSeq(q)
    BY <1>11, <1>12, ListingIsSequence
  <1>14. /\ r \in Seq(graph.nodes) /\ Range(r) = Range(ready) \cup Released(f)
         /\ IsInjectiveSeq(r)
    <2>1. q \in Seq(graph.nodes)
      BY <1>4, <1>11, <1>13, SeqMonotonic
    <2>2. Range(ready) \cap Range(q) = {} /\ IsInjectiveSeq(ready)
      BY <1>1, <1>11, <1>13 DEF OneByOne, IsInjectiveSeq
    <2> QED BY <1>13, <2>1, <2>2, RangeConcat DEF TypeOK
  <1>15. \A j \in Range(r) : PredecessorSet(graph, j) \subseteq Range(done')
    BY <1>6, <1>9, <1>14
  <1> HIDE DEF r
  <1>16. \/ \E j \in graph.nodes :
              /\ posted' = <<Dispatch(j)>> /\ UNCHANGED quitting
              /\ ready' \in Seq(graph.nodes)
              /\ Range(r) = Range(ready') \cup {j} /\ j \notin Range(ready')
              /\ IsInjectiveSeq(ready')
         \/ /\ posted' = <<>> /\ quitting' = TRUE
            /\ ready' = <<>> /\ Range(r) = {}
    <2>1. CASE r # <<>> /\ EmitJobReady(Tail(posted), r) /\ UNCHANGED quitting
      <3>1. posted' = <<Dispatch(Head(r))>> /\ ready' = Tail(r)
        BY <1>2, <2>1 DEF EmitJobReady
      <3> QED BY <1>14, <2>1, <3>1, RangeTail
    <2>2. CASE r = <<>> /\ quitting' = TRUE /\ posted' = Tail(posted) /\ UNCHANGED ready
      <3>1. posted' = <<>>
        BY <1>2, <2>2
      <3>2. Range(r) = {} /\ ready = <<>>
        <4>1. Range(r) = {}
          BY <2>2 DEF Range
        <4>2. Range(ready) = {}
          BY <4>1, <1>14
        <4>3. ready = <<>>
          <5>1. ready \in Seq(graph.nodes)
            BY DEF TypeOK
          <5> HIDE DEF IInv
          <5>2. ready # <<>> => Head(ready) \in Range(ready)
            BY <5>1, RangeTail
          <5> QED BY <4>2, <5>2
        <4> QED BY <4>1, <4>3
      <3> QED BY <2>2, <3>1, <3>2
    <2> QED BY <1>12, <2>1, <2>2 DEF r
  <1>17. /\ Ended' = {} /\ InFlight' = Dispatched'
         /\ Range(r) = Range(ready') \cup InFlight' /\ Range(ready') \cap InFlight' = {}
         /\ ready' \in Seq(graph.nodes) /\ IsInjectiveSeq(ready')
    <2>1. CASE \E j \in graph.nodes :
              /\ posted' = <<Dispatch(j)>> /\ UNCHANGED quitting
              /\ ready' \in Seq(graph.nodes)
              /\ Range(r) = Range(ready') \cup {j} /\ j \notin Range(ready')
              /\ IsInjectiveSeq(ready')
      BY <1>3, <2>1, FlightSetsNext DEF InFlight
    <2>2. CASE /\ posted' = <<>> /\ quitting' = TRUE
               /\ ready' = <<>> /\ Range(r) = {}
      <3>1. Ended' = {} /\ Dispatched' = {}
        BY <2>2, FlightSetsNext
      <3>2. ready' \in Seq(graph.nodes) /\ IsInjectiveSeq(ready') /\ Range(ready') = {}
        BY <2>2, ShortSeqs DEF IsInjectiveSeq, Range
      <3> QED BY <1>3, <2>2, <3>1, <3>2 DEF InFlight
    <2> QED BY <1>16, <2>1, <2>2
  <1>18. TypeOK'
    <2>1. posted' \in Seq([slot : {"dispatch", "onJobFinished"}, job : graph.nodes])
      <3>1. \A j \in graph.nodes :
               Dispatch(j) \in [slot : {"dispatch", "onJobFinished"}, job : graph.nodes]
        BY DEF Dispatch
      <3>2. posted' = <<>> \/ \E j \in graph.nodes : posted' = <<Dispatch(j)>>
        BY <1>16
      <3> HIDE DEF IInv
      <3> QED BY <3>1, <3>2, ShortSeqs
    <2>2. results' \in Seq(Outcomes)
      <3>1. outcome[f] \in Outcomes
        BY <1>1, <1>3 DEF Bookkeeping, TypeOK
      <3> QED BY <1>1, <3>1, RangeAppend DEF TypeOK
    <2>3. DOMAIN counts' = DOMAIN counts \ Released(f)
          /\ \A j \in DOMAIN counts' : counts'[j] \in Nat
      <3>1. DOMAIN counts = todo \cup Roots(graph)
        BY <1>1 DEF CounterDomain
      <3>2. \A j \in Roots(graph) : CountsWithout(f)[j] = 0
        <4> SUFFICES ASSUME NEW j \in Roots(graph)
                     PROVE  CountsWithout(f)[j] = 0
          OBVIOUS
        <4>1. Multiplicity(f, j) = 0
          <5>1. PredecessorSet(graph, j) = {}
            BY <1>4, RootsFacts
          <5> QED BY <1>4, <5>1, MultiplicityFacts DEF Multiplicity
        <4>2. counts[j] = 0
          BY <1>1 DEF CounterDomain
        <4> QED BY <3>1, <4>1, <4>2 DEF CountsWithout
      <3> QED BY <1>1, <1>10, <3>1, <3>2
    <2>4. quitting' \in BOOLEAN
      BY <1>12 DEF TypeOK
    <2> QED BY <1>1, <1>4, <1>6, <1>17, <2>1, <2>2, <2>3, <2>4 DEF TypeOK
  <1>19. OneByOne'
    <2>1. Len(posted') + Len(running') <= 1
      <3>1. posted' = <<>> \/ \E j \in graph.nodes : posted' = <<Dispatch(j)>>
        BY <1>16
      <3>2. running' = <<>>
        BY <1>1, <1>2
      <3>3. Len(<<>>) = 0 /\ \A x : Len(<<x>>) = 1
        OBVIOUS
      <3>4. Len(posted') \in {0, 1}
        <4>1. CASE posted' = <<>>
          BY <4>1, <3>3
        <4>2. ASSUME NEW j \in graph.nodes, posted' = <<Dispatch(j)>>
              PROVE  Len(posted') = 1
          BY <4>2, <3>3
        <4> QED BY <3>1, <4>1, <4>2
      <3>5. Len(running') = 0
        BY <3>2, <3>3
      <3>6. \A a \in {0, 1} : a + 0 <= 1
        OBVIOUS
      <3> QED BY <3>4, <3>5, <3>6, Zenon
    <2>2. /\ graph.nodes = todo \cup Range(ready) \cup {f} \cup Range(done)
          /\ todo \cap (Range(ready) \cup {f} \cup Range(done)) = {}
          /\ Range(ready) \cap ({f} \cup Range(done)) = {}
      BY <1>1, <1>3 DEF OneByOne
    <2>3. /\ graph.nodes = todo' \cup Range(ready') \cup InFlight' \cup Range(done')
          /\ todo' \cap (Range(ready') \cup InFlight' \cup Range(done')) = {}
          /\ Range(ready') \cap (InFlight' \cup Range(done')) = {}
          /\ InFlight' \cap Range(done') = {}
      BY <1>1, <1>6, <1>11, <1>14, <1>17, <2>2
    <2> QED BY <1>1, <1>6, <1>17, <2>1, <2>3 DEF OneByOne, IsInjectiveSeq
  <1>20. TopologicalOrder'
    <2>1. \A k \in DOMAIN done' :
             PredecessorSet(graph, done'[k]) \subseteq {done'[i] : i \in 1..(k - 1)}
      <3>1. /\ Len(done) \in Nat /\ DOMAIN done = 1..Len(done)
            /\ DOMAIN done' = 1..(Len(done) + 1)
            /\ \A i \in 1..Len(done) : done'[i] = done[i]
            /\ done'[Len(done) + 1] = f
        BY <1>1, <1>2, AppendProperties, LenProperties DEF TypeOK
      <3>2. ASSUME NEW k \in 1..Len(done)
            PROVE  PredecessorSet(graph, done'[k]) \subseteq {done'[i] : i \in 1..(k - 1)}
        <4>1. {done[i] : i \in 1..(k - 1)} = {done'[i] : i \in 1..(k - 1)}
          BY <3>1
        <4> QED BY <3>1, <4>1 DEF TopologicalOrder
      <3>3. PredecessorSet(graph, f) \subseteq Range(done)
        BY <1>3 DEF TopologicalOrder
      <3>4. Range(done) = {done'[i] : i \in 1..Len(done)}
        BY <3>1 DEF Range
      <3>5. (Len(done) + 1) - 1 = Len(done)
        BY <3>1
      <3> QED BY <3>1, <3>2, <3>3, <3>4, <3>5
    <2>2. \A j \in InFlight' : PredecessorSet(graph, j) \subseteq Range(done')
      BY <1>15, <1>17
    <2> QED BY <1>1, <2>1, <2>2 DEF TopologicalOrder
  <1>21. CountsExact'
    BY <1>1, <1>7, <1>10 DEF CountsExact, OpenEdges
  <1>22. OnlyCyclesStarve' /\ VerdictIsTrue'
    BY <1>1 DEF OnlyCyclesStarve, VerdictIsTrue, Phases, NoExit
  <1>23. \A j \in Range(ready') : PredecessorSet(graph', j) \subseteq Range(done')
    BY <1>1, <1>15, <1>17
  <1>24. FlightShape'
    BY <1>1, <1>2, <1>16 DEF FlightShape
  <1>25. Phases'
    BY <1>1, <1>2, <1>16 DEF Phases
  <1>26. CounterDomain'
    <2>1. /\ DOMAIN counts = todo \cup Roots(graph)
          /\ \A j \in Roots(graph) : counts[j] = 0 /\ j \notin todo
      BY <1>1 DEF CounterDomain
    <2>2. \A j \in Roots(graph) : Multiplicity(f, j) = 0
      <3> SUFFICES ASSUME NEW j \in Roots(graph) PROVE Multiplicity(f, j) = 0
        OBVIOUS
      <3>1. PredecessorSet(graph, j) = {}
        BY <1>4, RootsFacts
      <3> QED BY <1>4, <3>1, MultiplicityFacts DEF Multiplicity
    <2>3. \A j \in Roots(graph) : j \notin Released(f) /\ CountsWithout(f)[j] = 0
      BY <2>1, <2>2 DEF Released, CountsWithout
    <2>4. DOMAIN counts' = todo' \cup Roots(graph)
      BY <1>1, <1>11, <2>1, <2>3
    <2> QED BY <1>1, <2>1, <2>3, <2>4 DEF CounterDomain
  <1>27. Bookkeeping'
    <2>1. /\ Len(done) \in Nat /\ Len(results) = Len(done)
          /\ Len(done') = Len(done) + 1 /\ Len(results') = Len(done')
          /\ \A i \in 1..Len(done) : done'[i] = done[i] /\ results'[i] = results[i]
          /\ done'[Len(done) + 1] = f /\ results'[Len(done) + 1] = outcome[f]
      BY <1>1, <1>2, LenProperties DEF TypeOK, Bookkeeping
    <2>2. DOMAIN outcome = Range(done')
      BY <1>1, <1>3, <1>6 DEF Bookkeeping
    <2>3. f \in DOMAIN outcome
      BY <2>2, <1>6
    <2>4. \A i \in 1..Len(done') :
             done'[i] \in DOMAIN outcome /\ results'[i] = outcome[done'[i]]
      BY <2>1, <2>3 DEF Bookkeeping
    <2> QED BY <1>1, <1>17, <2>1, <2>2, <2>4 DEF Bookkeeping
  <1> QED BY <1>18, <1>19, <1>20, <1>21, <1>22, <1>23, <1>24, <1>25, <1>26, <1>27

LEMMA NextIInv == IInv /\ [Next]_vars => IInv'
  <1> SUFFICES ASSUME IInv, [Next]_vars PROVE IInv'
    OBVIOUS
  <1>1. CASE StartEmpty
    BY <1>1, StartEmptyIInv
  <1>2. CASE Start
    BY <1>2, StartIInv
  <1>3. CASE EnterEventLoop
    BY <1>3, EnterEventLoopIInv
  <1>4. ASSUME NEW j \in Jobs, DispatchJob(j)
        PROVE  IInv'
    BY <1>4, DispatchJobIInv
  <1>5. ASSUME NEW j \in Jobs, OnJobFinished(j)
        PROVE  IInv'
    BY <1>5, OnJobFinishedIInv
  <1>6. CASE TestcaseEnds
    BY <1>6, TestcaseEndsIInv
  <1>9. CASE TestcaseExits
    BY <1>9, TestcaseExitsIInv
  <1>7. CASE LeaveEventLoop
    BY <1>7, LeaveEventLoopIInv
  <1>8. CASE UNCHANGED vars
    <2> USE <1>8 DEF vars, schedulerVars, jobVars, loopVars, IInv
    <2>1. Dispatched' = Dispatched /\ Ended' = Ended /\ InFlight' = InFlight
      BY DEF Dispatched, Ended, InFlight
    <2>2. TypeOK' /\ OneByOne' /\ TopologicalOrder'
      <3>1. TypeOK' BY DEF TypeOK
      <3>2. OneByOne' BY <2>1 DEF OneByOne
      <3>3. TopologicalOrder' BY <2>1 DEF TopologicalOrder
      <3> QED BY <3>1, <3>2, <3>3
    <2>3. CountsExact' /\ OnlyCyclesStarve' /\ VerdictIsTrue'
      BY DEF CountsExact, OnlyCyclesStarve, VerdictIsTrue
    <2>4. FlightShape' /\ Phases' /\ CounterDomain' /\ Bookkeeping'
      BY <2>1 DEF FlightShape, Phases, CounterDomain, Bookkeeping
    <2> QED BY <2>2, <2>3, <2>4
  <1> QED BY <1>1, <1>2, <1>3, <1>4, <1>5, <1>6, <1>7, <1>8, <1>9 DEF Next

\* The inductive invariant holds in every reachable state.
THEOREM Invariance == Spec => []IInv
  <1>1. Init => IInv
    BY InitIInv
  <1>2. IInv /\ [Next]_vars => IInv'
    BY NextIInv
  <1> QED BY <1>1, <1>2, PTL DEF Spec

----------------------------------------------------------------------------
(* The theorems about a run of the jobs.                                   *)

\* Type correctness of SerialJobScheduler and of the event loop around it.
THEOREM TypeCorrectness == Spec => []TypeOK
  <1>1. IInv => TypeOK
    BY DEF IInv
  <1> QED BY <1>1, Invariance, PTL

\* "This scheduler executes jobs one-by-one": no test case ever runs inside
\* the event loop of another one, and no job is lost, kept twice or run again.
THEOREM JobsRunOneByOne == Spec => []OneByOne
  <1>1. IInv => OneByOne
    BY DEF IInv
  <1> QED BY <1>1, Invariance, PTL

\* "The schedule is a topological order of the dependency graph", for every
\* finite graph, parallel edges and cycles included.
THEOREM ScheduleIsTopological == Spec => []TopologicalOrder
  <1>1. IInv => TopologicalOrder
    BY DEF IInv
  <1> QED BY <1>1, Invariance, PTL

\* m_dependencyCounts counts exactly the edges from unfinished predecessors,
\* so no job is released too early, none is forgotten and no count wraps.
THEOREM CountersAreExact == Spec => []CountsExact
  <1>1. IInv => CountsExact
    BY DEF IInv
  <1> QED BY <1>1, Invariance, PTL

\* A program that ends with a verdict has executed every job that does not
\* depend on a cycle: the jobs left over all wait for each other.
THEOREM OnlyCyclesAreLeft == Spec => []OnlyCyclesStarve
  <1>1. IInv => OnlyCyclesStarve
    BY DEF IInv
  <1> QED BY <1>1, Invariance, PTL

\* The exit code tells the truth about the jobs that were executed.
THEOREM ExitCodeIsTrue == Spec => []VerdictIsTrue
  <1>1. IInv => VerdictIsTrue
    BY DEF IInv
  <1> QED BY <1>1, Invariance, PTL

\* With an acyclic graph, a verdict means that every job has been executed.
LEMMA AllExecuted ==
    ASSUME IInv, IsAcyclic(graph), exitCode \in {0, 2}
    PROVE  Range(done) = graph.nodes
  <1>1. Range(done) \subseteq graph.nodes
    BY DEF IInv, TypeOK, Range
  <1>2. graph.nodes \ Range(done) \in SUBSET graph.nodes
    OBVIOUS
  <1>3. ~IsCyclicCore(graph, graph.nodes \ Range(done))
    BY <1>2 DEF IsAcyclic
  <1> QED BY <1>1, <1>3 DEF IInv, OnlyCyclesStarve

\* No job of an acyclic project is left out of a run that ends with a verdict.
THEOREM AcyclicRunsAreComplete ==
    Spec => [](IsAcyclic(graph) /\ exitCode \in {0, 2} => Range(done) = graph.nodes)
  <1>1. IInv => (IsAcyclic(graph) /\ exitCode \in {0, 2} => Range(done) = graph.nodes)
    BY AllExecuted
  <1> QED BY <1>1, Invariance, PTL

----------------------------------------------------------------------------
(* What the exports of predecessors become.                                *)

\* The values exported to j have arrived, where no two edges are parallel.
Served(j) ==
    \A i \in EdgesInto(graph, j) :
        LET e == graph.edges[i]
        IN  e.pred \in exporting /\ EdgesBetween(graph, e.pred, j) = {i} =>
                /\ <<j, e.alias>> \in DOMAIN data
                /\ Cardinality({k \in data[<<j, e.alias>>] : graph.edges[k].pred = e.pred}) = 1

\* A job is served from the moment it is announced: its predecessors have ended,
\* so that what they export, and what has been stored, is final.
ExportInv == \A j \in InFlight : Served(j)

\* The newest of the edges between two jobs is the only one, if there is one only.
LEMMA OnlyEdge ==
    ASSUME graph \in JobGraphs, NEW j, NEW i \in EdgesInto(graph, j),
           EdgesBetween(graph, graph.edges[i].pred, j) = {i}
    PROVE  AliasOf(i, j) = graph.edges[i].alias
  <1>1. i \in Nat
    BY GraphsAssumption DEF EdgesInto
  <1>2. (CHOOSE k \in {i} : \A l \in {i} : l <= k) = i
    BY <1>1
  <1> QED BY <1>2 DEF AliasOf, LatestEdge

\* What onJobFinished() stores serves the next job.
LEMMA NextIsServed ==
    ASSUME NEW j, UNCHANGED <<graph, exporting>>, graph \in JobGraphs,
           SetDependenciesData(j, MultiDependencies(j))
    PROVE  Served(j)'
  <1> SUFFICES ASSUME NEW i \in EdgesInto(graph, j), graph.edges[i].pred \in exporting,
                      EdgesBetween(graph, graph.edges[i].pred, j) = {i}
               PROVE  LET e == graph.edges[i]
                      IN  /\ <<j, e.alias>> \in DOMAIN data'
                          /\ Cardinality({k \in data'[<<j, e.alias>>] : graph.edges[k].pred = e.pred}) = 1
    BY DEF Served
  <1> DEFINE p == graph.edges[i].pred
             a == graph.edges[i].alias
             x == <<j, a>>
  <1>1. i \in ExportingEdges(j) /\ AliasOf(i, j) = a
    BY OnlyEdge DEF ExportingEdges
  <1>2. x \in DOMAIN MultiDependencies(j)
        /\ MultiDependencies(j)[x] = {k \in ExportingEdges(j) : AliasOf(k, j) = a}
    BY <1>1 DEF MultiDependencies
  <1>3. x \in DOMAIN data' /\ data'[x] = {k \in ExportingEdges(j) : AliasOf(k, j) = a}
    BY <1>2 DEF SetDependenciesData
  <1>4. {k \in data'[x] : graph.edges[k].pred = p} = {i}
    <2>1. {k \in data'[x] : graph.edges[k].pred = p} \subseteq EdgesBetween(graph, p, j)
      BY <1>3 DEF ExportingEdges, EdgesBetween, EdgesInto, EdgesFrom
    <2>2. i \in {k \in data'[x] : graph.edges[k].pred = p}
      BY <1>1, <1>3
    <2> QED BY <2>1, <2>2
  <1> QED BY <1>3, <1>4, FS_Singleton

\* Nobody is served less when the jobs in flight, what they were given and what
\* their predecessors export do not change.
LEMMA SameJobsInFlight ==
    ASSUME IInv, ExportInv, UNCHANGED <<graph, data>>, InFlight' \subseteq InFlight,
           exporting' \cap Range(done) = exporting \cap Range(done)
    PROVE  ExportInv'
  <1> SUFFICES ASSUME NEW j \in InFlight PROVE Served(j)'
    BY DEF ExportInv
  <1>1. Served(j) /\ PredecessorSet(graph, j) \subseteq Range(done)
    BY DEF ExportInv, IInv, TopologicalOrder
  <1>2. \A i \in EdgesInto(graph, j) : graph.edges[i].pred \in exporting' => graph.edges[i].pred \in exporting
    BY <1>1 DEF PredecessorSet
  <1> QED BY <1>1, <1>2 DEF Served

\* The job in flight is served, whatever step is taken.
LEMMA ExportStep == ASSUME IInv, IInv', ExportInv, [Next]_vars PROVE ExportInv'
  <1>1. CASE InFlight' = {}
    BY <1>1 DEF ExportInv
  <1>2. CASE Start
    <2>1. PICK q \in Listings(Roots(graph), [j \in Jobs |-> j]) : EmitJobReady(posted, q)
      BY <1>2 DEF Start
    <2>2. Range(q) = Roots(graph) /\ q \in Seq(Roots(graph)) /\ q # <<>>
      <3>1. IsFiniteSet(Roots(graph))
        BY RootsFacts DEF IInv, TypeOK
      <3>2. q \in Seq(Roots(graph)) /\ Range(q) = Roots(graph)
        BY <2>1, <3>1, ListingIsSequence
      <3> QED BY <1>2, <3>2 DEF Start, Range
    <2>3. posted = <<>> /\ running = <<>> /\ UNCHANGED <<graph, running>>
      BY <1>2 DEF Start, IInv, Phases
    <2>4. posted' = <<Dispatch(Head(q))>> /\ Head(q) \in Roots(graph)
      BY <2>1, <2>2, <2>3 DEF EmitJobReady
    <2>5. InFlight' = {Head(q)}
      BY <2>3, <2>4, FlightSetsNext DEF InFlight
    <2>6. EdgesInto(graph, Head(q)) = {}
      BY <2>4 DEF Roots
    <2> QED BY <2>3, <2>5, <2>6 DEF ExportInv, Served
  <1>3. ASSUME NEW f \in Jobs, OnJobFinished(f), InFlight' # {} PROVE ExportInv'
    <2>1. PICK q \in Listings(Released(f), ReleaseOrder(f)) :
            LET r == ready \o q
            IN  \/ /\ EmitJobReady(Tail(posted), r)
                   /\ SetDependenciesData(Head(r), MultiDependencies(Head(r)))
                \/ posted' = Tail(posted)
      BY <1>3 DEF OnJobFinished
    <2>2. posted = <<Finished(f)>> /\ running = <<>>
      <3>1. posted # <<>> /\ Head(posted) = Finished(f)
        BY <1>3 DEF OnJobFinished
      <3>2. \A k : Dispatch(k) # Finished(f) /\ (Finished(k) = Finished(f) => k = f)
        BY DEF Dispatch, Finished
      <3> QED BY <3>1, <3>2 DEF IInv, FlightShape
    <2>3. UNCHANGED <<graph, running, exporting>> /\ graph \in JobGraphs
      BY <1>3 DEF OnJobFinished, jobVars, IInv, TypeOK
    <2>4. posted' # <<>>
      BY <1>3, <2>2, <2>3, FlightSetsNext DEF InFlight
    <2>5. PICK j : posted' = <<Dispatch(j)>> /\ SetDependenciesData(j, MultiDependencies(j))
      <3>1. Tail(posted) = <<>>
        BY <2>2
      <3>2. PICK k : posted' = Append(Tail(posted), Dispatch(k)) /\ SetDependenciesData(k, MultiDependencies(k))
        BY <2>1, <2>4, <3>1, Zenon DEF EmitJobReady
      <3>3. \A c : Append(<<>>, c) = <<c>>
        OBVIOUS
      <3>4. posted' = <<Dispatch(k)>>
        BY <3>1, <3>2, <3>3
      <3> QED BY <3>2, <3>4
    <2>6. InFlight' = {j}
      BY <2>2, <2>3, <2>5, FlightSetsNext DEF InFlight
    <2>7. Served(j)'
      BY <2>3, <2>5, NextIsServed
    <2> QED BY <2>6, <2>7 DEF ExportInv
  <1>4. CASE TestcaseEnds
    <2>1. PICK j \in graph.nodes : posted = <<>> /\ running = <<j>>
      BY <1>4 DEF IInv, FlightShape, TestcaseEnds
    <2>2. Last(running) = j /\ Front(running) = <<>>
      BY <2>1 DEF Last, Front
    <2>3. /\ posted' = <<Finished(j)>> /\ running' = <<>> /\ UNCHANGED <<graph, data>>
          /\ exporting' \in {exporting, exporting \cup {j}}
      BY <1>4, <2>1, <2>2 DEF TestcaseEnds, schedulerVars
    <2>4. InFlight = {j} /\ InFlight' = {j}
      BY <2>1, <2>3, FlightSets, FlightSetsNext DEF InFlight
    <2>5. j \notin Range(done)
      BY <1>4, <2>4 DEF TestcaseEnds, IInv, OneByOne
    <2> QED BY <2>3, <2>4, <2>5, SameJobsInFlight
  <1>5. ASSUME NEW j \in Jobs, DispatchJob(j) PROVE ExportInv'
    <2>1. posted = <<Dispatch(j)>> /\ running = <<>>
      <3>1. posted # <<>> /\ Head(posted) = Dispatch(j)
        BY <1>5 DEF DispatchJob
      <3>2. \A k : Dispatch(j) # Finished(k) /\ (Dispatch(k) = Dispatch(j) => k = j)
        BY DEF Dispatch, Finished
      <3> QED BY <3>1, <3>2 DEF IInv, FlightShape
    <2>2. posted' = <<>> /\ (running' = <<j>> \/ running' = <<>>) /\ UNCHANGED <<graph, data, exporting>>
      BY <1>5, <2>1 DEF DispatchJob, schedulerVars, jobVars
    <2>3. InFlight' \subseteq InFlight
      BY <2>1, <2>2, FlightSets, FlightSetsNext DEF InFlight
    <2> QED BY <2>2, <2>3, SameJobsInFlight
  <1>7. CASE TestcaseExits
    <2>1. PICK j \in graph.nodes : posted = <<>> /\ running = <<j>>
      BY <1>7 DEF IInv, FlightShape, TestcaseExits
    <2>2. posted' = <<>> /\ running' = <<>> /\ UNCHANGED <<graph, data, exporting>>
      BY <1>7, <2>1 DEF TestcaseExits, schedulerVars, jobVars
    <2>3. InFlight' \subseteq InFlight
      BY <2>1, <2>2, FlightSets, FlightSetsNext DEF InFlight
    <2> QED BY <2>2, <2>3, SameJobsInFlight
  <1>6. CASE UNCHANGED <<posted, running, graph, data, exporting>>
    <2>1. InFlight' = InFlight
      BY <1>6 DEF InFlight, Dispatched, Ended
    <2> QED BY <1>6, <2>1, SameJobsInFlight
  <1> QED
    BY <1>1, <1>2, <1>3, <1>4, <1>5, <1>6, <1>7
    DEF Next, StartEmpty, EnterEventLoop, LeaveEventLoop, vars, schedulerVars, jobVars, loopVars

\* Every value exported to a job arrives under its alias, exactly once.
THEOREM ExportsDoArrive == Spec => []ExportsArrive
  <1>1. Init => ExportInv
    BY FlightSets DEF Init, ExportInv, InFlight
  <1>2. IInv /\ IInv' /\ ExportInv /\ [Next]_vars => ExportInv'
    BY ExportStep
  <1>3. ExportInv => ExportsArrive
    BY DEF ExportInv, InFlight, Served, ExportsArrive
  <1> QED BY <1>1, <1>2, <1>3, Invariance, PTL DEF Spec

----------------------------------------------------------------------------
(* Refinement.                                                             *)

\* The instance uses the same notion of a predecessor.
LEMMA SamePredecessors ==
    ASSUME NEW g, NEW v
    PROVE  Abstract!PredecessorSet(g, v) = PredecessorSet(g, v)
  BY DEF Abstract!PredecessorSet, Abstract!EdgesInto, PredecessorSet, EdgesInto

\* Every job a verdict leaves out still waits for another one of them.
LEMMA NoneEligible ==
    ASSUME IInv, LeaveEventLoop
    PROVE  Abstract!Eligible = {}
  <1>1. posted = <<>> /\ running = <<>> /\ ready = <<>>
    BY DEF IInv, Phases, LeaveEventLoop
  <1>2. InFlight = {} /\ Ended = {} /\ Range(ready) = {}
    BY <1>1, FlightSets DEF InFlight, Range
  <1>3. DOMAIN outcome = Range(done) /\ graph.nodes = todo \cup Range(done)
    BY <1>2 DEF IInv, Bookkeeping, OneByOne, LeaveEventLoop
  <1>4. \A j \in todo : ~(PredecessorSet(graph, j) \subseteq Range(done))
    <2> SUFFICES ASSUME NEW j \in todo
                 PROVE  ~(PredecessorSet(graph, j) \subseteq Range(done))
      OBVIOUS
    <2>1. Cardinality(OpenEdges(graph, j, Range(done))) > 0
      BY DEF IInv, CountsExact, OpenEdges, LeaveEventLoop
    <2> QED BY <2>1, OpenEdgesZero DEF IInv, TypeOK
  <1> QED BY <1>3, <1>4, SamePredecessors DEF Abstract!Eligible, Abstract!Executed

\* Each step of the scheduler, the dispatcher and the event loop is a step of
\* the abstract run or leaves it alone.
LEMMA StepRefines ==
    ASSUME IInv, [Next]_vars
    PROVE  [Abstract!Next]_Abstract!vars
  <1>1. CASE StartEmpty
    BY <1>1 DEF StartEmpty, schedulerVars, jobVars, Abstract!vars
  <1>2. CASE Start
    BY <1>2 DEF Start, jobVars, Abstract!vars
  <1>3. CASE EnterEventLoop
    BY <1>3 DEF EnterEventLoop, schedulerVars, jobVars, Abstract!vars
  <1>4. ASSUME NEW j \in Jobs, OnJobFinished(j)
        PROVE  [Abstract!Next]_Abstract!vars
    BY <1>4 DEF OnJobFinished, jobVars, Abstract!vars
  <1>5. ASSUME NEW j \in Jobs, DispatchJob(j)
        PROVE  [Abstract!Next]_Abstract!vars
    <2>1. posted = <<Dispatch(j)>> /\ running = <<>> /\ j \in graph.nodes /\ main = "loop"
      <3>1. posted # <<>> /\ Head(posted) = Dispatch(j) /\ main = "loop"
        BY <1>5 DEF DispatchJob
      <3>2. \A k : Dispatch(j) # Finished(k) /\ (Dispatch(k) = Dispatch(j) => k = j)
        BY DEF Dispatch, Finished
      <3> QED BY <3>1, <3>2 DEF FlightShape, IInv
    <2>2. /\ InFlight = {j} /\ Ended = {} /\ Range(running) = {}
      BY <2>1, FlightSets DEF InFlight
    <2>3. DOMAIN outcome = Range(done) /\ exitCode = NoExit
      BY <2>1, <2>2 DEF IInv, Bookkeeping, Phases
    <2>4. j \in Abstract!Eligible
      BY <2>1, <2>2, <2>3, SamePredecessors DEF IInv, OneByOne, TopologicalOrder,
                               Abstract!Eligible, Abstract!Executed
    <2>5. UNCHANGED <<graph, outcome>>
      BY <1>5 DEF DispatchJob, schedulerVars, jobVars
    <2>6. CASE running' = Append(running, j) /\ UNCHANGED <<main, exitCode>>
      <3>1. running' = <<j>>
        BY <2>1, <2>6
      <3>2. Range(running') = {j}
        BY <3>1 DEF Range
      <3>3. Abstract!Begin(j)
        BY <2>2, <2>3, <2>4, <2>5, <2>6, <3>2 DEF Abstract!Begin
      <3> QED BY <3>3 DEF Abstract!Next
    <2>7. CASE main' = "exited" /\ exitCode' = 1 /\ UNCHANGED running
      <3>1. Abstract!Abort
        BY <2>2, <2>3, <2>5, <2>7 DEF Abstract!Abort
      <3> QED BY <3>1 DEF Abstract!Next
    <2> QED BY <1>5, <2>6, <2>7 DEF DispatchJob
  <1>6. CASE TestcaseEnds
    <2>1. PICK j \in graph.nodes : posted = <<>> /\ running = <<j>>
      BY <1>6 DEF IInv, FlightShape, TestcaseEnds
    <2>2. Last(running) = j /\ Front(running) = <<>>
      BY <2>1 DEF Last, Front
    <2>3. PICK res \in Outcomes :
            outcome' = [k \in DOMAIN outcome \cup {j} |->
                           IF k = j THEN res ELSE outcome[k]]
      BY <1>6, <2>2 DEF TestcaseEnds
    <2>4. /\ running' = <<>> /\ main = "loop" /\ UNCHANGED <<graph, exitCode>>
      BY <1>6, <2>2 DEF TestcaseEnds, schedulerVars
    <2>5. Range(running) = {j} /\ Range(running') = {}
      BY <2>1, <2>4 DEF Range
    <2>6. exitCode = NoExit /\ j \in Jobs
      <3>1. graph.nodes \subseteq Jobs
        BY GraphFacts DEF IInv, TypeOK
      <3> QED BY <2>1, <2>4, <3>1 DEF IInv, Phases
    <2>7. Abstract!End(j, res)
      BY <2>3, <2>4, <2>5, <2>6 DEF Abstract!End, Abstract!Executed
    <2> QED BY <2>6, <2>7 DEF Abstract!Next, Outcomes
  <1>7. CASE LeaveEventLoop
    <2>1. /\ running = <<>> /\ main = "loop"
          /\ exitCode' = IF HasFailed THEN 2 ELSE 0
          /\ UNCHANGED <<graph, outcome, running>>
      BY <1>7 DEF LeaveEventLoop, schedulerVars, jobVars
    <2>2. Range(running) = {} /\ Range(running') = {}
      BY <2>1 DEF Range
    <2>3. exitCode = NoExit
      BY <2>1 DEF IInv, Phases
    <2>4. IInv'
      BY <1>7, LeaveEventLoopIInv
    <2>5. exitCode' \in {0, 2} /\ (exitCode' = 2 <=> HasFailed)
      BY <2>1
    <2>6. exitCode' = IF \E j \in DOMAIN outcome : outcome[j] = "Fail" THEN 2 ELSE 0
      <3>1. VerdictIsTrue'
        BY <2>4 DEF IInv
      <3>2. exitCode' = 2 <=> \E j \in DOMAIN outcome : outcome[j] = "Fail"
        BY <2>1, <2>5, <3>1 DEF VerdictIsTrue
      <3> QED BY <2>5, <3>2
    <2>7. Abstract!Close
      BY <1>7, <2>1, <2>2, <2>3, <2>6, NoneEligible DEF Abstract!Close, Abstract!Executed
    <2> QED BY <2>7 DEF Abstract!Next
  <1>8. CASE UNCHANGED vars
    BY <1>8 DEF vars, schedulerVars, jobVars, loopVars, Abstract!vars
  <1>9. CASE TestcaseExits
    <2>1. /\ running' = <<>> /\ main = "loop" /\ exitCode' = 1 /\ UNCHANGED <<graph, outcome>>
      BY <1>9 DEF TestcaseExits, schedulerVars, jobVars
    <2>2. Range(running') = {}
      BY <2>1 DEF Range
    <2>3. exitCode = NoExit
      BY <2>1 DEF IInv, Phases
    <2>4. Abstract!Abort
      BY <2>1, <2>2, <2>3 DEF Abstract!Abort
    <2> QED BY <2>4 DEF Abstract!Next
  <1> QED BY <1>1, <1>2, <1>3, <1>4, <1>5, <1>6, <1>7, <1>8, <1>9 DEF Next

\* The scheduler, the dispatcher and the event loop implement TopologicalRun.
THEOREM Refinement == Spec => RunsTopologically
  <1>1. Init => Abstract!Init
    BY DEF Init, Abstract!Init, Range
  <1>2. IInv /\ [Next]_vars => [Abstract!Next]_Abstract!vars
    BY StepRefines
  <1> QED BY <1>1, <1>2, Invariance, PTL DEF Spec, Abstract!Spec, RunsTopologically

----------------------------------------------------------------------------
(* Why a run ends: each step leaves less to do, and something is always to *)
(* be delivered.  With the fairness of FairSpec that is EveryRunEnds.      *)

\* What is left to do: the phases of execRunCommand(), and three steps for each job,
\* which is announced, executed and reported.
PhasesLeft ==
    CASE main = "start" -> 4 [] main = "exec" -> 3 [] main = "loop" -> 2 [] OTHER -> 0
StepsOfJob ==
    IF running # <<>> THEN 1
    ELSE IF \E j \in graph.nodes : posted = <<Finished(j)>> THEN 2 ELSE 0
JobsLeft == Cardinality(graph.nodes \ Range(done))
Remaining == PhasesLeft + 3 * JobsLeft - StepsOfJob

\* The event loop has something to deliver or a test case to execute, until it is told
\* to quit; when the program has ended, nothing is left behind.
BusyInv ==
    /\ main \in {"exec", "loop"} /\ graph.nodes # {} =>
          posted # <<>> \/ running # <<>> \/ (main = "loop" /\ quitting)
    /\ main = "exited" => posted = <<>> /\ running = <<>>

\* A posted call is not of the other kind.
LEMMA CallsDiffer ==
    /\ \A j, k : Dispatch(j) # Finished(k)
    /\ \A j, k : (Finished(j) = Finished(k) => j = k) /\ (Dispatch(j) = Dispatch(k) => j = k)
  BY DEF Dispatch, Finished

\* The event loop stays busy.
LEMMA BusyStep == IInv /\ BusyInv /\ [Next]_vars => BusyInv'
  <1> SUFFICES ASSUME IInv, BusyInv, [Next]_vars PROVE BusyInv'
    OBVIOUS
  <1> USE DEF BusyInv
  <1>1. CASE StartEmpty
    BY <1>1 DEF StartEmpty, schedulerVars
  <1>2. CASE Start
    <2>1. posted = <<>> /\ main' = "exec"
      BY <1>2 DEF Start, IInv, Phases
    <2>2. posted' # <<>>
      BY <1>2, <2>1 DEF Start, EmitJobReady
    <2> QED BY <2>1, <2>2
  <1>3. CASE EnterEventLoop
    <2>1. /\ main = "exec" /\ main' = "loop" /\ running = <<>>
          /\ UNCHANGED <<graph, posted, running>>
      BY <1>3 DEF EnterEventLoop, schedulerVars, IInv, Phases
    <2> QED BY <2>1
  <1>4. ASSUME NEW j \in Jobs, DispatchJob(j) PROVE BusyInv'
    <2>1. posted = <<Dispatch(j)>> /\ running = <<>> /\ j \in graph.nodes
      BY <1>4, CallsDiffer DEF DispatchJob, IInv, FlightShape
    <2>2. posted' = <<>>
      BY <1>4, <2>1 DEF DispatchJob
    <2>3. \/ running' = <<j>> /\ main' = "loop"
          \/ running' = <<>> /\ main' = "exited"
      BY <1>4, <2>1 DEF DispatchJob
    <2> QED BY <2>2, <2>3
  <1>5. ASSUME NEW j \in Jobs, OnJobFinished(j) PROVE BusyInv'
    <2>1. posted = <<Finished(j)>> /\ running = <<>> /\ main' = "loop"
      BY <1>5, CallsDiffer DEF OnJobFinished, IInv, FlightShape
    <2>2. posted' # <<>> \/ quitting'
      BY <1>5, <2>1 DEF OnJobFinished, EmitJobReady, EmitFinished
    <2> QED BY <2>1, <2>2
  <1>6. CASE TestcaseEnds
    <2>1. posted = <<>> /\ main' = "loop" /\ posted' # <<>>
      <3>1. posted = <<>>
        BY <1>6 DEF TestcaseEnds, IInv, FlightShape
      <3> QED BY <1>6, <3>1 DEF TestcaseEnds
    <2> QED BY <2>1
  <1>7. CASE LeaveEventLoop
    <2>1. posted = <<>> /\ running = <<>>
      BY <1>7 DEF LeaveEventLoop, IInv, Phases
    <2> QED BY <1>7, <2>1 DEF LeaveEventLoop
  <1>8. CASE UNCHANGED vars
    BY <1>8 DEF vars, schedulerVars, loopVars
  <1>9. CASE TestcaseExits
    <2>1. posted' = <<>> /\ running' = <<>> /\ main' = "exited"
      BY <1>9 DEF TestcaseExits, IInv, FlightShape
    <2> QED BY <2>1
  <1> QED BY <1>1, <1>2, <1>3, <1>4, <1>5, <1>6, <1>7, <1>8, <1>9 DEF Next

\* How many jobs are left is a number, and one less when one is done.
LEMMA JobsAreLeft ==
    ASSUME IInv
    PROVE  /\ JobsLeft \in Nat
           /\ \A j \in graph.nodes \ Range(done) :
                /\ JobsLeft >= 1
                /\ Cardinality(graph.nodes \ (Range(done) \cup {j})) = JobsLeft - 1
  <1>1. IsFiniteSet(graph.nodes)
    BY GraphFacts DEF IInv, TypeOK
  <1>2. IsFiniteSet(graph.nodes \ Range(done))
    BY <1>1, FS_Subset
  <1>3. JobsLeft \in Nat
    BY <1>2, FS_CardinalityType DEF JobsLeft
  <1>4. ASSUME NEW j \in graph.nodes \ Range(done)
        PROVE  /\ JobsLeft >= 1
               /\ Cardinality(graph.nodes \ (Range(done) \cup {j})) = JobsLeft - 1
    <2>1. /\ IsFiniteSet((graph.nodes \ Range(done)) \ {j})
          /\ Cardinality((graph.nodes \ Range(done)) \ {j}) = JobsLeft - 1
      BY <1>2, FS_RemoveElement DEF JobsLeft
    <2>2. Cardinality((graph.nodes \ Range(done)) \ {j}) \in Nat
      BY <2>1, FS_CardinalityType
    <2>3. (graph.nodes \ Range(done)) \ {j} = graph.nodes \ (Range(done) \cup {j})
      OBVIOUS
    <2> QED BY <1>3, <2>1, <2>2, <2>3
  <1> QED BY <1>3, <1>4

\* A job that is being executed or reported is not done.
LEMMA InFlightIsLeft ==
    ASSUME IInv, BusyInv
    PROVE  /\ \A j : running = <<j>> \/ posted = <<Finished(j)>> => j \in graph.nodes \ Range(done)
           /\ StepsOfJob \in {0, 1, 2} /\ (StepsOfJob > 0 => JobsLeft >= 1)
  <1>1. ASSUME NEW j, running = <<j>> \/ posted = <<Finished(j)>>
        PROVE  j \in graph.nodes \ Range(done)
    <2>1. main \in {"exec", "loop"}
      <3>1. main # "exited"
        BY <1>1 DEF BusyInv
      <3>2. main # "start"
        BY <1>1 DEF IInv, Phases
      <3> QED BY <3>1, <3>2 DEF IInv, TypeOK
    <2>2. j \in graph.nodes
      BY <1>1, CallsDiffer DEF IInv, FlightShape
    <2>3. j \in InFlight
      BY <1>1, FlightSets DEF InFlight
    <2> QED BY <2>1, <2>2, <2>3 DEF IInv, OneByOne
  <1>2. StepsOfJob > 0 => \E j : running = <<j>> \/ posted = <<Finished(j)>>
    BY DEF StepsOfJob, IInv, FlightShape
  <1> QED BY <1>1, <1>2, JobsAreLeft DEF StepsOfJob

\* What is left to do is a natural number.
LEMMA RemainingIsNatural == IInv /\ BusyInv => Remaining \in Nat
  <1> SUFFICES ASSUME IInv, BusyInv PROVE Remaining \in Nat
    OBVIOUS
  <1>1. JobsLeft \in Nat
    BY JobsAreLeft
  <1>2. StepsOfJob \in {0, 1, 2} /\ (StepsOfJob > 0 => JobsLeft >= 1)
    BY InFlightIsLeft
  <1>3. PhasesLeft \in Nat
    BY DEF PhasesLeft
  <1> QED BY <1>1, <1>2, <1>3 DEF Remaining

\* Each step of the scheduler, the dispatcher or the event loop leaves less to do.
LEMMA StepShrinks == IInv /\ BusyInv /\ Next => Remaining' < Remaining
  <1> SUFFICES ASSUME IInv, BusyInv, Next PROVE Remaining' < Remaining
    OBVIOUS
  <1>1. JobsLeft \in Nat /\ PhasesLeft \in Nat /\ StepsOfJob \in {0, 1, 2}
    BY JobsAreLeft, InFlightIsLeft DEF PhasesLeft
  <1>2. ASSUME UNCHANGED <<graph, done>>, PhasesLeft' < PhasesLeft, StepsOfJob = 0, StepsOfJob' = 0,
               PhasesLeft' \in Nat
        PROVE  Remaining' < Remaining
    <2>1. JobsLeft' = JobsLeft
      BY <1>2 DEF JobsLeft
    <2>2. Remaining = PhasesLeft + 3 * JobsLeft /\ Remaining' = PhasesLeft' + 3 * JobsLeft
      BY <1>1, <1>2, <2>1 DEF Remaining
    <2>3. \A p, q, n \in Nat : p < q => p + 3 * n < q + 3 * n
      OBVIOUS
    <2> QED BY <1>1, <1>2, <2>2, <2>3
  <1>3. CASE StartEmpty
    <2>1. /\ UNCHANGED <<graph, done>> /\ StepsOfJob = 0 /\ StepsOfJob' = 0
          /\ PhasesLeft = 4 /\ PhasesLeft' = 3
      BY <1>3 DEF StartEmpty, schedulerVars, StepsOfJob, PhasesLeft, IInv, Phases
    <2> QED BY <1>2, <2>1
  <1>4. CASE Start
    <2>1. /\ UNCHANGED <<graph, done, running>> /\ running = <<>> /\ posted = <<>>
          /\ PhasesLeft = 4 /\ PhasesLeft' = 3
      BY <1>4 DEF Start, PhasesLeft, IInv, Phases
    <2>2. \E j : posted' = <<Dispatch(j)>>
      BY <1>4, <2>1 DEF Start, EmitJobReady
    <2>3. StepsOfJob = 0 /\ StepsOfJob' = 0
      BY <2>1, <2>2, CallsDiffer DEF StepsOfJob
    <2> QED BY <1>2, <2>1, <2>3
  <1>5. CASE EnterEventLoop
    <2>1. /\ UNCHANGED <<graph, done, running, posted>> /\ running = <<>> /\ Ended = {}
          /\ PhasesLeft = 3 /\ PhasesLeft' = 2
      BY <1>5 DEF EnterEventLoop, schedulerVars, PhasesLeft, IInv, Phases
    <2>2. StepsOfJob = 0 /\ StepsOfJob' = 0
      BY <2>1, FlightSets DEF StepsOfJob
    <2> QED BY <1>2, <2>1, <2>2
  <1>6. ASSUME NEW j \in Jobs, DispatchJob(j) PROVE Remaining' < Remaining
    <2>1. posted = <<Dispatch(j)>> /\ running = <<>> /\ main = "loop" /\ UNCHANGED <<graph, done>>
      BY <1>6, CallsDiffer DEF DispatchJob, schedulerVars, IInv, FlightShape
    <2>2. StepsOfJob = 0 /\ PhasesLeft = 2 /\ posted' = <<>> /\ JobsLeft' = JobsLeft
      BY <1>6, <2>1, CallsDiffer DEF DispatchJob, StepsOfJob, PhasesLeft, JobsLeft
    <2>3. \/ running' = <<j>> /\ main' = "loop"
          \/ running' = <<>> /\ main' = "exited"
      BY <1>6, <2>1 DEF DispatchJob
    <2>4. CASE running' = <<j>> /\ main' = "loop"
      <3>1. StepsOfJob' = 1 /\ PhasesLeft' = 2
        BY <2>4 DEF StepsOfJob, PhasesLeft
      <3> QED BY <1>1, <2>2, <3>1 DEF Remaining
    <2>5. CASE running' = <<>> /\ main' = "exited"
      <3>1. StepsOfJob' = 0 /\ PhasesLeft' = 0
        BY <2>2, <2>5 DEF StepsOfJob, PhasesLeft
      <3> QED BY <1>1, <2>2, <3>1 DEF Remaining
    <2> QED BY <2>3, <2>4, <2>5
  <1>7. ASSUME NEW j \in Jobs, OnJobFinished(j) PROVE Remaining' < Remaining
    <2>1. /\ posted = <<Finished(j)>> /\ running = <<>> /\ main = "loop" /\ j \in graph.nodes
          /\ UNCHANGED <<graph, running, main>> /\ done' = Append(done, j)
      <3>1. /\ posted # <<>> /\ Head(posted) = Finished(j) /\ main = "loop"
            /\ UNCHANGED <<graph, running, main>> /\ done' = Append(done, j)
        BY <1>7 DEF OnJobFinished
      <3>2. posted = <<Finished(j)>> /\ running = <<>> /\ j \in graph.nodes
        BY <3>1, CallsDiffer DEF IInv, FlightShape
      <3> QED BY <3>1, <3>2
    <2>2. StepsOfJob = 2 /\ PhasesLeft' = PhasesLeft
      BY <2>1 DEF StepsOfJob, PhasesLeft
    <2>3. posted' = <<>> \/ \E k : posted' = <<Dispatch(k)>>
      BY <1>7, <2>1 DEF OnJobFinished, EmitJobReady
    <2>4. StepsOfJob' = 0
      BY <2>1, <2>3, CallsDiffer DEF StepsOfJob
    <2>5. Range(done') = Range(done) \cup {j}
      <3>1. done \in Seq(graph.nodes)
        BY DEF IInv, TypeOK
      <3> QED BY <2>1, <3>1, RangeAppend
    <2>6. j \in graph.nodes \ Range(done)
      BY <2>1, InFlightIsLeft
    <2>7. JobsLeft' = JobsLeft - 1
      BY <2>1, <2>5, <2>6, JobsAreLeft DEF JobsLeft
    <2> QED BY <1>1, <2>2, <2>4, <2>7 DEF Remaining
  <1>8. CASE TestcaseEnds
    <2>1. PICK j \in graph.nodes : posted = <<>> /\ running = <<j>>
      BY <1>8 DEF TestcaseEnds, IInv, FlightShape
    <2>2. Last(running) = j /\ Front(running) = <<>>
      BY <2>1 DEF Last, Front
    <2>3. posted' = <<Finished(j)>> /\ running' = <<>> /\ UNCHANGED <<graph, done, main>>
      BY <1>8, <2>1, <2>2 DEF TestcaseEnds, schedulerVars
    <2>4. StepsOfJob = 1 /\ StepsOfJob' = 2 /\ JobsLeft' = JobsLeft /\ PhasesLeft' = PhasesLeft
      BY <2>1, <2>3 DEF StepsOfJob, JobsLeft, PhasesLeft
    <2> QED BY <1>1, <2>4 DEF Remaining
  <1>9. CASE LeaveEventLoop
    <2>1. /\ posted = <<>> /\ running = <<>> /\ UNCHANGED <<graph, done, posted, running>>
          /\ PhasesLeft = 2 /\ PhasesLeft' = 0
      BY <1>9 DEF LeaveEventLoop, schedulerVars, PhasesLeft, IInv, Phases
    <2>2. StepsOfJob = 0 /\ StepsOfJob' = 0
      BY <2>1 DEF StepsOfJob
    <2> QED BY <1>2, <2>1, <2>2
  <1>10. CASE TestcaseExits
    <2>1. PICK j \in graph.nodes : posted = <<>> /\ running = <<j>>
      BY <1>10 DEF TestcaseExits, IInv, FlightShape
    <2>2. /\ posted' = <<>> /\ running' = <<>> /\ UNCHANGED <<graph, done>>
          /\ main = "loop" /\ main' = "exited"
      BY <1>10, <2>1 DEF TestcaseExits, schedulerVars
    <2>3. StepsOfJob = 1 /\ StepsOfJob' = 0 /\ JobsLeft' = JobsLeft /\ PhasesLeft = 2 /\ PhasesLeft' = 0
      BY <2>1, <2>2 DEF StepsOfJob, JobsLeft, PhasesLeft
    <2>4. Remaining = PhasesLeft + 3 * JobsLeft - StepsOfJob /\ Remaining' = PhasesLeft' + 3 * JobsLeft' - StepsOfJob'
      BY DEF Remaining
    <2> QED BY <1>1, <2>3, <2>4
  <1> QED BY <1>3, <1>4, <1>5, <1>6, <1>7, <1>8, <1>9, <1>10 DEF Next

\* The invariant about the event loop holds in every reachable state.
LEMMA BusyInvariance == Spec => [](IInv /\ BusyInv)
  <1>1. Init => BusyInv
    BY DEF Init, BusyInv
  <1>2. IInv /\ BusyInv /\ [Next]_vars => BusyInv'
    BY BusyStep
  <1> QED BY <1>1, <1>2, Invariance, PTL DEF Spec

\* A run takes finitely many steps, whatever the graph: what is left to do is a natural
\* number, and every step of the program makes it smaller.
THEOREM RunsShrink == Spec => [](Remaining \in Nat) /\ [][Remaining' < Remaining]_vars
  <1>1. IInv /\ BusyInv => Remaining \in Nat
    BY RemainingIsNatural
  <1>2. IInv /\ BusyInv /\ [Next]_vars => [Remaining' < Remaining]_vars
    BY StepShrinks
  <1> QED BY <1>1, <1>2, BusyInvariance, PTL DEF Spec

\* The members of a finite set can be listed in the order of a key that tells them apart.
LEMMA ListingsExist ==
    ASSUME NEW S, IsFiniteSet(S), NEW key, \A s \in S : key[s] \in Nat,
           \A s, t \in S : key[s] = key[t] => s = t
    PROVE  Listings(S, key) # {}
  <1> DEFINE Bad == {T \in SUBSET S : Listings(T, key) = {}}
             Sizes == {Cardinality(T) : T \in Bad}
  <1> SUFFICES ASSUME S \in Bad PROVE FALSE
    OBVIOUS
  <1>1. \A T \in SUBSET S : IsFiniteSet(T) /\ Cardinality(T) \in Nat
    BY FS_Subset, FS_CardinalityType
  <1>2. PICK T \in Bad : \A U \in Bad : Cardinality(T) <= Cardinality(U)
    <2>1. Sizes \in SUBSET Nat /\ Sizes # {}
      BY <1>1
    <2> HIDE DEF Sizes, Bad
    <2>2. PICK n \in Sizes : \A k \in Sizes : n <= k
      BY <2>1, LeastOfNumbers
    <2> QED BY <2>2 DEF Sizes
  <1>3. IsFiniteSet(T) /\ Cardinality(T) \in Nat /\ T \in SUBSET S
    BY <1>1, <1>2
  <1>4. T # {}
    <2> SUFFICES ASSUME T = {} PROVE FALSE
      OBVIOUS
    <2>1. Cardinality(T) = 0
      BY FS_EmptySet
    <2>2. <<>> \in Bijection(1..0, {})
      BY DEF Bijection, Injection, Surjection, IsInjective
    <2>3. <<>> \in Listings(T, key)
      BY <2>1, <2>2 DEF Listings
    <2> QED BY <1>2, <2>3
  <1>5. PICK m \in T : \A t \in T : key[m] <= key[t]
    <2> DEFINE Keys == {key[t] : t \in T}
    <2>1. Keys \in SUBSET Nat /\ Keys # {}
      BY <1>3, <1>4
    <2> HIDE DEF Keys
    <2>2. PICK k \in Keys : \A l \in Keys : k <= l
      BY <2>1, LeastOfNumbers
    <2> QED BY <2>2 DEF Keys
  <1>6. PICK c \in Nat : Cardinality(T \ {m}) = c /\ Cardinality(T) = c + 1
    <2>1. IsFiniteSet(T \ {m}) /\ Cardinality(T \ {m}) = Cardinality(T) - 1
      BY <1>3, FS_RemoveElement
    <2>2. Cardinality(T \ {m}) \in Nat
      BY <2>1, FS_CardinalityType
    <2> QED BY <1>3, <2>1, <2>2
  <1>7. PICK q : q \in Listings(T \ {m}, key)
    <2>1. T \ {m} \in SUBSET S /\ ~(Cardinality(T) <= Cardinality(T \ {m}))
      BY <1>3, <1>6
    <2>2. T \ {m} \notin Bad
      BY <1>2, <2>1
    <2> QED BY <2>1, <2>2
  <1>8. /\ q \in [1..c -> T \ {m}]
        /\ \A t \in T \ {m} : \E i \in 1..c : q[i] = t
        /\ \A i, k \in 1..c : i < k => key[q[i]] < key[q[k]]
        /\ \A i, k \in 1..c : q[i] = q[k] => i = k
    BY <1>6, <1>7 DEF Listings, Bijection, Injection, Surjection, IsInjective
  <1> DEFINE p == [i \in 1..c + 1 |-> IF i = 1 THEN m ELSE q[i - 1]]
  <1>9. \A i \in 1..c + 1 : i # 1 => i - 1 \in 1..c /\ p[i] = q[i - 1] /\ p[i] \in T \ {m}
    BY <1>8
  <1>10. p \in [1..c + 1 -> T] /\ p[1] = m
    BY <1>9
  <1>11. \A t \in T : \E i \in 1..c + 1 : p[i] = t
    <2> SUFFICES ASSUME NEW t \in T \ {m} PROVE \E i \in 1..c + 1 : p[i] = t
      BY <1>10
    <2>1. PICK i \in 1..c : q[i] = t
      BY <1>8
    <2>2. i + 1 \in 1..c + 1 /\ p[i + 1] = t
      BY <2>1
    <2> QED BY <2>2
  <1> HIDE DEF p
  <1>12. ASSUME NEW i \in 1..c + 1, NEW k \in 1..c + 1, i < k
         PROVE  key[p[i]] < key[p[k]]
    <2>1. k # 1 /\ k - 1 \in 1..c /\ p[k] = q[k - 1] /\ p[k] \in T \ {m}
      BY <1>9, <1>12
    <2>2. CASE i = 1
      <3>1. key[m] <= key[p[k]] /\ key[m] # key[p[k]] /\ key[m] \in Nat /\ key[p[k]] \in Nat
        BY <1>3, <1>5, <2>1
      <3> QED BY <1>10, <2>2, <3>1
    <2>3. CASE i # 1
      <3>1. i - 1 \in 1..c /\ p[i] = q[i - 1] /\ i - 1 < k - 1
        BY <1>9, <1>12, <2>3
      <3> QED BY <1>8, <2>1, <3>1
    <2> QED BY <2>2, <2>3
  <1>13. \A i, k \in 1..c + 1 : p[i] = p[k] => i = k
    <2> SUFFICES ASSUME NEW i \in 1..c + 1, NEW k \in 1..c + 1, p[i] = p[k], i < k PROVE FALSE
      OBVIOUS
    <2>1. key[p[i]] < key[p[k]] /\ key[p[i]] \in Nat
      BY <1>3, <1>10, <1>12
    <2> QED BY <2>1
  <1>14. p \in Bijection(1..c + 1, T)
    BY <1>10, <1>11, <1>13 DEF Bijection, Injection, Surjection, IsInjective
  <1>15. p \in Listings(T, key)
    <2>1. DOMAIN p = 1..c + 1
      BY <1>10
    <2> QED BY <1>6, <1>12, <1>14, <2>1 DEF Listings
  <1> QED BY <1>2, <1>15

\* The order in which jobs are released tells them apart, and so do the numbers of jobs.
LEMMA JobsCanBeListed ==
    ASSUME IInv
    PROVE  /\ Listings(Roots(graph), [j \in Jobs |-> j]) # {}
           /\ \A f \in graph.nodes : Listings(Released(f), ReleaseOrder(f)) # {}
  <1>1. /\ graph \in JobGraphs /\ todo \subseteq graph.nodes
        /\ graph.nodes \subseteq Jobs /\ IsFiniteSet(graph.nodes)
        /\ DOMAIN graph.edges = 1..Len(graph.edges) /\ Len(graph.edges) \in Nat
    BY GraphFacts DEF IInv, TypeOK
  <1>2. Listings(Roots(graph), [j \in Jobs |-> j]) # {}
    <2> DEFINE key == [j \in Jobs |-> j]
    <2>1. IsFiniteSet(Roots(graph)) /\ Roots(graph) \subseteq Jobs
      BY <1>1, RootsFacts
    <2>2. \A s \in Roots(graph) : key[s] = s /\ key[s] \in Nat
      BY <2>1, JobsAssumption
    <2> HIDE DEF key
    <2>3. Listings(Roots(graph), key) # {}
      BY <2>1, <2>2, ListingsExist
    <2> QED BY <2>3 DEF key
  <1>3. ASSUME NEW f \in graph.nodes PROVE Listings(Released(f), ReleaseOrder(f)) # {}
    <2>1. Released(f) \in SUBSET graph.nodes
      BY <1>1 DEF Released
    <2>2. IsFiniteSet(Released(f))
      BY <1>1, <2>1, FS_Subset
    <2>3. ASSUME NEW j \in Released(f) PROVE OldestEdge(f, j) \in EdgesBetween(graph, f, j)
      <3> DEFINE E == EdgesBetween(graph, f, j)
      <3>1. E \in SUBSET Nat
        BY <1>1 DEF EdgesBetween, EdgesInto
      <3>2. E # {}
        BY FS_EmptySet DEF Released, Multiplicity
      <3> HIDE DEF E
      <3>3. \E i \in E : \A k \in E : i <= k
        BY <3>1, <3>2, LeastOfNumbers
      <3> QED BY <3>3 DEF OldestEdge, E
    <2>4. \A j \in Released(f) : /\ OldestEdge(f, j) \in 1..Len(graph.edges)
                                 /\ graph.edges[OldestEdge(f, j)].succ = j
      BY <1>1, <2>3 DEF EdgesBetween, EdgesInto
    <2> DEFINE key == ReleaseOrder(f)
    <2>5. \A j \in Released(f) : key[j] = Len(graph.edges) - OldestEdge(f, j)
      BY DEF ReleaseOrder
    <2> HIDE DEF key
    <2>6. \A j \in Released(f) : key[j] \in Nat
      BY <1>1, <2>4, <2>5
    <2>7. \A i, j \in Released(f) : key[i] = key[j] => i = j
      <3> SUFFICES ASSUME NEW i \in Released(f), NEW j \in Released(f), key[i] = key[j] PROVE i = j
        OBVIOUS
      <3>1. OldestEdge(f, i) = OldestEdge(f, j)
        BY <1>1, <2>4, <2>5
      <3> QED BY <2>4, <3>1
    <2>8. Listings(Released(f), key) # {}
      BY <2>2, <2>6, <2>7, ListingsExist
    <2> QED BY <2>8 DEF key
  <1> QED BY <1>2, <1>3

\* What there is to do before the program has exited: jobs can be listed for the start,
\* the event loop is to be entered or left, a call waits that can be made, or a test
\* case is executed.
CallWaits(j) ==
    \/ posted = <<Dispatch(j)>>
    \/ posted = <<Finished(j)>> /\ Listings(Released(j), ReleaseOrder(j)) # {}
ToBeDone ==
    \/ main = "start" /\ Roots(graph) # {} /\ Listings(Roots(graph), [j \in Jobs |-> j]) # {}
    \/ main = "exec"
    \/ main = "loop" /\ ((\E j \in Jobs : CallWaits(j) \/ running = <<j>>) \/ (quitting /\ running = <<>>))

\* A run over a graph with a root does not get stuck: no order of calls leaves the
\* program waiting in its event loop for a job that nobody will report as finished.
THEOREM RunsNeverStick ==
    Spec => [](graph.nodes # {} /\ (main = "start" => Roots(graph) # {}) => main = "exited" \/ ToBeDone)
  <1>1. IInv /\ BusyInv =>
            (graph.nodes # {} /\ (main = "start" => Roots(graph) # {}) => main = "exited" \/ ToBeDone)
    <2> SUFFICES ASSUME IInv, BusyInv, graph.nodes # {}, main = "start" => Roots(graph) # {},
                        main # "exited"
                 PROVE  ToBeDone
      OBVIOUS
    <2>1. main \in {"start", "exec", "loop"} /\ graph.nodes \subseteq Jobs
      BY GraphFacts DEF IInv, TypeOK
    <2>2. CASE main = "loop"
      BY <2>1, <2>2, JobsCanBeListed DEF ToBeDone, CallWaits, BusyInv, IInv, FlightShape, Phases
    <2> QED BY <2>1, <2>2, JobsCanBeListed DEF ToBeDone
  <1> QED BY <1>1, BusyInvariance, PTL

=============================================================================
