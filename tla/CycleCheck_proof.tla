-------------------------- MODULE CycleCheck_proof --------------------------
(***************************************************************************)
(* Proofs about the search for cyclic dependencies.  The search follows    *)
(* one edge out of each test case, the newest Depends item.  A set that is *)
(* closed under this edge is found by the search as soon as one of its     *)
(* members is visited; no induction over the path is needed, because the   *)
(* invariant says of all members of the path at once whether such a set    *)
(* contains them.  A number that every step diminishes shows that the      *)
(* search comes to a verdict.                                              *)
(***************************************************************************)
EXTENDS CycleCheck, FiniteSetTheorems, WellFoundedInduction, TLAPS

\* The search that enters S never leaves it, and never ends in it.
FollowClosed(S) ==
    \A v \in S : /\ EdgesInto(graph, v) # {}
                 /\ \A i \in Newest(EdgesInto(graph, v)) : graph.edges[i].pred \in S

\* While a project is searched, it is sane; otherwise nothing is in progress.
PhaseInv ==
    /\ verdict \in {"searching", "accepted"} => IsSaneProject
    /\ verdict # "searching" => call = {} /\ path = <<>>
    /\ verdict = "sanity" => visited = {}

\* The calls in progress form a path along the Depends items.
PathInv ==
    /\ call = {} => path = <<>>
    /\ call # {} => marked = Range(path)
    /\ Range(path) \subseteq visited
    /\ \A n \in 1..(Len(path) - 1) :
          \E i \in EdgesInto(graph, path[n]) : graph.edges[i].pred = path[n + 1]
    /\ path # <<>> =>
          \A v \in call : \E i \in EdgesInto(graph, path[Len(path)]) : graph.edges[i].pred = v

\* Without a report, no closed set contains a node whose search has ended, and
\* one that contains a node of the path contains the node searched next.
SearchInv ==
    /\ verdict = "searching" =>
          graph.nodes \subseteq rest \cup visited \cup (IF path = <<>> THEN call ELSE {})
    /\ verdict = "searching" /\ errors = <<>> =>
          \A S \in SUBSET graph.nodes : FollowClosed(S) =>
              /\ S \cap (visited \ Range(path)) = {}
              /\ S \cap Range(path) # {} => call \subseteq S

AcceptInv ==
    verdict = "accepted" =>
        \A S \in SUBSET graph.nodes : FollowClosed(S) => S = {}

\* The test cases that have been reported are visited and not on the path.
ReportInv ==
    /\ \A i \in DOMAIN errors : errors[i].succ \in visited \ Range(path)
    /\ ReportedOnce
    /\ ReportsAreCycles

IInv ==
    /\ graph \in Projects
    /\ TypeOK
    /\ PhaseInv
    /\ PathInv
    /\ SearchInv
    /\ AcceptInv
    /\ ReportInv

----------------------------------------------------------------------------
(* Facts about sequences and graphs                                        *)

LEMMA AppendFacts ==
    ASSUME NEW S, NEW s \in Seq(S), NEW e \in S
    PROVE  /\ Append(s, e) \in Seq(S)
           /\ Range(Append(s, e)) = Range(s) \cup {e}
           /\ Len(Append(s, e)) = Len(s) + 1
           /\ Append(s, e)[Len(s) + 1] = e
           /\ \A n \in 1..Len(s) : Append(s, e)[n] = s[n]
           /\ DOMAIN Append(s, e) = 1..(Len(s) + 1)
           /\ DOMAIN s = 1..Len(s)
           /\ Append(s, e) # <<>>
  BY DEF Range

LEMMA RangeEmpty == Range(<<>>) = {}
  BY DEF Range

LEMMA ProjectFacts ==
    ASSUME NEW g \in Projects
    PROVE  /\ g.nodes \subseteq Names
           /\ g.edges \in Seq([pred : Names, succ : Names, alias : Aliases])
           /\ DOMAIN g.edges = 1..Len(g.edges)
           /\ \A i \in DOMAIN g.edges :
                 /\ g.edges[i] \in [pred : Names, succ : Names, alias : Aliases]
                 /\ g.edges[i].succ \in g.nodes
  <1>1. /\ g \in [nodes : SUBSET Names,
                  edges : Seq([pred : Names, succ : Names, alias : Aliases])]
        /\ \A i \in DOMAIN g.edges : g.edges[i].succ \in g.nodes
    BY ProjectsAssumption
  <1>2. /\ g.nodes \subseteq Names
        /\ g.edges \in Seq([pred : Names, succ : Names, alias : Aliases])
    BY <1>1
  <1>3. DOMAIN g.edges = 1..Len(g.edges)
    BY <1>2
  <1>4. \A R, s : s \in Seq(R) => \A i \in DOMAIN s : s[i] \in R
    OBVIOUS
  <1>5. \A i \in DOMAIN g.edges :
            g.edges[i] \in [pred : Names, succ : Names, alias : Aliases]
    BY <1>2, <1>4
  <1> QED BY <1>1, <1>2, <1>3, <1>5

\* Of a sane project, every Depends item leads from one test case to another.
LEMMA SaneFacts ==
    ASSUME graph \in Projects, IsSaneProject, NEW i \in DOMAIN graph.edges
    PROVE  graph.edges[i].pred \in graph.nodes
  BY DEF IsSaneProject, IsSane

\* FollowClosed depends on the graph only.
LEMMA FollowClosedNext ==
    ASSUME graph' = graph, NEW S
    PROVE  FollowClosed(S)' <=> FollowClosed(S)
  BY DEF FollowClosed

----------------------------------------------------------------------------
(* The invariant                                                           *)

LEMMA InitIInv == Init => IInv
  <1> SUFFICES ASSUME Init PROVE IInv
    OBVIOUS
  <1> USE DEF Init
  <1>1. graph \in Projects /\ TypeOK
    <2>1. graph \in [nodes : SUBSET Names,
                     edges : Seq([pred : Names, succ : Names, alias : Aliases])]
      BY ProjectsAssumption
    <2>2. /\ path \in Seq(graph.nodes)
          /\ errors \in Seq([pred : Names, succ : Names, alias : Aliases])
      OBVIOUS
    <2> QED BY <2>1, <2>2 DEF TypeOK
  <1>2. PhaseInv /\ SearchInv /\ AcceptInv
    BY DEF PhaseInv, SearchInv, AcceptInv
  <1>3. PathInv
    BY RangeEmpty DEF PathInv
  <1>4. ReportInv
    BY DEF ReportInv, ReportedOnce, ReportsAreCycles
  <1> QED BY <1>1, <1>2, <1>3, <1>4 DEF IInv

LEMMA SanityCheckIInv == IInv /\ SanityCheck => IInv'
  <1> SUFFICES ASSUME IInv, SanityCheck PROVE IInv'
    OBVIOUS
  <1> USE DEF SanityCheck
  <1>1. graph' \in Projects /\ TypeOK'
    BY DEF IInv, TypeOK, Reject
  <1>2. PhaseInv'
    BY DEF IInv, PhaseInv, IsSaneProject, IsSane, Reject
  <1>3. PathInv'
    BY DEF IInv, PathInv, Range
  <1>4. SearchInv'
    <2>1. visited' = {} /\ path' = <<>>
      BY DEF IInv, PhaseInv
    <2>2. Range(path)' = {}
      BY <2>1, RangeEmpty
    <2>3. verdict' = "searching" => rest' = graph'.nodes
      BY DEF Reject
    <2> QED BY <2>1, <2>2, <2>3 DEF SearchInv
  <1>5. AcceptInv' /\ ReportInv'
    BY DEF IInv, AcceptInv, ReportInv, ReportedOnce, ReportsAreCycles, Reject, Range,
           IsCyclicCore, PredecessorSet, EdgesInto
  <1> QED BY <1>1, <1>2, <1>3, <1>4, <1>5 DEF IInv

LEMMA TryNodeIInv == \A v \in Names : IInv /\ TryNode(v) => IInv'
  <1> SUFFICES ASSUME NEW v \in Names, IInv, TryNode(v) PROVE IInv'
    OBVIOUS
  <1> USE DEF TryNode
  <1>0. Range(path) = {} /\ Range(path)' = {}
    BY RangeEmpty
  <1>1. graph' \in Projects /\ TypeOK'
    BY DEF IInv, TypeOK, FreshMarks
  <1>2. PhaseInv'
    BY DEF IInv, PhaseInv, IsSaneProject, IsSane
  <1>3. PathInv'
    BY <1>0 DEF IInv, PathInv, FreshMarks
  <1>4. SearchInv'
    <2>1. \A S : FollowClosed(S)' <=> FollowClosed(S)
      BY FollowClosedNext
    <2> QED BY <1>0, <2>1 DEF IInv, SearchInv
  <1>5. AcceptInv'
    BY DEF AcceptInv
  <1>6. ReportInv'
    BY <1>0, SMTT(30) DEF IInv, ReportInv, ReportedOnce, ReportsAreCycles,
                IsCyclicCore, PredecessorSet, EdgesInto
  <1> QED BY <1>1, <1>2, <1>3, <1>4, <1>5, <1>6 DEF IInv

\* The search ends in v, which is therefore in no closed set.
LEMMA ReturnSearchInv ==
    ASSUME NEW v \in graph.nodes, IInv, verdict = "searching", call = {v}, Return,
           UNCHANGED <<graph, rest, errors, verdict>>,
           visited' = visited \cup {v},
           errors = <<>> => \A S \in SUBSET graph.nodes : FollowClosed(S) => v \notin S
    PROVE  SearchInv'
  <1>1. \A S : FollowClosed(S)' <=> FollowClosed(S)
    BY FollowClosedNext
  <1>2. Range(path)' = {} /\ path' = <<>> /\ call' = {}
    BY RangeEmpty DEF Return
  <1>3. graph'.nodes \subseteq rest' \cup visited'
    BY DEF IInv, SearchInv
  <1>4. ASSUME errors = <<>>, NEW S \in SUBSET graph.nodes, FollowClosed(S)
        PROVE  S \cap visited' = {}
    <2>1. v \notin S
      BY <1>4
    <2>2. S \cap (visited \ Range(path)) = {} /\ S \cap Range(path) = {}
      BY <1>4, <2>1 DEF IInv, SearchInv
    <2> QED BY <2>1, <2>2
  <1> QED BY <1>1, <1>2, <1>3, <1>4 DEF SearchInv

LEMMA CloseCycleIInv == \A v \in Names : IInv /\ CloseCycle(v) => IInv'
  <1> SUFFICES ASSUME NEW v \in Names, IInv, CloseCycle(v) PROVE IInv'
    OBVIOUS
  <1> USE DEF CloseCycle, Return, Closes
  <1>0. /\ path \in Seq(graph.nodes) /\ graph \in Projects
        /\ Range(path)' = {} /\ v \in Range(path)
        /\ verdict = "searching" /\ v \in graph.nodes
    BY RangeEmpty DEF IInv, TypeOK, PathInv, PhaseInv
  <1>1. path # <<>> /\ Len(path) \in Nat \ {0} /\ Last(path) = path[Len(path)]
    BY <1>0, RangeEmpty DEF Last
  <1>2. PICK i \in Newest(EdgesBetween(graph, v, path[Len(path)])) :
             errors' = Append(errors, graph.edges[i])
    BY <1>1
  <1>3. /\ i \in DOMAIN graph.edges
        /\ graph.edges[i].pred = v /\ graph.edges[i].succ = path[Len(path)]
        /\ graph.edges[i] \in [pred : Names, succ : Names, alias : Aliases]
    BY <1>0, ProjectFacts DEF Newest, EdgesBetween, EdgesInto, EdgesFrom
  <1>4. errors \in Seq([pred : Names, succ : Names, alias : Aliases])
    BY DEF IInv, TypeOK
  <1>5. graph' \in Projects /\ TypeOK'
    BY <1>0, <1>2, <1>3, <1>4, AppendFacts DEF IInv, TypeOK
  <1>6. PhaseInv'
    BY <1>0 DEF IInv, PhaseInv, IsSaneProject, IsSane
  <1>7. PathInv'
    BY <1>0 DEF PathInv
  <1>8. SearchInv'
    <2>1. errors' # <<>>
      BY <1>2, <1>3, <1>4, AppendFacts
    <2>2. v \in visited
      BY <1>0 DEF IInv, PathInv
    <2>3. graph'.nodes \subseteq rest' \cup visited'
      BY <1>1, <2>2, <1>0 DEF IInv, SearchInv
    <2> QED BY <2>1, <2>3 DEF SearchInv
  <1>9. AcceptInv'
    BY <1>0 DEF AcceptInv
  <1>10. ReportInv'
    <2>1. /\ DOMAIN errors' = 1..(Len(errors) + 1) /\ DOMAIN errors = 1..Len(errors)
          /\ Len(errors) \in Nat
          /\ \A n \in 1..Len(errors) : errors'[n] = errors[n]
          /\ errors'[Len(errors) + 1] = graph.edges[i]
      BY <1>2, <1>3, <1>4, AppendFacts
    <2>2. path[Len(path)] \in Range(path)
      BY <1>0, <1>1 DEF Range
    <2>3. \A n \in DOMAIN errors' : errors'[n].succ \in visited' \ Range(path)'
      <3>1. \A n \in DOMAIN errors : errors[n].succ \in visited
        BY DEF IInv, ReportInv
      <3>2. path[Len(path)] \in visited
        BY <2>2 DEF IInv, PathInv
      <3> QED BY <1>0, <1>3, <2>1, <3>1, <3>2
    <2>4. ReportedOnce'
      <3>1. \A n \in DOMAIN errors : errors[n].succ # path[Len(path)]
        BY <2>2 DEF IInv, ReportInv
      <3>2. \A n, k \in DOMAIN errors : n # k => errors[n].succ # errors[k].succ
        BY DEF IInv, ReportInv, ReportedOnce
      <3> QED BY <1>3, <2>1, <3>1, <3>2 DEF ReportedOnce
    <2>5. PICK m \in 1..Len(path) : path[m] = v
      BY <1>0 DEF Range
    <2> DEFINE S == {path[n] : n \in m..Len(path)}
    <2>6. S \in SUBSET graph.nodes /\ v \in S /\ path[Len(path)] \in S
      BY <1>0, <1>1, <2>5
    <2>7. IsCyclicCore(graph, S)
      <3>1. ASSUME NEW n \in m..Len(path)
            PROVE  PredecessorSet(graph, path[n]) \cap S # {}
        <4>1. CASE n = Len(path)
          <5>1. i \in EdgesInto(graph, path[n])
            BY <4>1, <1>3 DEF EdgesInto
          <5> QED BY <5>1, <1>3, <2>6 DEF PredecessorSet
        <4>2. CASE n # Len(path)
          <5>1. n \in 1..(Len(path) - 1) /\ n + 1 \in m..Len(path)
            BY <4>2, <1>1, <2>5
          <5>2. PICK k \in EdgesInto(graph, path[n]) : graph.edges[k].pred = path[n + 1]
            BY <5>1 DEF IInv, PathInv
          <5> QED BY <5>1, <5>2 DEF PredecessorSet
        <4> QED BY <4>1, <4>2
      <3> HIDE DEF S
      <3>2. \A w \in S : PredecessorSet(graph, w) \cap S # {}
        BY <3>1 DEF S
      <3> QED BY <2>6, <3>2 DEF IsCyclicCore
    <2> HIDE DEF S
    <2>8. \A n \in DOMAIN errors : \E T \in SUBSET graph.nodes :
              /\ IsCyclicCore(graph, T)
              /\ errors[n].pred \in T /\ errors[n].succ \in T
      BY DEF IInv, ReportInv, ReportsAreCycles
    <2>9. \A n \in DOMAIN errors' : \E T \in SUBSET graph.nodes :
              /\ IsCyclicCore(graph, T)
              /\ errors'[n].pred \in T /\ errors'[n].succ \in T
      <3> SUFFICES ASSUME NEW n \in DOMAIN errors'
                   PROVE  \E T \in SUBSET graph.nodes :
                             /\ IsCyclicCore(graph, T)
                             /\ errors'[n].pred \in T /\ errors'[n].succ \in T
        OBVIOUS
      <3>1. CASE n \in DOMAIN errors
        BY <3>1, <2>1, <2>8
      <3>2. CASE n = Len(errors) + 1
        BY <3>2, <2>1, <2>6, <2>7, <1>3
      <3> QED BY <2>1, <3>1, <3>2
    <2>10. ReportsAreCycles'
      <3>1. graph' = graph
        OBVIOUS
      <3> QED BY <2>9, <3>1 DEF ReportsAreCycles
    <2> QED BY <2>3, <2>4, <2>10 DEF ReportInv
  <1> QED BY <1>5, <1>6, <1>7, <1>8, <1>9, <1>10 DEF IInv

\* Nothing is reported while the search leaves the reports alone.
LEMMA SameReports ==
    ASSUME ReportInv, UNCHANGED <<graph, errors>>, visited \subseteq visited',
           Range(path)' \cap visited \subseteq Range(path)
    PROVE  ReportInv'
  BY DEF ReportInv, ReportedOnce, ReportsAreCycles, IsCyclicCore, PredecessorSet, EdgesInto

LEMMA MeetVisitedIInv == \A v \in Names : IInv /\ MeetVisited(v) => IInv'
  <1> SUFFICES ASSUME NEW v \in Names, IInv, MeetVisited(v) PROVE IInv'
    OBVIOUS
  <1> USE DEF MeetVisited, Closes, Known
  <1>0. /\ verdict = "searching" /\ v \in graph.nodes
        /\ Range(path)' = {} /\ v \notin Range(path) /\ v \in visited
    BY RangeEmpty DEF IInv, TypeOK, PhaseInv, PathInv, Return
  <1>1. graph' \in Projects /\ TypeOK'
    BY <1>0 DEF IInv, TypeOK, Return
  <1>2. PhaseInv'
    BY <1>0 DEF IInv, PhaseInv, IsSaneProject, IsSane
  <1>3. PathInv'
    BY <1>0 DEF PathInv, Return
  <1>4. SearchInv'
    <2>1. errors = <<>> => \A S \in SUBSET graph.nodes : FollowClosed(S) => v \notin S
      BY <1>0 DEF IInv, SearchInv
    <2> QED BY <1>0, <2>1, ReturnSearchInv
  <1>5. AcceptInv'
    BY <1>0 DEF AcceptInv
  <1>6. ReportInv'
    BY <1>0, SameReports DEF IInv
  <1> QED BY <1>1, <1>2, <1>3, <1>4, <1>5, <1>6 DEF IInv

LEMMA DescendIInv == \A v \in Names : IInv /\ Descend(v) => IInv'
  <1> SUFFICES ASSUME NEW v \in Names, IInv, Descend(v) PROVE IInv'
    OBVIOUS
  <1> USE DEF Descend, Closes, Known
  <1>0. /\ verdict = "searching" /\ v \in graph.nodes /\ graph \in Projects
        /\ v \notin Range(path) /\ path \in Seq(graph.nodes)
        /\ marked = Range(path) /\ IsSaneProject
    BY DEF IInv, TypeOK, PhaseInv, PathInv
  <1>1. PhaseInv'
    BY <1>0 DEF IInv, PhaseInv, IsSaneProject, IsSane
  <1>2. AcceptInv'
    BY <1>0 DEF AcceptInv
  <1>3. CASE EdgesInto(graph, v) = {} /\ Return
    <2>1. Range(path)' = {}
      BY <1>3, RangeEmpty DEF Return
    <2>2. graph' \in Projects /\ TypeOK'
      BY <1>0, <1>3 DEF IInv, TypeOK, Return
    <2>3. PathInv'
      BY <2>1, <1>3 DEF PathInv, Return
    <2>4. SearchInv'
      <3>1. \A S \in SUBSET graph.nodes : FollowClosed(S) => v \notin S
        BY <1>3 DEF FollowClosed
      <3> QED BY <1>0, <1>3, <3>1, ReturnSearchInv
    <2>5. ReportInv'
      BY <2>1, SameReports DEF IInv
    <2> QED BY <1>1, <1>2, <2>2, <2>3, <2>4, <2>5 DEF IInv
  <1>4. CASE \E i \in Newest(EdgesInto(graph, v)) :
                path' = Append(path, v) /\ call' = {graph.edges[i].pred}
    <2>1. PICK i \in Newest(EdgesInto(graph, v)) :
                  path' = Append(path, v) /\ call' = {graph.edges[i].pred}
      BY <1>4
    <2>2. i \in EdgesInto(graph, v) /\ i \in DOMAIN graph.edges
      BY <2>1 DEF Newest, EdgesInto
    <2>3. graph.edges[i].pred \in graph.nodes
      BY <2>2, <1>0, SaneFacts
    <2>4. /\ path' \in Seq(graph.nodes) /\ path' # <<>>
          /\ Range(path') = Range(path) \cup {v}
          /\ Len(path) \in Nat /\ Len(path') = Len(path) + 1
          /\ path'[Len(path')] = v
          /\ \A n \in 1..Len(path) : path'[n] = path[n]
      BY <1>0, <2>1, AppendFacts
    <2>5. Range(path)' = Range(path) \cup {v}
      BY <2>4 DEF Range
    <2>6. graph' \in Projects /\ TypeOK'
      BY <1>0, <2>1, <2>3, <2>4 DEF IInv, TypeOK
    <2>7. PathInv'
      <3>1. \A n \in 1..(Len(path') - 1) :
               \E k \in EdgesInto(graph, path'[n]) : graph.edges[k].pred = path'[n + 1]
        <4> SUFFICES ASSUME NEW n \in 1..Len(path)
                     PROVE  \E k \in EdgesInto(graph, path'[n]) :
                               graph.edges[k].pred = path'[n + 1]
          BY <2>4
        <4>1. CASE n = Len(path)
          <5>1. path # <<>>
            BY <4>1, <1>0
          <5>2. PICK k \in EdgesInto(graph, path[Len(path)]) : graph.edges[k].pred = v
            BY <5>1 DEF IInv, PathInv
          <5> QED BY <4>1, <5>2, <2>4
        <4>2. CASE n # Len(path)
          <5>1. n \in 1..(Len(path) - 1) /\ n + 1 \in 1..Len(path)
            BY <4>2, <2>4
          <5>2. PICK k \in EdgesInto(graph, path[n]) : graph.edges[k].pred = path[n + 1]
            BY <5>1 DEF IInv, PathInv
          <5> QED BY <5>1, <5>2, <2>4
        <4> QED BY <4>1, <4>2
      <3>2. call' # {}
        BY <2>1
      <3>3. marked' = Range(path)' /\ Range(path)' \subseteq visited'
        BY <2>5, <1>0 DEF IInv, PathInv
      <3>4. \A w \in call' : \E k \in EdgesInto(graph, path'[Len(path')]) :
                               graph.edges[k].pred = w
        BY <2>1, <2>2, <2>4
      <3>5. graph' = graph
        OBVIOUS
      <3> QED BY <3>1, <3>2, <3>3, <3>4, <3>5 DEF PathInv, EdgesInto
    <2>8. SearchInv'
      <3>1. graph'.nodes \subseteq rest' \cup visited'
        BY <1>0 DEF IInv, SearchInv
      <3>2. \A S : FollowClosed(S)' <=> FollowClosed(S)
        BY FollowClosedNext
      <3>3. ASSUME errors = <<>>, NEW S \in SUBSET graph.nodes, FollowClosed(S)
            PROVE  /\ S \cap (visited' \ Range(path)') = {}
                   /\ S \cap Range(path)' # {} => call' \subseteq S
        <4>1. S \cap (visited \ Range(path)) = {} /\ (S \cap Range(path) # {} => v \in S)
          BY <1>0, <3>3 DEF IInv, SearchInv
        <4>2. v \in S => graph.edges[i].pred \in S
          BY <3>3, <2>1 DEF FollowClosed
        <4> QED BY <2>1, <2>5, <4>1, <4>2
      <3> QED BY <3>1, <3>2, <3>3 DEF SearchInv
    <2>9. ReportInv'
      BY <2>5, SameReports DEF IInv
    <2> QED BY <1>1, <1>2, <2>6, <2>7, <2>8, <2>9 DEF IInv
  <1> QED BY <1>3, <1>4

LEMMA EndSearchIInv == IInv /\ EndSearch => IInv'
  <1> SUFFICES ASSUME IInv, EndSearch PROVE IInv'
    OBVIOUS
  <1> USE DEF EndSearch, Reject
  <1>1. graph' \in Projects /\ TypeOK'
    <2>1. attached' \subseteq graph.nodes \X Aliases
      BY ProjectFacts DEF IInv, TypeOK
    <2> QED BY <2>1 DEF IInv, TypeOK
  <1>2. PhaseInv'
    BY DEF IInv, PhaseInv, IsSaneProject, IsSane
  <1>3. PathInv'
    BY DEF IInv, PathInv, Range, EdgesInto
  <1>4. SearchInv'
    BY DEF SearchInv
  <1>5. AcceptInv'
    <2> SUFFICES ASSUME errors = <<>>, NEW S \in SUBSET graph.nodes, FollowClosed(S)
                 PROVE  S = {}
      BY FollowClosedNext DEF AcceptInv
    <2>1. graph.nodes \subseteq visited
      BY DEF IInv, SearchInv
    <2>2. S \cap visited = {}
      BY RangeEmpty DEF IInv, SearchInv
    <2> QED BY <2>1, <2>2
  <1>6. ReportInv'
    BY SameReports DEF IInv, Range
  <1> QED BY <1>1, <1>2, <1>3, <1>4, <1>5, <1>6 DEF IInv

LEMMA StutterIInv == IInv /\ UNCHANGED vars => IInv'
  <1> SUFFICES ASSUME IInv, UNCHANGED vars PROVE IInv'
    OBVIOUS
  <1> USE DEF vars
  <1>1. graph' \in Projects /\ TypeOK'
    BY DEF IInv, TypeOK
  <1>2. PhaseInv'
    BY DEF IInv, PhaseInv, IsSaneProject
  <1>3. PathInv'
    BY DEF IInv, PathInv
  <1>4. SearchInv' /\ AcceptInv'
    <2>1. \A S : FollowClosed(S)' <=> FollowClosed(S)
      BY FollowClosedNext
    <2> QED BY <2>1 DEF IInv, SearchInv, AcceptInv
  <1>5. ReportInv'
    BY SameReports DEF IInv
  <1> QED BY <1>1, <1>2, <1>3, <1>4, <1>5 DEF IInv

\* The invariant of the search, from which the theorems below follow.
THEOREM SearchInvariance == Spec => []IInv
  <1>1. IInv /\ [Next]_vars => IInv'
    BY SanityCheckIInv, TryNodeIInv, CloseCycleIInv, MeetVisitedIInv, DescendIInv,
       EndSearchIInv, StutterIInv DEF Next
  <1> QED BY InitIInv, <1>1, PTL DEF Spec

----------------------------------------------------------------------------
(* What the search guarantees                                              *)

\* Every local variable and field keeps its type.
THEOREM SearchTypes == Spec => []TypeOK
  <1>1. IInv => TypeOK
    BY DEF IInv
  <1> QED BY SearchInvariance, <1>1, PTL

\* A project that beginResolve() accepts has a test case without dependencies.
THEOREM RootGuaranteed == Spec => []AcceptedHasRoot
  <1>1. IInv => AcceptedHasRoot
    <2> SUFFICES ASSUME IInv, verdict = "accepted", Roots(graph) = {}
                 PROVE  graph.nodes = {}
      BY DEF AcceptedHasRoot
    <2>1. \A i \in DOMAIN graph.edges : graph.edges[i].pred \in graph.nodes
      BY SaneFacts DEF IInv, PhaseInv
    <2>2. FollowClosed(graph.nodes)
      BY <2>1 DEF FollowClosed, Roots, Newest, EdgesInto
    <2> QED BY <2>2 DEF IInv, AcceptInv
  <1> QED BY SearchInvariance, <1>1, PTL

\* Where no test case has two Depends items, every cycle is found.
THEOREM SimpleCyclesFound == Spec => []SimpleCyclesRejected
  <1>1. IInv => SimpleCyclesRejected
    <2> SUFFICES ASSUME IInv, verdict = "accepted",
                        \A v \in graph.nodes : \A i, k \in EdgesInto(graph, v) : i = k,
                        NEW S \in SUBSET graph.nodes, IsCyclicCore(graph, S)
                 PROVE  FALSE
      BY DEF SimpleCyclesRejected, IsAcyclic
    <2>1. S # {} /\ \A v \in S : \E i \in EdgesInto(graph, v) : graph.edges[i].pred \in S
      BY DEF IsCyclicCore, PredecessorSet
    <2>2. FollowClosed(S)
      BY <2>1 DEF FollowClosed, Newest
    <2> QED BY <2>1, <2>2 DEF IInv, AcceptInv
  <1> QED BY SearchInvariance, <1>1, PTL

\* Every reported Depends item lies on a cycle.
THEOREM NoFalseAlarm == Spec => []ReportsAreCycles
  <1>1. IInv => ReportsAreCycles
    BY DEF IInv, ReportInv
  <1> QED BY SearchInvariance, <1>1, PTL

\* No test case is reported twice.
THEOREM NoDoubleReport == Spec => []ReportedOnce
  <1>1. IInv => ReportedOnce
    BY DEF IInv, ReportInv
  <1> QED BY SearchInvariance, <1>1, PTL


----------------------------------------------------------------------------
(* Rejections have reasons, and the search ends                            *)

\* A project is rejected only if something is wrong with it.
RejectedForAReason == verdict = "rejected" => ~IsSaneProject \/ ~IsAcyclic(graph)

\* beginResolve() refuses no project whose Depends items are sane and not cyclic,
\* and what it passes on to JobMultiplier has edges between its test cases only.
Verdicts ==
    /\ RejectedForAReason
    /\ verdict = "accepted" =>
            /\ IsSaneProject
            /\ \A i \in DOMAIN graph.edges :
                    graph.edges[i].pred \in graph.nodes /\ graph.edges[i].succ \in graph.nodes

\* A report is a cycle.
LEMMA ReportedIsCyclic == ReportsAreCycles /\ errors # <<>> /\ TypeOK => ~IsAcyclic(graph)
  <1> SUFFICES ASSUME ReportsAreCycles, errors # <<>>, TypeOK PROVE ~IsAcyclic(graph)
    OBVIOUS
  <1>1. PICK l : l = errors
    OBVIOUS
  <1>2. l \in Seq([pred : Names, succ : Names, alias : Aliases]) /\ l # <<>>
    BY <1>1 DEF TypeOK
  <1>3. 1 \in DOMAIN errors
    BY <1>1, <1>2
  <1> QED BY <1>3 DEF ReportsAreCycles, IsAcyclic

\* The verdict on a project has its reasons: sanity checks and search raise no
\* false alarm, and hand over a graph that is well-formed.
THEOREM VerdictsHaveReasons == Spec => []Verdicts
  <1>1. Init => RejectedForAReason
    BY DEF Init, RejectedForAReason
  <1>2. IInv /\ RejectedForAReason /\ [Next]_vars => RejectedForAReason'
    <2> SUFFICES ASSUME IInv, RejectedForAReason, [Next]_vars, verdict' = "rejected"
                 PROVE  (~IsSaneProject \/ ~IsAcyclic(graph))'
      BY DEF RejectedForAReason
    <2>1. graph' = graph
      BY DEF Next, SanityCheck, TryNode, CloseCycle, MeetVisited, Descend, EndSearch, vars
    <2>2. ~IsSaneProject \/ ~IsAcyclic(graph)
      <3>1. CASE verdict = "rejected"
        BY <3>1 DEF RejectedForAReason
      <3>2. CASE SanityCheck
        BY <3>2 DEF SanityCheck
      <3>3. CASE EndSearch
        <4>1. errors # <<>>
          BY <3>3 DEF EndSearch
        <4> QED BY <4>1, ReportedIsCyclic DEF IInv, ReportInv
      <3>4. CASE verdict' = verdict
        BY <3>1, <3>4
      <3> QED BY <3>2, <3>3, <3>4 DEF Next, TryNode, CloseCycle, MeetVisited, Descend, vars
    <2>3. IsSaneProject' = IsSaneProject /\ IsAcyclic(graph)' = IsAcyclic(graph)
      BY <2>1 DEF IsSaneProject, IsSane, IsAcyclic, IsCyclicCore, PredecessorSet, EdgesInto
    <2> QED BY <2>2, <2>3
  <1>3. IInv /\ RejectedForAReason => Verdicts
    <2> SUFFICES ASSUME IInv, RejectedForAReason, verdict = "accepted"
                 PROVE  /\ IsSaneProject
                        /\ \A i \in DOMAIN graph.edges :
                              graph.edges[i].pred \in graph.nodes /\ graph.edges[i].succ \in graph.nodes
      BY DEF Verdicts
    <2>1. IsSaneProject
      BY DEF IInv, PhaseInv
    <2>2. graph \in Projects
      BY DEF IInv
    <2> QED BY <2>1, <2>2, SaneFacts, ProjectFacts
  <1> QED BY SearchInvariance, <1>1, <1>2, <1>3, PTL DEF Spec

\* A set of positions that is not empty has a newest one.
LEMMA NewestExists ==
    ASSUME NEW n \in Nat, NEW I \in SUBSET (1..n), I # {}
    PROVE  Newest(I) # {}
  <1> DEFINE T == {n - i : i \in I}
  <1>1. T \in SUBSET Nat /\ T # {}
    OBVIOUS
  <1>2. IsWellFoundedOn(OpToRel(<, Nat), Nat)
    BY NatLessThanWellFounded
  <1>3. PICK m \in T : \A k \in T : ~(<<k, m>> \in OpToRel(<, Nat))
    <2> HIDE DEF T
    <2> QED BY <1>1, <1>2, WFMin
  <1>4. \A k \in T : ~(k < m)
    BY <1>1, <1>3 DEF OpToRel
  <1>5. PICK i \in I : m = n - i
    BY <1>3
  <1>6. \A k \in I : k <= i
    <2> SUFFICES ASSUME NEW k \in I PROVE k <= i
      OBVIOUS
    <2>1. n - k \in T
      OBVIOUS
    <2>2. ~(n - k < n - i)
      BY <1>4, <1>5, <2>1
    <2>3. k \in Int /\ i \in Int
      OBVIOUS
    <2> QED BY <2>2, <2>3
  <1> QED BY <1>6 DEF Newest

\* What the search can still do: test cases to try, test cases to visit, and the call
\* that is to be made.
PhaseLeft ==
    CASE verdict = "sanity" -> 2 * Cardinality(graph.nodes) + 2
      [] verdict = "searching" -> 1
      [] OTHER -> 0

Left ==
    2 * Cardinality(rest) + Cardinality(graph.nodes \ visited)
        + (IF call = {} THEN 0 ELSE 1) + PhaseLeft

\* While there is no verdict, one of the steps has its condition fulfilled: the sanity
\* check, the next test case or the end of the search, a cycle with its Depends item,
\* a test case known already, or one with the Depends item to follow if it has any.
CanGoOn ==
    \/ verdict = "sanity"
    \/ /\ verdict = "searching" /\ path = <<>> /\ call = {}
       /\ rest = {} \/ \E v \in rest : \A w \in rest : v <= w
    \/ \E v \in Names :
          /\ call = {v}
          /\ \/ Closes(v) /\ Newest(EdgesBetween(graph, v, Last(path))) # {}
             \/ ~Closes(v) /\ Known(v)
             \/ /\ ~Closes(v) /\ ~Known(v)
                /\ EdgesInto(graph, v) = {} \/ Newest(EdgesInto(graph, v)) # {}

\* The sets that are counted are finite.
LEMMA LeftFacts ==
    ASSUME IInv
    PROVE  /\ IsFiniteSet(graph.nodes) /\ IsFiniteSet(rest) /\ IsFiniteSet(graph.nodes \ visited)
           /\ Cardinality(graph.nodes) \in Nat /\ Cardinality(rest) \in Nat
           /\ Cardinality(graph.nodes \ visited) \in Nat /\ PhaseLeft \in Nat /\ Left \in Nat
  <1>1. graph.nodes \in SUBSET Names
    <2>1. graph \in Projects
      BY DEF IInv
    <2> QED BY <2>1, ProjectFacts
  <1>2. IsFiniteSet(graph.nodes)
    BY <1>1, NamesAssumption, FS_Subset
  <1>3. rest \in SUBSET graph.nodes /\ graph.nodes \ visited \in SUBSET graph.nodes
    BY DEF IInv, TypeOK
  <1>4. IsFiniteSet(rest) /\ IsFiniteSet(graph.nodes \ visited)
    BY <1>2, <1>3, FS_Subset
  <1>5. /\ Cardinality(graph.nodes) \in Nat /\ Cardinality(rest) \in Nat
        /\ Cardinality(graph.nodes \ visited) \in Nat
    BY <1>2, <1>4, FS_CardinalityType
  <1>6. PhaseLeft \in Nat
    BY <1>5 DEF PhaseLeft
  <1>7. Left \in Nat
    BY <1>5, <1>6 DEF Left
  <1> QED BY <1>2, <1>4, <1>5, <1>6, <1>7

\* Each step leaves less to do.
LEMMA StepShrinks ==
    ASSUME IInv, Next
    PROVE  Left' < Left
  <1> DEFINE a == Cardinality(rest)
             b == Cardinality(graph.nodes \ visited)
             n == Cardinality(graph.nodes)
             c == IF call = {} THEN 0 ELSE 1
  <1>1. a \in Nat /\ b \in Nat /\ n \in Nat /\ c \in {0, 1} /\ PhaseLeft \in Nat
        /\ Left = 2 * a + b + c + PhaseLeft
    BY LeftFacts DEF Left
  <1>2. graph' = graph /\ n' = n
    BY DEF Next, SanityCheck, TryNode, CloseCycle, MeetVisited, Descend, EndSearch
  <1>3. CASE SanityCheck
    <2>1. PhaseLeft = 2 * n + 2 /\ UNCHANGED <<call, visited>>
      BY <1>3 DEF SanityCheck, PhaseLeft
    <2>2. b' = b /\ c' = c
      BY <1>2, <2>1
    <2>3. CASE verdict' = "searching" /\ rest' = graph.nodes
      <3>1. PhaseLeft' = 1 /\ a' = n
        BY <2>3 DEF PhaseLeft
      <3>2. Left' = 2 * n + b + c + 1
        BY <2>2, <3>1 DEF Left
      <3> HIDE DEF a, b, n, c
      <3> QED BY <1>1, <2>1, <3>2
    <2>4. CASE verdict' = "rejected" /\ UNCHANGED rest
      <3>1. PhaseLeft' = 0 /\ a' = a
        BY <2>4 DEF PhaseLeft
      <3>2. Left' = 2 * a + b + c + 0
        BY <2>2, <3>1 DEF Left
      <3> HIDE DEF a, b, n, c
      <3> QED BY <1>1, <2>1, <3>2
    <2> QED BY <1>3, <2>3, <2>4 DEF SanityCheck, Reject
  <1>4. ASSUME NEW v \in Names, TryNode(v) PROVE Left' < Left
    <2>1. /\ UNCHANGED <<visited, verdict>> /\ call = {} /\ call' = {v} /\ v \in rest
          /\ rest' = rest \ {v}
      BY <1>4 DEF TryNode
    <2>2. a' = a - 1
      BY <2>1, LeftFacts, FS_RemoveElement
    <2>3. b' = b /\ c = 0 /\ c' = 1 /\ PhaseLeft' = PhaseLeft
      BY <1>2, <2>1 DEF PhaseLeft
    <2>4. Left' = 2 * (a - 1) + b + 1 + PhaseLeft
      BY <2>2, <2>3 DEF Left
    <2> HIDE DEF a, b, n, c
    <2> QED BY <1>1, <2>3, <2>4
  <1>5. ASSUME NEW v \in Names, CloseCycle(v) \/ MeetVisited(v) PROVE Left' < Left
    <2>1. UNCHANGED <<visited, verdict, rest>> /\ call = {v} /\ call' = {}
      BY <1>5 DEF CloseCycle, MeetVisited, Return
    <2>2. a' = a /\ b' = b /\ c = 1 /\ c' = 0 /\ PhaseLeft' = PhaseLeft
      BY <1>2, <2>1 DEF PhaseLeft
    <2>3. Left' = 2 * a + b + 0 + PhaseLeft
      BY <2>2 DEF Left
    <2> HIDE DEF a, b, n, c
    <2> QED BY <1>1, <2>2, <2>3
  <1>6. ASSUME NEW v \in Names, Descend(v) PROVE Left' < Left
    <2>1. /\ UNCHANGED <<verdict, rest>> /\ call = {v} /\ visited' = visited \cup {v} /\ v \notin visited
      BY <1>6 DEF Descend, Known
    <2>2. v \in graph.nodes \ visited
      BY <2>1 DEF IInv, TypeOK
    <2>3. b' = b - 1
      <3>1. graph'.nodes \ visited' = (graph.nodes \ visited) \ {v}
        BY <1>2, <2>1
      <3>2. PICK U : U = graph.nodes \ visited
        OBVIOUS
      <3>3. IsFiniteSet(U) /\ v \in U /\ graph'.nodes \ visited' = U \ {v}
        BY <2>2, <3>1, <3>2, LeftFacts
      <3>4. Cardinality(U \ {v}) = Cardinality(U) - 1
        BY <3>3, FS_RemoveElement
      <3> QED BY <3>2, <3>3, <3>4
    <2>4. a' = a /\ c = 1 /\ c' \in {0, 1} /\ PhaseLeft' = PhaseLeft
      BY <1>2, <2>1 DEF PhaseLeft
    <2>5. Left' = 2 * a + (b - 1) + c' + PhaseLeft
      BY <2>3, <2>4 DEF Left
    <2>6. PICK k \in {0, 1} : k = c'
      BY <2>4
    <2>7. Left' = 2 * a + (b - 1) + k + PhaseLeft
      BY <2>5, <2>6
    <2>8. Left = 2 * a + b + 1 + PhaseLeft
      BY <1>1, <2>4
    <2> HIDE DEF a, b, n, c
    <2>9. \A p, q, r \in Nat : \A e \in {0, 1} : 2 * p + (q - 1) + e + r < 2 * p + q + 1 + r
      OBVIOUS
    <2>10. 2 * a + (b - 1) + k + PhaseLeft < 2 * a + b + 1 + PhaseLeft
      BY <1>1, <2>6, <2>9
    <2> QED BY <2>7, <2>8, <2>10
  <1>7. CASE EndSearch
    <2>1. UNCHANGED <<visited, call, rest>> /\ PhaseLeft = 1 /\ PhaseLeft' = 0
      BY <1>7 DEF EndSearch, Reject, PhaseLeft
    <2>2. a' = a /\ b' = b /\ c' = c
      BY <1>2, <2>1
    <2>3. Left' = 2 * a + b + c + 0
      BY <2>1, <2>2 DEF Left
    <2> HIDE DEF a, b, n, c
    <2> QED BY <1>1, <2>1, <2>3
  <1> QED BY <1>3, <1>4, <1>5, <1>6, <1>7 DEF Next

\* There is always a step, until there is a verdict.
LEMMA SearchGoesOn ==
    ASSUME IInv, verdict \in {"sanity", "searching"}
    PROVE  CanGoOn
  <1>0. graph \in Projects /\ rest \subseteq Names /\ call \subseteq Names
    <2>1. graph \in Projects /\ rest \subseteq graph.nodes /\ call \subseteq graph.nodes
      BY DEF IInv, TypeOK
    <2> QED BY <2>1, ProjectFacts
  <1>1. DOMAIN graph.edges = 1..Len(graph.edges) /\ Len(graph.edges) \in Nat
    BY <1>0, ProjectFacts
  <1>2. CASE verdict = "sanity"
    BY <1>2 DEF CanGoOn
  <1>3. CASE verdict = "searching" /\ call = {}
    <2>1. path = <<>>
      BY <1>3 DEF IInv, PathInv
    <2>2. rest = {} \/ \E v \in rest : \A w \in rest : v <= w
      <3> SUFFICES ASSUME rest # {} PROVE \E v \in rest : \A w \in rest : v <= w
        OBVIOUS
      <3>1. rest \in SUBSET Nat
        BY <1>0, NamesAssumption
      <3>2. PICK v \in rest : \A w \in rest : ~(<<w, v>> \in OpToRel(<, Nat))
        BY <3>1, NatLessThanWellFounded, WFMin
      <3>3. \A w \in rest : ~(w < v)
        BY <3>1, <3>2 DEF OpToRel
      <3> QED BY <3>1, <3>3
    <2> QED BY <1>3, <2>1, <2>2 DEF CanGoOn
  <1>4. CASE call # {}
    <2>1. PICK v \in Names : call = {v}
      <3>1. \A v, w \in call : v = w
        BY DEF IInv, TypeOK
      <3> QED BY <1>0, <1>4, <3>1
    <2>2. CASE Closes(v)
      <3>1. v \in Range(path)
        BY <1>4, <2>2 DEF Closes, IInv, PathInv
      <3>2. path # <<>>
        BY <3>1, RangeEmpty
      <3>3. PICK i \in EdgesInto(graph, path[Len(path)]) : graph.edges[i].pred = v
        BY <2>1, <3>2 DEF IInv, PathInv
      <3>4. i \in EdgesBetween(graph, v, Last(path))
        BY <3>3 DEF EdgesBetween, EdgesInto, EdgesFrom, Last
      <3>5. EdgesBetween(graph, v, Last(path)) \in SUBSET (1..Len(graph.edges))
        BY <1>1 DEF EdgesBetween, EdgesInto
      <3> QED BY <1>1, <2>1, <2>2, <3>4, <3>5, NewestExists DEF CanGoOn
    <2>3. CASE ~Closes(v)
      <3>1. EdgesInto(graph, v) \in SUBSET (1..Len(graph.edges))
        BY <1>1 DEF EdgesInto
      <3>2. EdgesInto(graph, v) = {} \/ Newest(EdgesInto(graph, v)) # {}
        BY <1>1, <3>1, NewestExists
      <3> QED BY <2>1, <2>3, <3>2 DEF CanGoOn
    <2> QED BY <2>2, <2>3
  <1> QED BY <1>2, <1>3, <1>4

\* The search ends, with a verdict: each call and each test case that is tried leaves
\* less to do, and until there is a verdict something can be done.  Only that the
\* program goes on at all is left to fairness.
THEOREM SearchesEnd ==
    Spec => /\ [](Left \in Nat) /\ [][Left' < Left]_vars
            /\ [](verdict \in {"sanity", "searching"} => CanGoOn)
  <1>1. IInv => Left \in Nat
    BY LeftFacts
  <1>2. IInv /\ [Next]_vars => [Left' < Left]_vars
    BY StepShrinks
  <1>3. IInv => (verdict \in {"sanity", "searching"} => CanGoOn)
    BY SearchGoesOn
  <1> QED BY SearchInvariance, <1>1, <1>2, <1>3, PTL DEF Spec
=============================================================================
