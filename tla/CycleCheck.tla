----------------------------- MODULE CycleCheck -----------------------------
(***************************************************************************)
(* DependencyResolver::beginResolve() (src/src/qst/dependencyresolver.cpp):*)
(* the sanity checks of the Depends items, the depth-first search for      *)
(* cyclic dependencies between test cases and the preliminary exports.     *)
(*                                                                         *)
(* A test case is the number qHash() gives its name, so the search visits  *)
(* the test cases in ascending order; two names never share a number here. *)
(* An edge is a Depends item: `pred` is its name, `succ` the test case     *)
(* that contains it, `alias` the identifier for the exported values (the   *)
(* alias, or the name if there is none).  An empty name is the number of   *)
(* no test case.                                                           *)
(***************************************************************************)
EXTENDS DirectedGraph, FiniteSets

CONSTANTS
    Names,         \* numbers of names, of existing test cases or not
    Aliases,
    Identifiers,   \* the aliases that are valid JavaScript identifiers
    Exporters,     \* the test cases that contain an Exports item
    Projects       \* the graphs of test cases and Depends items

ASSUME NamesAssumption == Names \subseteq Nat /\ IsFiniteSet(Names)

ASSUME ProjectsAssumption ==
    \A g \in Projects :
        /\ g \in [nodes : SUBSET Names,
                  edges : Seq([pred : Names, succ : Names, alias : Aliases])]
        /\ \A i \in DOMAIN g.edges : g.edges[i].succ \in g.nodes

VARIABLES
    graph,      \* m_testcaseGraph
    rest,       \* nodes the loop over nodes() has still to try
    path,       \* calls of cyclicDependency() in progress, outermost first
    call,       \* the set of at most one node the next call is made for
    marked,     \* markedNodes
    visited,    \* visitedNodes
    errors,     \* m_errors of the search: the Depends items it reports
    attached,   \* preliminary dependency data: pairs <<dependent, alias>>
    verdict

vars == <<graph, rest, path, call, marked, visited, errors, attached, verdict>>

IsSaneAlias(g, e) == e.alias \in Identifiers   \* mutant: any name is accepted

\* A Depends item must name an existing test case, and the exported values
\* must be accessible under an identifier.
IsSane(g, e) == e.pred \in g.nodes /\ e.alias \in Identifiers

Init ==
    /\ graph \in Projects
    /\ rest = {} /\ path = <<>> /\ call = {}
    /\ marked = {} /\ visited = {}
    /\ errors = <<>> /\ attached = {}
    /\ verdict = "sanity"

IsSaneProject == \A i \in DOMAIN graph.edges : IsSane(graph, graph.edges[i])

Reject == verdict' = "rejected" /\ UNCHANGED attached

\* The messages of the sanity checks are left out.
SanityCheck ==
    /\ verdict = "sanity"
    /\ \/ IsSaneProject /\ verdict' = "searching" /\ rest' = graph.nodes /\ UNCHANGED attached
       \/ ~IsSaneProject /\ Reject /\ UNCHANGED rest
    /\ UNCHANGED <<graph, path, call, marked, visited, errors>>

FreshMarks == {}

\* The loop over nodes() calls cyclicDependency() with fresh markedNodes.
TryNode(v) ==
    /\ verdict = "searching" /\ path = <<>> /\ call = {}
    /\ v \in rest /\ \A w \in rest : v <= w
    /\ rest' = rest \ {v}
    /\ call' = {v} /\ marked' = FreshMarks
    /\ UNCHANGED <<graph, path, visited, errors, attached, verdict>>

\* All calls in progress return the result of the innermost one.
Return == path' = <<>> /\ call' = {}

ClosesUnlessVisited(v) ==          \* mutant: visitedNodes is looked up first
    v \in marked \ visited

ClosesIfVisited(v) ==             \* mutant: visitedNodes for markedNodes
    path # <<>> /\ v \in visited

Closes(v) == v \in marked

NeverKnown(v) == FALSE             \* mutant: visitedNodes is not looked up

Known(v) == v \in visited

\* The Depends item that closes the cycle is reported.
CloseCycle(v) ==
    /\ call = {v} /\ Closes(v)
    /\ \E i \in Newest(EdgesBetween(graph, v, Last(path))) :
          errors' = Append(errors, graph.edges[i])
    /\ Return
    /\ UNCHANGED <<graph, rest, marked, visited, attached, verdict>>

MeetVisited(v) ==
    /\ call = {v} /\ ~Closes(v) /\ Known(v)
    /\ marked' = marked \cup {v}
    /\ Return
    /\ UNCHANGED <<graph, rest, visited, errors, attached, verdict>>

\* The loop over predecessors(v) returns in its first iteration: the search
\* goes on with the test case of the last Depends item in v, and with no other.
Descend(v) ==
    /\ call = {v} /\ ~Closes(v) /\ ~Known(v)
    /\ marked' = marked \cup {v}
    /\ visited' = visited \cup {v}
    /\ \/ EdgesInto(graph, v) = {} /\ Return
       \/ \E i \in Newest(EdgesInto(graph, v)) :
             path' = Append(path, v) /\ call' = {graph.edges[i].pred}
    /\ UNCHANGED <<graph, rest, errors, attached, verdict>>

\* When no cycle has been found, every dependent of a test case that exports
\* values gets them under the alias of each of its Depends items.
EndSearch ==
    /\ verdict = "searching" /\ path = <<>> /\ call = {} /\ rest = {}
    /\ \/ /\ errors = <<>> /\ verdict' = "accepted"
          /\ attached' = {<<graph.edges[i].succ, graph.edges[i].alias>> :
                            i \in {k \in DOMAIN graph.edges :
                                      graph.edges[k].pred \in Exporters}}
       \/ errors # <<>> /\ Reject
    /\ UNCHANGED <<graph, rest, path, call, marked, visited, errors>>

Next ==
    \/ SanityCheck
    \/ \E v \in Names :
          TryNode(v) \/ CloseCycle(v) \/ MeetVisited(v) \/ Descend(v)
    \/ EndSearch

Spec == Init /\ [][Next]_vars
----------------------------------------------------------------------------
(* Properties                                                              *)

\* Every state variable keeps the type of the local or field it stands for.
TypeOK ==
    /\ graph \in [nodes : SUBSET Names,
                  edges : Seq([pred : Names, succ : Names, alias : Aliases])]
    /\ rest \subseteq graph.nodes
    /\ path \in Seq(graph.nodes)
    /\ call \subseteq graph.nodes /\ \A v, w \in call : v = w
    /\ marked \subseteq graph.nodes /\ visited \subseteq graph.nodes
    /\ errors \in Seq([pred : Names, succ : Names, alias : Aliases])
    /\ attached \subseteq graph.nodes \X Aliases
    /\ verdict \in {"sanity", "searching", "accepted", "rejected"}

\* A project that passes the search has a test case without dependencies, so
\* that the scheduler finds something to start with (its assertion on roots).
AcceptedHasRoot ==
    verdict = "accepted" => graph.nodes = {} \/ Roots(graph) # {}

\* The search follows one Depends item of each test case, yet it misses no
\* cycle of a project in which no test case has two of them.
SimpleCyclesRejected ==
    /\ verdict = "accepted"
    /\ \A v \in graph.nodes : \A i, k \in EdgesInto(graph, v) : i = k
    => IsAcyclic(graph)

\* "Cyclic dependency detected" is no false alarm: each reported Depends item
\* lies on a cycle.
ReportsAreCycles ==
    \A i \in DOMAIN errors : \E S \in SUBSET graph.nodes :
        /\ IsCyclicCore(graph, S)
        /\ errors[i].pred \in S /\ errors[i].succ \in S

\* A cycle is reported once, although the search comes back to it from every
\* test case that depends on it: each report is about another test case.
ReportedOnce ==
    \A i, k \in DOMAIN errors : i # k => errors[i].succ # errors[k].succ

\* "Test graph for cycles" (dependencyresolver.cpp): an accepted project has
\* no cyclic dependency.
CyclesRejected == verdict = "accepted" => IsAcyclic(graph)

=============================================================================
