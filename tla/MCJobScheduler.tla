--------------------------- MODULE MCJobScheduler ---------------------------
(***************************************************************************)
(* Instances of JobScheduler for TLC.                                      *)
(***************************************************************************)
EXTENDS JobScheduler

MCJobs == 0..3
Trio == 0..2

Edge(p, s, a) == [pred |-> p, succ |-> s, alias |-> a]

\* Every multigraph with three jobs and at most MaxEdges edges: chains, forks,
\* joins, parallel edges, self-dependencies and cycles.
MaxEdges == 3
EdgeLists ==
    UNION {[1..n -> {Edge(p, s, "x") : p \in Trio, s \in Trio}] : n \in 0..MaxEdges}
TrioGraphs == {[nodes |-> Trio, edges |-> es] : es \in EdgeLists}

\* Joins that deliver the exports of two jobs, and a diamond.
NamedGraphs ==
    {[nodes |-> MCJobs,
      edges |-> <<Edge(0, 1, "x"), Edge(0, 2, "y"), Edge(1, 3, "x"), Edge(2, 3, a)>>] :
        a \in {"x", "y"}}
    \cup
    {[nodes |-> MCJobs,
      edges |-> <<Edge(3, 1, "x"), Edge(3, 0, "x"), Edge(2, 0, "y"), Edge(3, 2, "x")>>]}

\* A graph without a root fails the assertion in start(): CycleCheck shows that
\* the dependency resolver never hands one over.
EmptyGraph == [nodes |-> {}, edges |-> <<>>]
MCGraphs == {g \in TrioGraphs \cup NamedGraphs : Roots(g) # {}} \cup {EmptyGraph}

\* Two Depends items of job 1 name job 0, with different aliases.
TwoAliasGraphs ==
    {[nodes |-> {0, 1}, edges |-> <<Edge(0, 1, "x"), Edge(0, 1, "y")>>]}
=============================================================================
