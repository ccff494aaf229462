--------------------------- MODULE DirectedGraph ---------------------------
(***************************************************************************)
(* DirectedGraph<NodeT, EdgeT> of src/src/qst/directedgraph.h.             *)
(*                                                                         *)
(* A graph is a record [nodes, edges].  The nodes are natural numbers (the *)
(* NodeId, which for a job is its id), so iterating the QMap of nodes      *)
(* means iterating them in ascending order.  The edges are the sequence of *)
(* insertEdge() calls: m_successors, m_predecessors and m_edges are        *)
(* multimaps, a repeated edge is kept, and QMultiMap::values() lists the   *)
(* most recently inserted value first.                                     *)
(***************************************************************************)
EXTENDS Naturals, Sequences, SequencesExt

\* The positions of the edges that enter v, leave u, or lead from u to v.
EdgesInto(g, v)       == {i \in DOMAIN g.edges : g.edges[i].succ = v}
EdgesFrom(g, u)       == {i \in DOMAIN g.edges : g.edges[i].pred = u}
EdgesBetween(g, u, v) == EdgesInto(g, v) \cap EdgesFrom(g, u)

\* roots(): the nodes no edge enters.
Roots(g) == {v \in g.nodes : EdgesInto(g, v) = {}}

\* The position of the most recently inserted of the edges in I.
Newest(I) == {i \in I : \A k \in I : k <= i}

\* edge(u, v): QMultiMap::value() is the most recently inserted of the
\* parallel edges.
LatestEdge(g, u, v) ==
    g.edges[CHOOSE i \in EdgesBetween(g, u, v) :
                \A k \in EdgesBetween(g, u, v) : k <= i]

----------------------------------------------------------------------------
(* Reference notions, used by properties only.                             *)

PredecessorSet(g, v) == {g.edges[i].pred : i \in EdgesInto(g, v)}

\* A non-empty set every member of which has a predecessor in the set
\* contains a cycle, and every cycle is such a set.
IsCyclicCore(g, S) ==
    S # {} /\ \A v \in S : PredecessorSet(g, v) \cap S # {}

IsAcyclic(g) == \A S \in SUBSET g.nodes : ~IsCyclicCore(g, S)
=============================================================================
