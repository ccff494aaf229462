---------------------------- MODULE MCCycleCheck ----------------------------
(***************************************************************************)
(* Instances of CycleCheck for TLC.                                        *)
(***************************************************************************)
EXTENDS CycleCheck

MCNames == 0..3
MaxItems == 4

Item(p, s) == [pred |-> p, succ |-> s, alias |-> "x"]

\* Every project of three test cases and at most MaxItems Depends items.
Trio == 0..2
TrioItems == UNION {[1..n -> {Item(p, s) : p \in Trio, s \in Trio}] : n \in 0..MaxItems}

\* Every project of four test cases with one Depends item at most in each.
None == 4
Single ==
    {SelectSeq([n \in 1..4 |-> Item(f[n - 1], n - 1)], LAMBDA e : e.pred # None) :
        f \in [MCNames -> MCNames \cup {None}]}

\* Items that name a missing test case or have an illegal alias.
Insane == {[nodes |-> {0, 1}, edges |-> <<Item(0, 1), e>>] :
              e \in {Item(3, 0), [Item(0, 1) EXCEPT !.alias = "%"]}}

\* A Depends item is always inside a test case of the project.
MCProjects ==
    {g \in {[nodes |-> Trio, edges |-> es] : es \in TrioItems}
           \cup {[nodes |-> MCNames, edges |-> es] : es \in Single}
           \cup Insane
           \cup {[nodes |-> {}, edges |-> <<>>]} :
        \A e \in Range(g.edges) : e.succ \in g.nodes}

\* Test case 1 depends on 2, and then on 0, which depends on nothing, while 2
\* depends on 1: the search never sees the first item of 1.
HiddenCycle == {[nodes |-> Trio, edges |-> <<Item(2, 1), Item(0, 1), Item(1, 2)>>]}
=============================================================================
