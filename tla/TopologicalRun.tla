--------------------------- MODULE TopologicalRun ---------------------------
(***************************************************************************)
(* What the header of src/src/qst/serialjobscheduler.h promises about a    *)
(* run of the test jobs: "The schedule is a topological order of the       *)
(* dependency graph" and "executes jobs one-by-one"; and what main.cpp     *)
(* makes of it: the exit code tells whether a job has failed.              *)
(***************************************************************************)
EXTENDS DirectedGraph

CONSTANTS Jobs, Aliases, JobGraphs, NoExit

VARIABLES
    graph,     \* the dependency graph
    outcome,   \* the outcome of each job executed so far
    current,   \* the job being executed: a set of at most one
    exitCode   \* NoExit while the program runs

vars == <<graph, outcome, current, exitCode>>

Executed == DOMAIN outcome

\* A job may be executed once all its predecessors have been.
Eligible == {j \in graph.nodes \ (Executed \cup current) :
                PredecessorSet(graph, j) \subseteq Executed}

Init ==
    /\ graph \in JobGraphs
    /\ outcome = [j \in {} |-> "Success"]
    /\ current = {} /\ exitCode = NoExit

Begin(j) ==
    /\ exitCode = NoExit /\ current = {}
    /\ j \in Eligible
    /\ current' = {j}
    /\ UNCHANGED <<graph, outcome, exitCode>>

End(j, res) ==
    /\ exitCode = NoExit /\ current = {j}
    /\ outcome' = [k \in Executed \cup {j} |-> IF k = j THEN res ELSE outcome[k]]
    /\ current' = {}
    /\ UNCHANGED <<graph, exitCode>>

\* The run ends only when no job is left that could be executed.
Close ==
    /\ exitCode = NoExit /\ current = {} /\ Eligible = {}
    /\ exitCode' = IF \E j \in Executed : outcome[j] = "Fail" THEN 2 ELSE 0
    /\ UNCHANGED <<graph, outcome, current>>

\* A job's document cannot be loaded, or the job itself ends the program.
Abort ==
    /\ exitCode = NoExit
    /\ exitCode' = 1 /\ current' = {}
    /\ UNCHANGED <<graph, outcome>>

Next ==
    \/ \E j \in Jobs : Begin(j) \/ (\E res \in {"Success", "Fail"} : End(j, res))
    \/ Close
    \/ Abort

Spec == Init /\ [][Next]_vars
=============================================================================
