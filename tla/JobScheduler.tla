---------------------------- MODULE JobScheduler ----------------------------
(***************************************************************************)
(* The execution phase of `qst run`: SerialJobScheduler, the entry and the *)
(* exit of JobDispatcher::dispatch(), and the event loop of                *)
(* execRunCommand() (src/src/qst/main.cpp) that connects them.             *)
(*                                                                         *)
(* jobReady -> dispatch and finished(job) -> onJobFinished are queued      *)
(* connections: an emission posts a call, and any event loop delivers it,  *)
(* also one that a running test case has opened (processEvents, waiting).  *)
(* So `running` is a stack of test cases rather than one test case.        *)
(*                                                                         *)
(* The order of m_todo is never used, so it is a set here.  The uint       *)
(* counters are naturals; CountsExact implies that none of them is ever    *)
(* decremented below zero.                                                 *)
(***************************************************************************)
EXTENDS DirectedGraph, FiniteSets

CONSTANTS
    Jobs,        \* the job ids that occur
    Aliases,     \* names under which a dependent sees exported values
    JobGraphs    \* the graphs DependencyResolver may hand over

ASSUME JobsAssumption == Jobs \subseteq Nat /\ IsFiniteSet(Jobs)

ASSUME GraphsAssumption ==
    \A g \in JobGraphs :
        /\ g \in [nodes : SUBSET Jobs,
                  edges : Seq([pred : Jobs, succ : Jobs, alias : Aliases])]
        /\ \A i \in DOMAIN g.edges :
              g.edges[i].pred \in g.nodes /\ g.edges[i].succ \in g.nodes

Outcomes == {"Success", "Fail"}

\* Calls that wait in the event queue.
Dispatch(j) == [slot |-> "dispatch", job |-> j]
Finished(j) == [slot |-> "onJobFinished", job |-> j]
Calls == [slot : {"dispatch", "onJobFinished"}, job : Jobs]

VARIABLES
    graph,      \* m_dependencies, fixed when the scheduler is constructed
    todo,       \* m_todo
    ready,      \* m_readyList
    counts,     \* m_dependencyCounts
    done,       \* m_done
    results,    \* m_results
    outcome,    \* Job::result() of the jobs whose test case has ended
    exporting,  \* executed jobs whose exports() are not empty
    data,       \* dependenciesData(): <<job, alias>> -> edges from exporting predecessors
    posted,     \* calls posted to the event queue
    running,    \* test cases being executed by dispatch(), innermost last
    quitting,   \* the exit flag of execRunCommand()'s QEventLoop
    main,       \* where execRunCommand() is
    exitCode

schedulerVars == <<graph, todo, ready, counts, done, results, data>>
jobVars == <<outcome, exporting>>
loopVars == <<posted, running, quitting, main, exitCode>>
vars == <<schedulerVars, jobVars, loopVars>>

NoData == [x \in {} |-> {}]
NoExit == 99

Init ==
    /\ graph \in JobGraphs
    /\ todo = {} /\ ready = <<>> /\ done = <<>> /\ results = <<>>
    /\ counts = [j \in {} |-> 0]
    /\ data = NoData
    /\ outcome = [j \in {} |-> "Success"] /\ exporting = {}
    /\ posted = <<>> /\ running = <<>> /\ quitting = FALSE
    /\ main = "start" /\ exitCode = NoExit

----------------------------------------------------------------------------
(* SerialJobScheduler                                                      *)

\* The members of S listed in ascending order of key: there is exactly one way.
Listings(S, key) ==
    {q \in Bijection(1..Cardinality(S), S) :
        \A i, k \in DOMAIN q : i < k => key[q[i]] < key[q[k]]}

\* The lists of values a dependent job gets, by alias: one entry for each edge
\* from an exporting predecessor.  A list is given by the positions of its edges,
\* since predecessors() has the newest edge first; its alias is that of edge().
ExportingEdges(j) == {i \in EdgesInto(graph, j) : graph.edges[i].pred \in exporting}
AliasOf(i, j) == LatestEdge(graph, graph.edges[i].pred, j).alias

MultiDependenciesOverwrite(j) ==   \* mutant: a later predecessor replaces
    [x \in {j} \X {AliasOf(i, j) : i \in ExportingEdges(j)} |->
        {i \in ExportingEdges(j) :
            AliasOf(i, j) = x[2] /\ \A k \in ExportingEdges(j) : AliasOf(k, j) = x[2] => i <= k}]

MultiDependencies(j) ==
    [x \in {j} \X {AliasOf(i, j) : i \in ExportingEdges(j)} |->
        {i \in ExportingEdges(j) : AliasOf(i, j) = x[2]}]

\* setDependenciesData() replaces what the job had.
SetDependenciesData(j, lists) ==
    data' = [x \in {y \in DOMAIN data : y[1] # j} \cup DOMAIN lists |->
                IF x[1] = j THEN lists[x] ELSE data[x]]

EmitJobReadyKeeping(calls, r) ==   \* mutant: first() instead of takeFirst()
    /\ ready' = r
    /\ posted' = Append(calls, Dispatch(Head(r)))

\* emit jobReady(takeFirst()): the queued connection appends a call to those posted.
EmitJobReady(calls, r) ==
    /\ ready' = Tail(r)
    /\ posted' = Append(calls, Dispatch(Head(r)))

EmitNothing == UNCHANGED quitting  \* mutant: finished() is not emitted

EmitFinished == quitting' = TRUE

StartEmpty ==
    /\ main = "start" /\ graph.nodes = {}
    /\ EmitFinished
    /\ main' = "exec"
    /\ UNCHANGED <<schedulerVars, jobVars, posted, running, exitCode>>

InitialCountsDistinct ==           \* mutant: parallel edges counted once
    [j \in graph.nodes |-> Cardinality(PredecessorSet(graph, j))]

InitialCounts == [j \in graph.nodes |-> Cardinality(EdgesInto(graph, j))]

\* start(): an empty list of roots fails the assertion, which is the guard
\* here (a release build would read the first element of an empty list).
Start ==
    /\ main = "start" /\ graph.nodes # {}
    /\ Roots(graph) # {}
    /\ todo' = graph.nodes \ Roots(graph)
    /\ counts' = InitialCounts
    /\ \E q \in Listings(Roots(graph), [j \in Jobs |-> j]) : EmitJobReady(posted, q)
    /\ main' = "exec"
    /\ UNCHANGED <<graph, done, results, data, jobVars, running, quitting, exitCode>>

AtMostOnce(f, j) ==                \* mutant: one decrement for parallel edges
    IF EdgesBetween(graph, f, j) = {} THEN 0 ELSE 1

\* How often f occurs among the predecessors of j.
Multiplicity(f, j) == Cardinality(EdgesBetween(graph, f, j))

CountsWithout(f) == [j \in DOMAIN counts |-> counts[j] - Multiplicity(f, j)]

ReleasedByFirst(f) ==              \* mutant: one predecessor is enough
    {j \in todo : Multiplicity(f, j) > 0}

\* The dependents whose count reaches zero, in the order in which the loop
\* over successors(f) reaches their last entry: their oldest edge, newest first.
Released(f) == {j \in todo : Multiplicity(f, j) > 0 /\ CountsWithout(f)[j] = 0}

OldestEdge(f, j) ==
    CHOOSE i \in EdgesBetween(graph, f, j) :
        \A k \in EdgesBetween(graph, f, j) : i <= k

ReleaseOrder(f) ==
    [j \in Released(f) |-> Len(graph.edges) - OldestEdge(f, j)]

OnJobFinished(f) ==
    /\ main = "loop"
    /\ posted # <<>> /\ Head(posted) = Finished(f)
    /\ done' = Append(done, f)
    /\ results' = Append(results, outcome[f])
    /\ todo' = todo \ Released(f)
    /\ counts' = [j \in DOMAIN counts \ Released(f) |-> CountsWithout(f)[j]]
    /\ \E q \in Listings(Released(f), ReleaseOrder(f)) :
          LET r == ready \o q
          IN  \/ /\ r # <<>>
                 /\ EmitJobReady(Tail(posted), r)
                 /\ SetDependenciesData(Head(r), MultiDependencies(Head(r)))
                 /\ UNCHANGED quitting
              \/ /\ r = <<>>
                 /\ EmitFinished
                 /\ posted' = Tail(posted)
                 /\ UNCHANGED <<ready, data>>
    /\ UNCHANGED <<graph, jobVars, running, main, exitCode>>

----------------------------------------------------------------------------
(* JobDispatcher                                                           *)

\* dispatch() up to testcase->exec(); the document may fail to load, which
\* ends the program at once.
DispatchJob(j) ==
    /\ main = "loop"
    /\ posted # <<>> /\ Head(posted) = Dispatch(j)
    /\ posted' = Tail(posted)
    /\ \/ /\ running' = Append(running, j)
          /\ UNCHANGED <<main, exitCode>>
       \/ /\ main' = "exited" /\ exitCode' = 1
          /\ UNCHANGED running
    /\ UNCHANGED <<schedulerVars, jobVars, quitting>>

\* exec() returns; result and exports are stored in the job's shared data.
TestcaseEnds ==
    /\ main = "loop" /\ running # <<>>
    /\ LET j == Last(running)
       IN  /\ \E res \in Outcomes :
                 outcome' = [k \in DOMAIN outcome \cup {j} |->
                                IF k = j THEN res ELSE outcome[k]]
           /\ exporting' \in {exporting, exporting \cup {j}}
           /\ posted' = Append(posted, Finished(j))
    /\ running' = Front(running)
    /\ UNCHANGED <<schedulerVars, quitting, main, exitCode>>

\* A test case ends the program: Qst.error(), or the target of a probe does not answer.
\* Nothing is unwound, and nobody looks at the results.
TestcaseExits ==
    /\ main = "loop" /\ running # <<>>
    /\ main' = "exited" /\ exitCode' = 1 /\ running' = <<>>
    /\ UNCHANGED <<schedulerVars, jobVars, posted, quitting>>

----------------------------------------------------------------------------
(* execRunCommand()                                                        *)

\* QEventLoop::exec() clears an exit flag that was set before it was entered.
EnterEventLoop ==
    /\ main = "exec"
    /\ main' = "loop" /\ quitting' = FALSE
    /\ UNCHANGED <<schedulerVars, jobVars, posted, running, exitCode>>

LastHasFailed ==                   \* mutant: only the last result counts
    results # <<>> /\ Last(results) = "Fail"

HasFailed == \E i \in DOMAIN results : results[i] = "Fail"

LeaveEventLoop ==
    /\ main = "loop" /\ quitting /\ running = <<>>
    /\ main' = "exited"
    /\ exitCode' = IF HasFailed THEN 2 ELSE 0
    /\ UNCHANGED <<schedulerVars, jobVars, posted, running, quitting>>

Next ==
    \/ StartEmpty
    \/ Start
    \/ EnterEventLoop
    \/ \E j \in Jobs : DispatchJob(j) \/ OnJobFinished(j)
    \/ TestcaseEnds \/ TestcaseExits
    \/ LeaveEventLoop

Spec == Init /\ [][Next]_vars

\* The event loop runs as long as it has something to deliver, and a test
\* case that is executed comes to an end.
FairSpec == Spec /\ WF_vars(Next)
----------------------------------------------------------------------------
(* Properties                                                              *)

Dispatched == {posted[i].job : i \in {k \in DOMAIN posted : posted[k].slot = "dispatch"}}
Ended      == {posted[i].job : i \in {k \in DOMAIN posted : posted[k].slot = "onJobFinished"}}
InFlight   == Dispatched \cup Range(running) \cup Ended

\* Every state variable keeps the type of the field it stands for.
TypeOK ==
    /\ graph \in JobGraphs
    /\ todo \subseteq graph.nodes
    /\ ready \in Seq(graph.nodes)
    /\ DOMAIN counts \subseteq graph.nodes
    /\ \A j \in DOMAIN counts : counts[j] \in Nat
    /\ done \in Seq(graph.nodes)
    /\ results \in Seq(Outcomes)
    /\ DOMAIN outcome \subseteq graph.nodes
    /\ \A j \in DOMAIN outcome : outcome[j] \in Outcomes
    /\ exporting \subseteq graph.nodes
    /\ posted \in Seq([slot : {"dispatch", "onJobFinished"}, job : graph.nodes])
    /\ running \in Seq(graph.nodes)
    /\ quitting \in BOOLEAN
    /\ main \in {"start", "exec", "loop", "exited"}
    /\ exitCode \in {NoExit, 0, 1, 2}

\* "This scheduler executes jobs one-by-one" (serialjobscheduler.h): at most
\* one call is posted or one test case running, although every event loop a
\* test case opens would deliver a posted dispatch() in the middle of it, and
\* every job of the graph is in exactly one stage of its life.
OneByOne ==
    /\ Len(posted) + Len(running) <= 1
    /\ main \in {"exec", "loop"} =>
          /\ graph.nodes = todo \cup Range(ready) \cup InFlight \cup Range(done)
          /\ todo \cap (Range(ready) \cup InFlight \cup Range(done)) = {}
          /\ Range(ready) \cap (InFlight \cup Range(done)) = {}
          /\ InFlight \cap Range(done) = {}
          /\ \A i, k \in DOMAIN ready : ready[i] = ready[k] => i = k
          /\ \A i, k \in DOMAIN done : done[i] = done[k] => i = k

\* "The schedule is a topological order of the dependency graph"
\* (serialjobscheduler.h): a job is executed after all its predecessors.
TopologicalOrder ==
    /\ \A k \in DOMAIN done :
          PredecessorSet(graph, done[k]) \subseteq {done[i] : i \in 1..(k - 1)}
    /\ \A j \in InFlight : PredecessorSet(graph, j) \subseteq Range(done)

\* The count of a waiting job is the number of edges from jobs that have not
\* finished, parallel edges counted separately, and it is not zero: no release
\* is missed and no count of the uint map wraps around.
CountsExact ==
    main \in {"exec", "loop"} =>
        \A j \in todo :
            /\ j \in DOMAIN counts
            /\ counts[j] = Cardinality({i \in EdgesInto(graph, j) :
                                          graph.edges[i].pred \notin Range(done)})
            /\ counts[j] > 0

\* When the program ends with a verdict, the jobs it has not executed form a
\* set in which each job waits for another one of the set: only a dependency
\* cycle keeps a job from being executed.
OnlyCyclesStarve ==
    exitCode \in {0, 2} =>
        LET Left == graph.nodes \ Range(done)
        IN  Left = {} \/ IsCyclicCore(graph, Left)

\* The exit code is 2 exactly if one of the executed jobs has failed.
VerdictIsTrue ==
    exitCode \in {0, 2} =>
        /\ Range(done) = DOMAIN outcome
        /\ exitCode = 2 <=> \E j \in DOMAIN outcome : outcome[j] = "Fail"

\* Every value exported to a job under some alias arrives under that alias,
\* exactly once, provided that no two edges lead from one job to another.
ExportsArrive ==
    \A j \in Range(running) : \A i \in EdgesInto(graph, j) :
        LET e == graph.edges[i]
        IN  e.pred \in exporting /\ EdgesBetween(graph, e.pred, j) = {i} =>
                /\ <<j, e.alias>> \in DOMAIN data
                /\ Cardinality({k \in data[<<j, e.alias>>] : graph.edges[k].pred = e.pred}) = 1

\* doc/depends-item.rst promises that several Depends items may reference the
\* same test case, each with an alias of its own for the exported values.
EveryAliasServed ==
    \A j \in Range(running) : \A i \in EdgesInto(graph, j) :
        graph.edges[i].pred \in exporting =>
            <<j, graph.edges[i].alias>> \in DOMAIN data

\* A run over a graph that has a root comes to an end.
EveryRunEnds == (main = "start" /\ Roots(graph) # {}) ~> main = "exited"

\* The scheduler, the dispatcher and the event loop implement a run in
\* topological order.
Abstract == INSTANCE TopologicalRun WITH current <- Range(running)
RunsTopologically == Abstract!Spec
=============================================================================
