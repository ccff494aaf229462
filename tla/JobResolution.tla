--------------------------- MODULE JobResolution ---------------------------
(***************************************************************************)
(* From test cases to jobs: JobMultiplier (src/src/qst/jobmultiplier.cpp)  *)
(* replicates the test cases of a matrix, one job for each combination of  *)
(* tags, and DependencyResolver::completeResolve() finds out which job     *)
(* depends on which.                                                       *)
(*                                                                         *)
(* A test case is the number of its name; QMap lists names in ascending    *)
(* order.  A job is its position in the job table, which is its id plus    *)
(* one; JobTable::values() lists it by name, the latest job of a name      *)
(* first.  A tag is a pair <<label, value>>.  A matrix is the list of the  *)
(* test cases its patterns match and the list of its dimensions, each a    *)
(* list of tag sets.                                                       *)
(***************************************************************************)
EXTENDS DirectedGraph, FiniteSets

CONSTANTS
    Names,
    Aliases,
    Default,     \* the value a property has before a tag is assigned to it
    Own,         \* in a Depends item: the value of the test case's own property
    Projects     \* records [graph, declared, matrices]

ASSUME NamesAssumption == Names \subseteq Nat

\* `graph` is the graph of test cases that beginResolve() has accepted; its
\* edges are Depends items, `tags` a function from labels to tag expressions, which
\* are told by what they evaluate to.  Only a literal empty array is refused before.
\* `declared` are the labels of the matrices that a test case has properties for.
ASSUME ProjectsAssumption ==
    \A p \in Projects :
        /\ p.graph.nodes \subseteq Names /\ IsFiniteSet(p.graph.nodes)
        /\ p.graph.edges \in Seq(Range(p.graph.edges))
        /\ \A e \in Range(p.graph.edges) :
              e.pred \in p.graph.nodes /\ e.succ \in p.graph.nodes /\ e.alias \in Aliases
        /\ \A e \in Range(p.graph.edges) : \A l \in DOMAIN e.tags :
              /\ e.tags[l].kind \in {"scalar", "array", "undefined", "other"}
              /\ e.tags[l].values \in Seq(Range(e.tags[l].values))
              /\ e.tags[l].kind = "scalar" => e.tags[l].values # <<>>
        /\ p.matrices \in Seq(Range(p.matrices))
        /\ \A m \in Range(p.matrices) : m.names \in Seq(p.graph.nodes)

LabelsOf(T) == {t[1] : t \in T}

\* A matrix lists the matching keys of a map; it has a dimension, or expand() is
\* undefined; and every dimension has rows, which have a value for each of its tags.
ASSUME MatricesAssumption ==
    \A p \in Projects : \A m \in Range(p.matrices) :
        /\ IsInjective(m.names)
        /\ m.dims \in Seq(Range(m.dims)) \ {<<>>}
        /\ \A rows \in Range(m.dims) :
              /\ rows \in Seq(Range(rows)) \ {<<>>}
              /\ \A S, T \in Range(rows) : LabelsOf(S) = LabelsOf(T)

VARIABLES
    project,     \* the documents
    jobs,        \* the job vector of job.cpp: [name, tags]
    matrices,    \* m_matrices that are not expanded yet
    combos,      \* expand() of the matrix being combined
    names,       \* its test cases that are not combined yet
    column,      \* the entry of combos the next job gets
    props,       \* the tagged properties of each test case object
    unresolved,  \* jobs the loop of completeResolve() has still to visit
    current,     \* the job it visits, a set of at most one
    classes,     \* dependencyNames that are not treated yet
    agenda,      \* Depends items on the current dependencyName
    edges,       \* insertEdge() calls on m_jobGraph
    phase

multiplierVars == <<jobs, matrices, combos, names, column>>
resolverVars == <<props, unresolved, current, classes, agenda, edges>>
vars == <<project, multiplierVars, resolverVars, phase>>

Tests == project.graph.nodes
Items == project.graph.edges

Init ==
    /\ project \in Projects
    /\ jobs = <<>> /\ matrices = project.matrices /\ combos = <<>>
    /\ names = <<>> /\ column = 1
    /\ props = [n \in Tests |-> {<<l, Default>> : l \in project.declared[n]}]
    /\ unresolved = {} /\ current = {} /\ classes = {} /\ agenda = {}
    /\ edges = <<>>
    /\ phase = "multiply"

\* QST_ERROR_AND_EXIT
Exit == phase' = "exited"

----------------------------------------------------------------------------
(* JobMultiplier                                                           *)

\* expand(): job i has digit (i / divider) % length in each dimension.
DividerShifted(dims) ==            \* mutant: lengths[i] for lengths[i - 1]
    LET divider[d \in DOMAIN dims] ==
            IF d = 1 THEN 1 ELSE divider[d - 1] * Len(dims[d])
    IN  divider

Divider(dims) ==
    LET divider[d \in DOMAIN dims] ==
            IF d = 1 THEN 1 ELSE divider[d - 1] * Len(dims[d - 1])
    IN  divider

Size(dims) == Divider(dims)[Len(dims)] * Len(dims[Len(dims)])

Expand(dims) ==
    [i \in 1..Size(dims) |->
        UNION {dims[d][(((i - 1) \div Divider(dims)[d]) % Len(dims[d])) + 1] : d \in DOMAIN dims}]

Overlapping(dims) ==
    \E d, e \in DOMAIN dims :
        d # e /\ LabelsOf(dims[d][1]) \cap LabelsOf(dims[e][1]) # {}

StartMatrix ==
    /\ phase = "multiply" /\ names = <<>> /\ matrices # <<>>
    /\ LET m == Head(matrices)
       IN  \/ /\ ~Overlapping(m.dims) /\ m.names # <<>>
              /\ names' = m.names
              /\ combos' = Expand(m.dims)
              /\ matrices' = Tail(matrices)
              /\ UNCHANGED phase
           \/ /\ Overlapping(m.dims) \/ m.names = <<>>
              /\ Exit
              /\ UNCHANGED <<names, combos, matrices>>
    /\ UNCHANGED <<project, jobs, column, resolverVars>>

\* combine(): the test case must have a property for each label.
RefuseName ==
    /\ phase = "multiply" /\ names # <<>> /\ column = 1
    /\ ~(LabelsOf(combos[1]) \subseteq project.declared[Head(names)])
    /\ Exit
    /\ UNCHANGED <<project, multiplierVars, resolverVars>>

CombineName ==
    /\ phase = "multiply" /\ names # <<>> /\ column \in DOMAIN combos
    /\ LabelsOf(combos[1]) \subseteq project.declared[Head(names)]
    /\ jobs' = Append(jobs, [name |-> Head(names), tags |-> combos[column]])
    /\ column' = column + 1
    /\ UNCHANGED <<project, matrices, combos, names, resolverVars, phase>>

NextName ==
    /\ phase = "multiply" /\ names # <<>> /\ column \notin DOMAIN combos
    /\ names' = Tail(names) /\ column' = 1
    /\ UNCHANGED <<project, jobs, matrices, combos, resolverVars, phase>>

UsedNames == {jobs[i].name : i \in DOMAIN jobs}

\* The names in no matrix get one job each, in the order of a hash set.
AddUntagged ==
    /\ phase = "multiply" /\ names = <<>> /\ matrices = <<>>
    /\ \E q \in Bijection(1..Cardinality(Tests \ UsedNames), Tests \ UsedNames) :
          jobs' = jobs \o [i \in DOMAIN q |-> [name |-> q[i], tags |-> {}]]
    /\ unresolved' = DOMAIN jobs'
    /\ phase' = "resolve"
    /\ UNCHANGED <<project, matrices, combos, names, column, props, current, classes, agenda, edges>>

----------------------------------------------------------------------------
(* DependencyResolver::completeResolve()                                   *)

\* Job i comes before job k in JobTable::values().
Before(i, k) ==
    \/ jobs[i].name < jobs[k].name
    \/ jobs[i].name = jobs[k].name /\ i > k

\* The properties keep the values of earlier jobs, except those that are tagged.
PropsUntouched(j) == props         \* mutant: the tags are not applied

PropsAccumulated(j) ==             \* mutant: earlier values are not replaced
    [props EXCEPT ![jobs[j].name] = @ \cup jobs[j].tags]

PropsWithTags(j) ==
    LET n == jobs[j].name
    IN  [props EXCEPT ![n] = {t \in @ : t[1] \notin LabelsOf(jobs[j].tags)} \cup jobs[j].tags]

VisitJob(j) ==
    /\ phase = "resolve" /\ current = {} /\ j \in unresolved
    /\ \A k \in unresolved \ {j} : Before(j, k)
    /\ current' = {j} /\ unresolved' = unresolved \ {j}
    /\ props' = PropsWithTags(j)
    /\ classes' = PredecessorSet(project.graph, jobs[j].name)
    /\ UNCHANGED <<project, multiplierVars, agenda, edges, phase>>

\* The names a job depends on come from a hash set.
VisitClass(n) ==
    /\ phase = "resolve" /\ agenda = {} /\ n \in classes
    /\ agenda' = UNION {EdgesBetween(project.graph, n, jobs[j].name) : j \in current}
    /\ classes' = classes \ {n}
    /\ UNCHANGED <<project, multiplierVars, props, unresolved, current, edges, phase>>

LeaveJob ==
    /\ phase = "resolve" /\ current # {} /\ agenda = {} /\ classes = {}
    /\ current' = {}
    /\ UNCHANGED <<project, multiplierVars, props, unresolved, classes, agenda, edges, phase>>

FinishResolve ==
    /\ phase = "resolve" /\ unresolved = {} /\ current = {}
    /\ phase' = "done"
    /\ UNCHANGED <<project, multiplierVars, resolverVars>>

\* Depends::evaluateTags(): arrays must have equal lengths; a single value is
\* repeated.  An expression is [kind, values].
ArrayLengths(tags) == {Len(tags[l].values) : l \in {m \in DOMAIN tags : tags[m].kind = "array"}}

ValueAt(e, i) == IF i \in DOMAIN e.values THEN e.values[i] ELSE e.values[1]

Evaluate(v, l, n) == IF v = Own THEN {t \in props[n] : t[1] = l} ELSE {<<l, v>>}

EvaluateTags(tags, n) ==
    LET length == CHOOSE k \in IF ArrayLengths(tags) = {} THEN {1} ELSE ArrayLengths(tags) : TRUE
    IN  [i \in 1..length |->
            UNION {Evaluate(ValueAt(tags[l], i), l, n) : l \in DOMAIN tags}]

SpecifiesTags(i) == DOMAIN Items[i].tags # {}

AnyClass(n) == DOMAIN jobs         \* mutant: values() instead of values(name)

Class(n) == {p \in DOMAIN jobs : jobs[p].name = n}

CommonTags(i, j) ==                \* mutant: a common tag is enough
    {p \in Class(Items[i].pred) : jobs[p].tags \cap jobs[j].tags # {}}

EqualTags(i, j) == {p \in Class(Items[i].pred) : jobs[p].tags = jobs[j].tags}

DependencyIsTagged(i) == Cardinality(Class(Items[i].pred)) > 1

OneToOne(i, j) == jobs[j].tags # {} /\ DependencyIsTagged(i)

\* The preceding jobs of job j by Depends item i, as pairs of the position in
\* the list of tag sets and the job.
Preceding(i, j) ==
    IF SpecifiesTags(i)
    THEN LET list == EvaluateTags(Items[i].tags, jobs[j].name)
         IN  {m \in (DOMAIN list) \X Class(Items[i].pred) : jobs[m[2]].tags = list[m[1]]}
    ELSE {1} \X (IF OneToOne(i, j) THEN Newest(EqualTags(i, j)) ELSE Class(Items[i].pred))

\* The loops over tag sets and jobs visit them list position first, latest job first.
Rank(m) == m[1] * (Len(jobs) + 1) - m[2]

Listed(S) ==
    {q \in Bijection(1..Cardinality(S), S) :
        \A a, b \in DOMAIN q : a < b => Rank(q[a]) < Rank(q[b])}

HasValue(i, kind) == \E l \in DOMAIN Items[i].tags : Items[i].tags[l].kind = kind

\* Neither a boolean, an integer, a string nor an array: an assertion fails.
IllTyped(i) == HasValue(i, "other")

IllFormed(i) == HasValue(i, "undefined") \/ Cardinality(ArrayLengths(Items[i].tags)) > 1

Unmatched(i, j) == ~SpecifiesTags(i) /\ OneToOne(i, j) /\ EqualTags(i, j) = {}

InOrder(i, j) == ~IllTyped(i) /\ ~IllFormed(i) /\ ~Unmatched(i, j)

EdgeReversed(p, j, i) ==           \* mutant: the arguments are swapped
    [pred |-> j, succ |-> p, alias |-> Items[i].alias]

JobEdge(p, j, i) == [pred |-> p, succ |-> j, alias |-> Items[i].alias]

\* A one-to-one relation that finds no partner ends the program, whereas
\* explicit tags that match no job are ignored.  An assertion that fails ends it,
\* too, unless an undefined value comes first; the order of the labels is left open.
\* (A release build goes on without the value.)
ResolveItem(i) ==
    /\ phase = "resolve" /\ i \in Newest(agenda)
    /\ \E j \in current :
          \/ /\ InOrder(i, j)
             /\ \E q \in Listed(Preceding(i, j)) :
                   edges' = edges \o [k \in DOMAIN q |-> JobEdge(q[k][2], j, i)]
             /\ UNCHANGED phase
          \/ /\ ~InOrder(i, j) /\ (IllTyped(i) => HasValue(i, "undefined"))
             /\ Exit
             /\ UNCHANGED edges
          \/ /\ IllTyped(i)
             /\ phase' = "crashed"
             /\ UNCHANGED edges
    /\ agenda' = agenda \ {i}
    /\ UNCHANGED <<project, multiplierVars, props, unresolved, current, classes>>

Next ==
    \/ StartMatrix
    \/ RefuseName
    \/ CombineName
    \/ NextName
    \/ AddUntagged
    \/ \E j \in DOMAIN jobs : VisitJob(j)
    \/ \E n \in Names : VisitClass(n)
    \/ \E i \in DOMAIN Items : ResolveItem(i)
    \/ LeaveJob
    \/ FinishResolve

Spec == Init /\ [][Next]_vars
----------------------------------------------------------------------------
(* Properties                                                              *)

JobGraph == [nodes |-> DOMAIN jobs, edges |-> edges]

MatricesOf(n) == {k \in DOMAIN project.matrices : n \in Range(project.matrices[k].names)}

\* Job j has been visited and item i of its test case has been treated.
Treated(i, j) ==
    /\ phase # "multiply"
    /\ j \in Class(Items[i].succ) \ unresolved
    /\ current = {j} => Items[i].pred \notin classes /\ i \notin agenda

\* Every state variable keeps its type; a property has one value at a time.
TypeOK ==
    /\ project \in Projects
    /\ Range(jobs) \subseteq [name : Tests, tags : {jobs[j].tags : j \in DOMAIN jobs}]
    /\ Range(names) \subseteq Tests
    /\ \A n \in Tests : \A s, t \in props[n] : s[1] = t[1] => s = t
    /\ unresolved \subseteq DOMAIN jobs /\ current \subseteq DOMAIN jobs
    /\ classes \subseteq Tests /\ agenda \subseteq DOMAIN Items
    /\ Range(edges) \subseteq [pred : DOMAIN jobs, succ : DOMAIN jobs, alias : Aliases]
    /\ phase \in {"multiply", "resolve", "done", "exited", "crashed"}

\* "We flatten everything into a vector" (jobmultiplier.cpp): a test case gets
\* one job for each choice of one entry per dimension of each of its matrices,
\* neither more nor less, and a single untagged job if it is in no matrix.
DigitChoices(dims) ==
    {c \in [DOMAIN dims -> UNION {DOMAIN dims[d] : d \in DOMAIN dims}] :
        \A d \in DOMAIN dims : c[d] \in DOMAIN dims[d]}
Chosen(dims, c) == UNION {dims[d][c[d]] : d \in DOMAIN dims}

EveryCombination ==
    phase \in {"resolve", "done"} =>
        \A n \in Tests :
            IF MatricesOf(n) = {}
            THEN \E j \in DOMAIN jobs : Class(n) = {j} /\ jobs[j].tags = {}
            ELSE LET All == UNION {{<<k, c>> : c \in DigitChoices(project.matrices[k].dims)} :
                                      k \in MatricesOf(n)}
                     TagsOf(a) == Chosen(project.matrices[a[1]].dims, a[2])
                 IN  \A T \in {TagsOf(a) : a \in All} \cup {jobs[j].tags : j \in Class(n)} :
                         Cardinality({j \in Class(n) : jobs[j].tags = T}) =
                         Cardinality({a \in All : TagsOf(a) = T})

\* Where the test cases have no cyclic dependency, the jobs have none.
AcyclicJobs == IsAcyclic(project.graph) => IsAcyclic(JobGraph)

\* There is a job to start with if there is a test case to start with; this is
\* what the assertion in SerialJobScheduler::start() relies on.
RootedJobs == phase = "done" /\ Roots(project.graph) # {} => Roots(JobGraph) # {}

\* "Apply its assigned tags to reevaluate bindings in that job": although one
\* test case object serves all its jobs, its Depends items see the tags of the
\* visited job and nothing of other jobs, if no two matrices share the test case.
FreshEvaluation ==
    \A j \in current :
        LET n == jobs[j].name
        IN  Cardinality(MatricesOf(n)) <= 1 =>
                props[n] = jobs[j].tags \cup
                    {<<l, Default>> : l \in project.declared[n] \ LabelsOf(jobs[j].tags)}

\* What doc/depends-item.rst says of Depends item i: with explicit tags the jobs that
\* have exactly these, once for each tag set; without, an untagged dependency as well
\* as "all jobs of A that have at least the same tags as B" (a job without tags
\* "matches all instances of A").
Related(i, j, p) ==
    IF SpecifiesTags(i)
    THEN LET list == EvaluateTags(Items[i].tags, jobs[j].name)
         IN  {<<i, t>> : t \in {k \in DOMAIN list : list[k] = jobs[p].tags}}
    ELSE IF jobs[p].tags = {} \/ jobs[j].tags \subseteq jobs[p].tags THEN {<<i, 1>>} ELSE {}

\* No two jobs of a test case have the same tags: it is neither in several matrices
\* that produce the same tags nor in one with equal rows.
Distinct(n) == \A p, q \in Class(n) : jobs[p].tags = jobs[q].tags => p = q

\* The code takes the jobs that have the same tags, and no more, if there are several,
\* and a single job whatever its tags are.  The documentation means the same for job
\* j and dependency n unless one of several jobs of n has more tags than j (or none),
\* or the only job of n lacks a tag of j.
Agreed(n, j) ==
    jobs[j].tags # {} =>
        \A p \in Class(n) :
            IF Cardinality(Class(n)) > 1
            THEN jobs[p].tags # {} /\ (jobs[j].tags \subseteq jobs[p].tags => jobs[p].tags = jobs[j].tags)
            ELSE jobs[p].tags = {} \/ jobs[j].tags \subseteq jobs[p].tags

Unequivocal(n, j) ==
    /\ Distinct(n)
    /\ \A i \in EdgesBetween(project.graph, n, jobs[j].name) : SpecifiesTags(i) \/ Agreed(n, j)

\* Once all Depends items of a job have been treated, it has an edge from another job
\* for each relation that the documentation names, and no other, wherever the code
\* means to do what the documentation says; see Agreed for the cases left out.
EdgesMatchDepends ==
    phase = "resolve" /\ agenda = {} /\ classes = {} =>
        \A j \in current : \A n \in Tests : Unequivocal(n, j) =>
            \A p \in Class(n) :
                Cardinality(EdgesBetween(JobGraph, p, j)) =
                Cardinality(UNION {Related(i, j, p) :
                    i \in EdgesBetween(project.graph, n, jobs[j].name)})
=============================================================================
