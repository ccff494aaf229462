---------------------------- MODULE ProjectLoading ----------------------------
(***************************************************************************)
(* From the command line to the test cases of a project: CommandlineParser,*)
(* ProfileLoader, ProjectResolver with HierarchyValidator and the parsers  *)
(* of custom items, and the lookup of a test case in JobDispatcher.        *)
(*                                                                         *)
(* A document is the tree of its items, in preorder, each with the index   *)
(* of its parent.  What the QML engine does with it is given: it compiles  *)
(* or not, and its expressions may raise errors.  A name is a text and the  *)
(* number at its end, if it has one.                                       *)
(* A path is a list of directories from the root of the file system on; the *)
(* first "." or ".." in it starts a detour, and the file system says where  *)
(* that leads.  So a file has one path without detour, and others with one. *)
(* Assertions are compiled in.                                             *)
(* DependencyResolver::beginResolve(), between beginLoad() and             *)
(* completeLoad(), is CycleCheck and does not change documents.            *)
(***************************************************************************)
EXTENDS Integers, Sequences, FiniteSets, Functions

CONSTANTS
    Inputs,   \* command lines, with the file systems they are given in
    Cwd,      \* the current directory
    Config    \* the profile sub-directory of the config directory

Directories == Seq(STRING)
FilePaths == [dir : Directories, via : STRING, name : STRING]
NoPath == [dir |-> <<>>, via |-> "", name |-> ""]

\* Documents are in finitely many files, and refer to files: a reference is relative, or it
\* is absolute and leads to a directory.
ASSUME InputsAssumption ==
    \A i \in Inputs :
        /\ i.args.paths \in Seq(Directories)
        /\ IsFiniteSet(DOMAIN i.disk.at)
        /\ \A p \in DOMAIN i.disk.at :
            /\ p \in FilePaths \ {NoPath} /\ p.via = ""
            /\ i.disk.at[p].refs \in Seq(Range(i.disk.at[p].refs))
            /\ \A r \in Range(i.disk.at[p].refs) :
                /\ r.dir \in Directories /\ r.via \in STRING /\ r.name \in STRING
                /\ r.absolute => r.via = "" \/ i.disk.leads[<<r.dir, r.via>>] \in Directories

Types == {"Component", "Depends", "Dimension", "Exports", "Matrix", "Project", "Testcase"}

\* "QObject" stands for any other type.  What is bound to a tag is a list, or a single
\* value; or it is refused as it is written, or undefined when it is evaluated; or else a
\* real number, or an object that is no list.
ASSUME DocumentsAssumption ==
    \A i \in Inputs : \A p \in DOMAIN i.disk.at :
        LET items == i.disk.at[p].items IN
        /\ items \in Seq(Range(items)) \ {<<>>} /\ items[1].parent = 0
        /\ \A k \in DOMAIN items : k # 1 => items[k].parent \in 1..k - 1
        /\ \A k \in DOMAIN items : /\ items[k].type \in Types \cup {"QObject"}
                                  /\ items[k].bindings \in Seq(Range(items[k].bindings))
        /\ \A k \in DOMAIN items : \A b \in Range(items[k].bindings) :
                /\ b.entries \in Seq(Range(b.entries))
                /\ b.kind \in {"array", "scalar", "emptyList", "object", "undefined", "other"}
                /\ b.kind = "scalar" => Len(b.entries) = 1

VARIABLES
    input,
    stage,        \* of execRunCommand(); error, exit, crash, lost and failed are its ends without a verdict
    file,         \* projectFilepath of the options
    documents,    \* m_documents: path, state and names of the items of each
    unresolved, resolved,
    hasErrors,    \* of the resolver
    current,      \* m_currentDocument: alive or expired
    instances,    \* instancesCount of test cases
    completed,    \* how many documents completeLoad() has completed
    ran           \* history: pairs of a test case and the item executed for it

vars == <<input, stage, file, documents, unresolved, resolved, hasErrors, current, instances,
          completed, ran>>

args == input.args
disk == input.disk

Init ==
    /\ input \in Inputs /\ stage = "commandline" /\ file = NoPath
    /\ documents = <<>> /\ unresolved = <<>> /\ resolved = {} /\ hasErrors = FALSE
    /\ current = "expired" /\ instances = 0 /\ completed = 0 /\ ran = {}

Goto(next) == stage' = next
UnchangedByLoading == UNCHANGED <<input, file, completed, ran>>
----------------------------------------------------------------------------
(* CommandlineParser and ProfileLoader.                                    *)

Place(dir, via) == IF via = "" THEN dir ELSE disk.leads[<<dir, via>>]

\* The file of a path, which is its path without detours (QDir::cleanPath()).
FileOf(path) == [dir |-> Place(path.dir, path.via), via |-> "", name |-> path.name]

QmlFiles(dir) == {p \in DOMAIN disk.at : p.dir = dir}
Parent(dir) == IF dir = <<>> THEN <<>> ELSE SubSeq(dir, 1, Len(dir) - 1)

\* absoluteDir() of a directory is the directory it is in, unless its name ends
\* with a slash.
SearchedDir(f) == CASE f.kind = "unset" -> Cwd
                    [] f.kind = "dir" -> Parent(f.dir)
                    [] f.kind = "slash" -> f.dir

\* The name of the file that is found is taken relative to the current directory.
ParseRun ==
    \/ args.file.kind = "file" /\ file' = FileOf(args.file.path) /\ Goto("profile")
    \/ args.file.kind = "missing" /\ Goto("error") /\ UNCHANGED file
    \/ /\ args.file.kind \in {"unset", "dir", "slash"}
       /\ LET found == QmlFiles(SearchedDir(args.file)) IN
          \/ Cardinality(found) # 1 /\ Goto("error") /\ UNCHANGED file
          \/ \E p \in found :
                found = {p} /\ file' = [dir |-> Cwd, via |-> "", name |-> p.name] /\ Goto("profile")

ParseCommandLine ==
    /\ stage = "commandline"
    /\ \/ args.command = "run" /\ Len(args.profiles) <= 1 /\ ParseRun
       \/ args.command = "run" /\ Len(args.profiles) > 1 /\ Goto("error") /\ UNCHANGED file
       \/ args.command \in {"help", "version"} /\ Goto("end") /\ UNCHANGED file
       \/ args.command \notin {"run", "help", "version"} /\ Goto("error") /\ UNCHANGED file
    /\ UNCHANGED <<input, documents, unresolved, resolved, hasErrors, current, instances, completed, ran>>

ProfilePaths == Append(args.paths, file.dir)
ProfileIn(dir) == [dir |-> dir, via |-> "", name |-> args.profiles[1]]
HasProfile(dir) == ProfileIn(dir) \in DOMAIN disk.profiles

\* The first directory that has the profile.
IsFirst(i, dirs) == HasProfile(dirs[i]) /\ \A j \in 1..i - 1 : ~HasProfile(dirs[j])

\* What is found must be readable, and then well-formed.
LoadsFrom(dirs) ==
    \E i \in DOMAIN dirs : IsFirst(i, dirs) /\ disk.profiles[ProfileIn(dirs[i])] = "good"

LoadProfile ==
    /\ stage = "profile"
    /\ IF args.profiles = <<>> \/ LoadsFrom(ProfilePaths)
       THEN Goto("root") ELSE Goto("error")
    /\ UNCHANGED <<input, file, documents, unresolved, resolved, hasErrors, current, instances, completed, ran>>
----------------------------------------------------------------------------
(* HierarchyValidator.                                                     *)

AllowedChildren(type) ==
    CASE type = "Component" -> {"Component", "QObject"}
      [] type \in {"Depends", "Dimension", "Exports"} -> {}
      [] type = "Matrix" -> {"Dimension"}
      [] type = "Project" -> {"Matrix", "Testcase"}
      [] type = "Testcase" -> {"Component", "Depends", "Exports", "Matrix", "QObject"}

AllowedParents(type) ==
    CASE type = "Component" -> {"Component", "Testcase"}
      [] type \in {"Depends", "Exports"} -> {"Testcase"}
      [] type = "Dimension" -> {"Matrix"}
      [] type = "Matrix" -> {"Project", "Testcase"}
      [] type = "Project" -> {}
      [] type = "Testcase" -> {"Project"}

RootAllowed == {"Matrix", "Project", "Testcase"}

Inherits(type, base) == type = base \/ base = "QObject" \/ (type = "Testcase" /\ base = "Component")

\* accept() visits items of qst whose parents are items of qst.
Visited(items) ==
    LET visited[i \in DOMAIN items] ==
            items[i].type \in Types /\ (items[i].parent = 0 \/ visited[items[i].parent])
    IN {i \in DOMAIN items : visited[i]}

ChildrenAllowed(items, i) ==
    \A k \in DOMAIN items :
        items[k].parent = i => \E base \in AllowedChildren(items[i].type) : Inherits(items[k].type, base)

ParentAny(items, i) == TRUE        \* mutant: only the children are looked at
ParentAllowed(items, i) ==
    IF items[i].parent = 0
    THEN items[i].type \in RootAllowed
    ELSE \E base \in AllowedParents(items[i].type) : Inherits(items[items[i].parent].type, base)

ValidHierarchy(items) ==
    \A i \in Visited(items) : ChildrenAllowed(items, i) /\ ParentAllowed(items, i)
----------------------------------------------------------------------------
(* Custom items: the parsers of Dimension and Depends, and Matrix.         *)

OfType(items, type) == {i \in DOMAIN items : items[i].type = type}

\* verifyBindings(): each tag once, no list that is empty as it is written.
Verified(bindings) ==
    /\ \A i, j \in DOMAIN bindings : bindings[i].tag = bindings[j].tag => i = j
    /\ \A i \in DOMAIN bindings : bindings[i].kind # "emptyList" /\ bindings[i].kind # "object"

Compiles(doc) ==
    /\ doc.fails # "compile"
    /\ \A i \in OfType(doc.items, "Dimension") \cup OfType(doc.items, "Depends") :
            Verified(doc.items[i].bindings)

ArrayLengths(bindings) == {Len(b.entries) : b \in {c \in Range(bindings) : c.kind = "array"}}

HasKind(bindings, kind) == \E b \in Range(bindings) : b.kind = kind

\* applyBindings(): values are evaluated, and rows made of them.  An undefined value ends
\* the program, and so do lists of different lengths; a real number that is computed, and
\* an object that is no list, fail an assertion.  A Dimension without bindings is not parsed.
Unusable(bindings) == HasKind(bindings, "undefined") \/ Cardinality(ArrayLengths(bindings)) > 1
Unexpected(bindings) == HasKind(bindings, "other")
Applicable(bindings) == ~Unusable(bindings) /\ ~Unexpected(bindings)

RowCount(bindings) ==
    IF bindings = <<>> THEN 0
    ELSE IF ArrayLengths(bindings) = {} THEN 1 ELSE CHOOSE n \in ArrayLengths(bindings) : TRUE

EntryOfFirst(b, i) == b.entries[1]           \* mutant: always the first one
EntryOf(b, i) == IF i <= Len(b.entries) THEN b.entries[i] ELSE b.entries[1]
Rows(bindings) ==
    [i \in 1..RowCount(bindings) |-> {<<b.tag, EntryOf(b, i)>> : b \in Range(bindings)}]

\* Matrix() leaves m_scope uninitialized until AfterClassBegin, but a literal is
\* written to `testcases` before.
WritesTooEarly(doc) == \E i \in OfType(doc.items, "Matrix") : doc.items[i].testcases = "literal"

\* A bound list is written in completeCreate(), when the scope is known.
WritesInTestcase(doc) ==
    \E i \in OfType(doc.items, "Matrix") :
        /\ doc.items[i].testcases = "binding" /\ doc.items[i].parent # 0
        /\ doc.items[doc.items[i].parent].type = "Testcase"

HasEmptyDimension(doc) ==
    \E i \in OfType(doc.items, "Dimension") : Rows(doc.items[i].bindings) = <<>>
----------------------------------------------------------------------------
(* ProjectResolver::beginCreate().                                         *)

\* Component::handleParserEvent(): a test case without a name gets the next number.
NoNumber == -1
NoName == [text |-> "", number |-> NoNumber]
DefaultName(n) == [text |-> "testcase-", number |-> n]
Unnamed(items) == {i \in OfType(items, "Testcase") : items[i].name = NoName}
NamesFrom(items, count) ==
    [i \in DOMAIN items |->
        IF i \in Unnamed(items)
        THEN DefaultName(count + Cardinality({k \in Unnamed(items) : k < i}))
        ELSE items[i].name]

Exists(path) == FileOf(path) \in DOMAIN disk.at
Doc(path) == disk.at[FileOf(path)]
IsProject(path) == Doc(path).items[1].type = "Project"
IsTestcase(path) == Doc(path).items[1].type = "Testcase"
Missing(path) == ~(Exists(path) /\ Compiles(Doc(path)))

Document(path, state, names) == [path |-> path, state |-> state, names |-> names]

\* Errors of earlier documents keep this one from being created, too.
Created(path) == ValidHierarchy(Doc(path).items) /\ ~hasErrors
Begun(path) ==
    IF Created(path) THEN Document(path, "Creating", NamesFrom(Doc(path).items, instances))
                     ELSE Document(path, "Undefined", [i \in DOMAIN Doc(path).items |-> Doc(path).items[i].name])

BindingsApply(path) ==
    \A i \in OfType(Doc(path).items, "Dimension") : Applicable(Doc(path).items[i].bindings)

\* Objects are created: expressions of dimensions are evaluated, and the literal of
\* a Matrix meets a scope that may be anything.  Whatever comes first ends the program.
CreationExits(path) ==
    /\ \/ WritesTooEarly(Doc(path))
       \/ \E i \in OfType(Doc(path).items, "Dimension") :
            LET bindings == Doc(path).items[i].bindings
            IN Unusable(bindings) /\ (Unexpected(bindings) => HasKind(bindings, "undefined"))
    /\ Goto("exit")
    /\ UNCHANGED <<documents, unresolved, resolved, hasErrors, current, instances>> /\ UnchangedByLoading

\* The root of a document must be an item of qst: an assertion of beginCreate().
RootIsItem(path) == Doc(path).items[1].type \in Types
CreationAsserts(path) ==
    /\ \/ \E i \in OfType(Doc(path).items, "Dimension") : Unexpected(Doc(path).items[i].bindings)
       \/ BindingsApply(path) /\ ~RootIsItem(path)
    /\ Goto("crash")
    /\ UNCHANGED <<documents, unresolved, resolved, hasErrors, current, instances>> /\ UnchangedByLoading

CreationGoesOn(path) == BindingsApply(path) /\ RootIsItem(path)

CountInstances(path) ==
    instances' = IF Created(path) THEN instances + Cardinality(Unnamed(Doc(path).items)) ELSE instances

\* absoluteFilePath() leaves detours in a relative path, cleanPath() does not.
Absolute(ref, dir) ==
    IF ref.absolute THEN FileOf([dir |-> ref.dir, via |-> ref.via, name |-> ref.name])
                    ELSE [dir |-> dir \o ref.dir, via |-> ref.via, name |-> ref.name]
MakeAbsoluteFromRoot(ref, dir) == Absolute(ref, file.dir)     \* mutant: relative to the root
MakeAbsolute(ref, dir) == Absolute(ref, dir)

\* Relative to where the document is, whatever its path.
References(path) ==
    IF IsProject(path)
    THEN [i \in DOMAIN Doc(path).refs |-> MakeAbsolute(Doc(path).refs[i], FileOf(path).dir)] ELSE <<>>
----------------------------------------------------------------------------
(* beginLoad() and completeLoad().                                         *)

DefaultProject == Document(NoPath, "Creating", <<NoName>>)

BeginRoot ==
    /\ stage = "root"
    /\ \/ /\ Missing(file) /\ Goto("error") /\ hasErrors' = TRUE
          /\ UNCHANGED <<documents, unresolved, resolved, current, instances>> /\ UnchangedByLoading
       \/ ~Missing(file) /\ (CreationExits(file) \/ CreationAsserts(file))
       \/ /\ ~Missing(file) /\ CreationGoesOn(file)
          /\ current' = "alive" /\ resolved' = {file} /\ CountInstances(file)
          /\ hasErrors' = ~Created(file)
          /\ \/ /\ ~Created(file) /\ Goto("error") /\ UNCHANGED <<documents, unresolved>>
             \/ /\ Created(file) /\ IsTestcase(file) /\ Goto("references")
                /\ documents' = <<DefaultProject, Begun(file)>> /\ unresolved' = <<>>
             \/ /\ Created(file) /\ IsProject(file)
                /\ IF Doc(file).fails = "references" THEN Goto("exit") ELSE Goto("references")
                /\ documents' = <<Begun(file)>> /\ unresolved' = References(file)
             \/ /\ Created(file) /\ ~IsProject(file) /\ ~IsTestcase(file)
                /\ Goto("crash") /\ UNCHANGED <<documents, unresolved>>
          /\ UnchangedByLoading

\* The loop over unresolved references, up to the second reference by one path.
RefuseReference ==
    /\ stage = "references" /\ unresolved # <<>> /\ Head(unresolved) \in resolved
    /\ hasErrors' = TRUE /\ Goto("error")
    /\ UNCHANGED <<documents, unresolved, resolved, current, instances>> /\ UnchangedByLoading

ResolvesAgain(ref) == TRUE         \* mutant: references are not remembered
Resolves(ref) == ref \notin resolved

\* The message about a file that does not exist takes the name of the project from
\* the document begun last, which is gone if it was invalid.
FileIsMissing(ref) ==
    /\ ~Exists(ref) /\ hasErrors' = TRUE
    /\ IF current = "expired" THEN Goto("crash") ELSE UNCHANGED stage
    /\ unresolved' = Tail(unresolved) /\ UNCHANGED <<documents, current, instances>>

DocumentIsInvalid(ref) ==
    /\ Exists(ref) /\ Missing(ref) /\ hasErrors' = TRUE /\ current' = "expired"
    /\ unresolved' = Tail(unresolved) /\ UNCHANGED <<stage, documents, instances>>

\* The loop goes on to use its reference to the first element of a list to which
\* the references of a nested project have been appended; it may be gone by then.
DocumentIsBegun(ref) ==
    /\ ~Missing(ref) /\ CreationGoesOn(ref) /\ CountInstances(ref)
    /\ hasErrors' = (hasErrors \/ ~Created(ref)) /\ current' = "alive"
    /\ documents' = Append(documents, Begun(ref))
    /\ unresolved' = Tail(unresolved) \o References(ref)
    /\ \/ IsProject(ref) /\ Doc(ref).fails = "references" /\ Goto("exit")
       \/ (IsProject(ref) => Doc(ref).fails # "references") /\ UNCHANGED stage
       \/ References(ref) # <<>> /\ Goto("crash")

ResolveReference ==
    LET ref == Head(unresolved) IN
    /\ stage = "references" /\ unresolved # <<>> /\ Resolves(ref)
    /\ \/ /\ FileIsMissing(ref) \/ DocumentIsInvalid(ref) \/ DocumentIsBegun(ref)
          /\ resolved' = resolved \cup {ref} /\ UnchangedByLoading
       \/ ~Missing(ref) /\ (CreationExits(ref) \/ CreationAsserts(ref))

\* The test cases of the documents, as pairs of positions.
TestcasesOf(docs) ==
    {t \in (DOMAIN docs) \X UNION {DOMAIN docs[e].names : e \in DOMAIN docs} :
        /\ docs[t[1]].path # NoPath /\ t[2] \in OfType(Doc(docs[t[1]].path).items, "Testcase")}
NameOf(docs, t) == docs[t[1]].names[t[2]]

Clash == \E s, t \in TestcasesOf(documents) : s # t /\ NameOf(documents, s) = NameOf(documents, t)

FindDuplicates ==
    /\ stage = "references" /\ unresolved = <<>>
    /\ hasErrors' = (hasErrors \/ Clash)
    /\ IF hasErrors' THEN Goto("error") ELSE Goto("resolver")
    /\ UNCHANGED <<documents, unresolved, resolved, current, instances>> /\ UnchangedByLoading

\* beginResolve() accepts the project, or not.
DependenciesResolved ==
    /\ stage = "resolver" /\ (Goto("complete") \/ Goto("rejected"))
    /\ UNCHANGED <<documents, unresolved, resolved, hasErrors, current, instances>> /\ UnchangedByLoading

CompleteDocument ==
    LET path == documents[completed + 1].path IN
    /\ stage = "complete" /\ completed < Len(documents)
    /\ \/ /\ path # NoPath /\ Doc(path).fails = "complete" /\ hasErrors' = TRUE /\ Goto("error")
       \/ /\ path # NoPath /\ Goto("exit") /\ UNCHANGED hasErrors
          /\ Doc(path).fails = "complete" \/ WritesInTestcase(Doc(path)) \/ HasEmptyDimension(Doc(path))
       \/ /\ path # NoPath => /\ Doc(path).fails # "complete"
                              /\ ~WritesInTestcase(Doc(path)) /\ ~HasEmptyDimension(Doc(path))
          /\ UNCHANGED <<stage, hasErrors>>
    /\ completed' = completed + 1 /\ current' = "alive"
    /\ UNCHANGED <<input, file, documents, unresolved, resolved, instances, ran>>

LoadEnds ==
    /\ stage = "complete" /\ completed = Len(documents) /\ Goto("jobs")
    /\ UNCHANGED <<documents, unresolved, resolved, hasErrors, current, instances>> /\ UnchangedByLoading
----------------------------------------------------------------------------
(* JobDispatcher::dispatch(): the document of a job is loaded again, and   *)
(* its test case sought by name.                                           *)

DispatchedItems(t) == Doc(documents[t[1]].path).items
DispatchedNames(t) == NamesFrom(DispatchedItems(t), 0)

\* The root of the document is looked at first; a Project is named, too.
LookedUp(t) ==
    IF DispatchedNames(t)[1] = NameOf(documents, t) THEN {1}
    ELSE {i \in OfType(DispatchedItems(t), "Testcase") : DispatchedNames(t)[i] = NameOf(documents, t)}

\* The properties that tags are written to: an assertion says the test case has them.
HasTags == \E d \in DOMAIN documents : documents[d].path # NoPath
                                        /\ OfType(Doc(documents[d].path).items, "Matrix") # {}

\* The document may not be loaded again, its working directory not be made, nor it be
\* completed: that ends the program, too.
Dispatch(t) ==
    /\ stage = "jobs" /\ \A pair \in ran : pair[1] # t
    /\ \/ LookedUp(t) = {} /\ Goto("lost") /\ UNCHANGED ran
       \/ Goto("failed") /\ UNCHANGED ran
       \/ HasTags /\ Goto("crash") /\ UNCHANGED ran
       \/ \E i \in LookedUp(t) :
            \/ DispatchedItems(t)[i].type = "Testcase" /\ ran' = ran \cup {<<t, i>>} /\ UNCHANGED stage
            \/ DispatchedItems(t)[i].type # "Testcase" /\ Goto("crash") /\ UNCHANGED ran
    /\ UNCHANGED <<input, file, documents, unresolved, resolved, hasErrors, current, instances, completed>>

AllRan ==
    /\ stage = "jobs" /\ Cardinality(ran) = Cardinality(TestcasesOf(documents)) /\ Goto("end")
    /\ UNCHANGED <<documents, unresolved, resolved, hasErrors, current, instances>> /\ UnchangedByLoading

Next ==
    \/ ParseCommandLine \/ LoadProfile \/ BeginRoot \/ RefuseReference \/ ResolveReference
    \/ FindDuplicates \/ DependenciesResolved \/ CompleteDocument \/ LoadEnds
    \/ (\E t \in TestcasesOf(documents) : Dispatch(t)) \/ AllRan

Spec == Init /\ [][Next]_vars
----------------------------------------------------------------------------
(* Properties.                                                             *)

Accepted == stage \in {"resolver", "rejected", "complete", "jobs", "end"}
Paths == {documents[d].path : d \in DOMAIN documents} \ {NoPath}

Files == {FileOf(p) : p \in Paths}

\* The files a document refers to: relative to the directory that document is in.
Expected(f) ==
    IF Exists(f) /\ IsProject(f)
    THEN [i \in DOMAIN Doc(f).refs |->
            LET ref == Doc(f).refs[i]
            IN [dir |-> Place(IF ref.absolute THEN ref.dir ELSE FileOf(f).dir \o ref.dir, ref.via),
                via |-> "", name |-> ref.name]]
    ELSE <<>>

\* No path is loaded twice, whatever refers to whom.  A project that is accepted consists
\* of the given file and of everything it refers to, directly or not, and nothing else;
\* its test cases have names of their own; and a file that was loaded once more, by a path
\* with another detour, has no test case that was named (ProjectResolver::beginLoad(), which
\* says "referenced multiple times" of paths and not of files).
NoneTwice == \A d, e \in DOMAIN documents : documents[d].path = documents[e].path => d = e
Complete ==
    /\ file \in Files
    /\ \A f \in Files : Range(Expected(f)) \subseteq Files
    /\ \A f \in Files \ {file} : \E g \in Files : f \in Range(Expected(g))
    /\ \A d \in DOMAIN documents : documents[d].state = "Creating"
NamedApart ==
    \A s, t \in TestcasesOf(documents) : NameOf(documents, s) = NameOf(documents, t) => s = t
RepeatedNameless ==
    \A d, e \in DOMAIN documents :
        d # e /\ documents[d].path # NoPath /\ FileOf(documents[d].path) = FileOf(documents[e].path) =>
            OfType(Doc(documents[d].path).items, "Testcase") \subseteq Unnamed(Doc(documents[d].path).items)
PathLoadedOnce ==
    NoneTwice /\ (Accepted /\ documents # <<>> => Complete /\ NamedApart /\ RepeatedNameless)

\* Where the documentation allows an item ("Locations" in src/doc); other QML
\* objects belong to test cases and components.
Locations ==
    {<<"Component", "Testcase">>, <<"Component", "Component">>, <<"Depends", "Testcase">>,
     <<"Exports", "Testcase">>, <<"Dimension", "Matrix">>, <<"Matrix", "Project">>,
     <<"Matrix", "Testcase">>, <<"Testcase", "Project">>,
     <<"QObject", "Testcase">>, <<"QObject", "Component">>}

\* Items inside another QML object are not looked at (QstItem::accept()), though a test
\* case among them is found and executed: only the others are in one of their places.
WellNestedAbove(items) ==
    /\ items[1].type \in RootAllowed
    /\ \A i \in DOMAIN items : items[i].parent \in Visited(items) =>
            <<items[i].type, items[items[i].parent].type>> \in Locations

\* Row i has entry i of every list, and the one value of what is no list.
PairedRows(bindings) ==
    /\ bindings # <<>> /\ Rows(bindings) # <<>>
    /\ \A b \in Range(bindings), i \in DOMAIN Rows(bindings) :
        /\ {entry \in Rows(bindings)[i] : entry[1] = b.tag}
              = {<<b.tag, b.entries[IF b.kind = "array" THEN i ELSE 1]>>}
        /\ b.kind = "array" => Len(b.entries) = Len(Rows(bindings))

\* What reaches the scheduler is nested the way the documentation says, down to the first
\* QML object that is no item of qst, below which nothing is looked at; and each Dimension
\* has rows, which pair the entries of its lists with every other value, none left over
\* (HierarchyValidator, DimensionParser; src/doc/dimension-item.rst, "Multiple arrays").
ExecutedIsWellFormed ==
    stage = "jobs" =>
        \A p \in Paths :
            /\ WellNestedAbove(Doc(p).items)
            /\ \A i \in OfType(Doc(p).items, "Dimension") : PairedRows(Doc(p).items[i].bindings)

\* The file the command line asks for: that is given, or the only one in the directory
\* (src/doc/command-line-interface.rst:45-47).
GivenFiles == QmlFiles(IF args.file.kind = "unset" THEN Cwd ELSE args.file.dir)
Root == IF args.file.kind = "file" THEN FileOf(args.file.path) ELSE CHOOSE p \in GivenFiles : TRUE

CommandLineFaulty ==
    \/ args.command \notin {"run", "help", "version"}
    \/ args.command = "run" /\ \/ Len(args.profiles) > 1 \/ args.file.kind = "missing"
                               \/ args.file.kind # "file" /\ Cardinality(GivenFiles) # 1

\* A profile is sought in the directories of -P, in that of the project, and in that of the
\* configuration, in this order (src/doc/command-line-interface.rst:63-66).
DocumentedPaths == args.paths \o <<Root.dir, Config>>
ProfileFaulty == args.profiles # <<>> /\ ~LoadsFrom(DocumentedPaths)

\* Everything that file refers to, directly or not: the least set with the file that has
\* whatever its members refer to.
Mentioned == {Root} \cup UNION {Range(Expected(p)) : p \in DOMAIN disk.at}
Closed(S) == Root \in S /\ \A p \in S : Range(Expected(p)) \subseteq S
Needed == {p \in Mentioned : \A S \in SUBSET Mentioned : Closed(S) => p \in S}

Faulty(path) ==
    \/ ~Exists(path) \/ Doc(path).fails # "never" \/ ~WellNestedAbove(Doc(path).items)
    \/ WritesInTestcase(Doc(path)) \/ ~Compiles(Doc(path))
    \/ \E i \in OfType(Doc(path).items, "Dimension") :
            LET bindings == Doc(path).items[i].bindings IN
            \/ bindings = <<>>
            \/ \E b \in Range(bindings) : b.kind = "undefined" \/ b.entries = <<>>
            \/ \E b, c \in Range(bindings) :
                    b.kind = "array" /\ c.kind = "array" /\ Len(b.entries) # Len(c.entries)

ReferredTwice ==
    \/ \E p \in Needed : Root \in Range(Expected(p))
    \/ \E p, q \in Needed : \E i \in DOMAIN Expected(p), j \in DOMAIN Expected(q) :
            <<p, i>> # <<q, j>> /\ Expected(p)[i] = Expected(q)[j]

Given == UNION {{p} \X OfType(Doc(p).items, "Testcase") : p \in {q \in Needed : Exists(q)}}
GivenName(t) == Doc(t[1]).items[t[2]].name
NamesMeet == \E s, t \in Given : s # t /\ GivenName(s) # NoName /\ GivenName(s) = GivenName(t)

\* What can be wrong with the command line, with a profile, with one of the documents
\* the file refers to, directly or not, or with two of them together.
Reason ==
    \/ CommandLineFaulty \/ ProfileFaulty
    \/ (\E p \in Needed : Faulty(p)) \/ ReferredTwice \/ NamesMeet

\* Four things the documentation allows, and the program may refuse.  --file may name a
\* directory (command-line-interface.rst:45-47), but the one it is in is searched, and the
\* file that is found is opened in the current directory.
DirectoryIsGiven ==
    args.file.kind = "dir" \/ (args.file.kind = "slash" /\ args.file.dir # Cwd)

\* A profile may be in the directory of the configuration (command-line-interface.rst:63-66;
\* src/tests/auto/misc/test-misc.cpp:258-261), which is not searched.
ProfileInConfig == args.profiles # <<>> /\ IsFirst(Len(DocumentedPaths), DocumentedPaths)

\* `testcases` may be a plain string (dimension-item.rst:37-38), which may be refused.
LiteralIsGiven == \E p \in Needed : Exists(p) /\ WritesTooEarly(Doc(p))

\* A test case without a name "is assigned a unique name" (component-item.rst:45-46), but its
\* number is counted without a look at the names of others.
NumberIsTaken ==
    \E s, t \in Given, n \in 0..Cardinality(Given) :
        GivenName(s) = DefaultName(n) /\ GivenName(t) = NoName

Disagreement == DirectoryIsGiven \/ ProfileInConfig \/ LiteralIsGiven \/ NumberIsTaken

\* A project without fault is not refused: if loading ends with an error, there is a
\* reason for it, or one of four things is used that the documentation promises and the
\* program does not keep (CommandlineParser, ProfileLoader, ProjectResolver, Matrix).
RefusedForAReason == stage \in {"error", "exit"} => Reason \/ Disagreement

\* A job executes the test case it was made for
\* (src/doc/component-item.rst:45-46: a component without a name "is assigned a
\* unique name"; JobDispatcher::dispatch() seeks it by that name).
FoundAgain == stage # "lost" /\ \A pair \in ran : pair[1][2] = pair[2]
=============================================================================
