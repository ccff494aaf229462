------------------------- MODULE ProjectLoading_proof -------------------------
(* Whatever documents refer to each other, each path is loaded once, what   *)
(* is accepted is complete, and what is executed is well-formed as far as   *)
(* it is looked at; and what is refused is refused for a reason.            *)
EXTENDS ProjectLoading, FiniteSetTheorems, TLAPS

\* What the loop of beginLoad() knows: everything a loaded document refers to is
\* resolved or about to be; and there is a reference to everything that is not
\* the root.  As long as there is no error, what is resolved has been loaded.
Tracked ==
    /\ file \in Paths
    /\ \A p \in Paths : Range(References(p)) \subseteq resolved \cup Range(unresolved)
    /\ \A p \in (Paths \ {file}) \cup Range(unresolved) : \E q \in Paths : p \in Range(References(q))
    /\ ~hasErrors => /\ resolved \subseteq Paths
                     /\ \A d \in DOMAIN documents : documents[d].state = "Creating"

Shape ==
    /\ input \in Inputs /\ FileOf(file) = file
    /\ \E S : documents \in Seq(S)
    /\ unresolved \in Seq(FilePaths)

Early == {"commandline", "profile", "root"}

IInv ==
    /\ Shape /\ NoneTwice
    /\ Paths \subseteq resolved /\ \A p \in Paths : Exists(p)
    /\ stage \in Early => documents = <<>>
    /\ stage = "references" => Tracked
    /\ Accepted /\ documents # <<>> => Complete /\ NamedApart

-----------------------------------------------------------------------------
(* Facts about the operators.                                              *)

\* When the first of a list is taken and others are appended, the elements are those
\* of the rest and the others (the loop of beginLoad()).
LEMMA RangeOfRest ==
    ASSUME NEW S, NEW u \in Seq(S), u # <<>>, NEW r \in Seq(S)
    PROVE  /\ Tail(u) \o r \in Seq(S)
           /\ Range(Tail(u) \o r) = Range(Tail(u)) \cup Range(r)
           /\ Range(u) = {Head(u)} \cup Range(Tail(u))
<1>1. Tail(u) \in Seq(S) /\ Len(Tail(u)) = Len(u) - 1 /\ Len(u) \in Nat \ {0} /\ Len(r) \in Nat
  OBVIOUS
<1>2. \A i \in 1..Len(u) - 1 : Tail(u)[i] = u[i + 1]
  OBVIOUS
<1>3. Tail(u) \o r \in Seq(S) /\ DOMAIN (Tail(u) \o r) = 1..(Len(u) - 1 + Len(r))
  BY <1>1
<1>4. \A i \in 1..(Len(u) - 1 + Len(r)) :
        (Tail(u) \o r)[i] = IF i <= Len(u) - 1 THEN Tail(u)[i] ELSE r[i - (Len(u) - 1)]
  BY <1>1
<1>5. Range(Tail(u) \o r) \subseteq Range(Tail(u)) \cup Range(r)
  BY <1>1, <1>3, <1>4 DEF Range
<1>6. Range(Tail(u)) \subseteq Range(Tail(u) \o r)
  <2> SUFFICES ASSUME NEW i \in 1..Len(u) - 1 PROVE Tail(u)[i] \in Range(Tail(u) \o r)
    BY <1>1 DEF Range
  <2>1. i \in 1..(Len(u) - 1 + Len(r)) /\ i <= Len(u) - 1
    BY <1>1
  <2>2. (Tail(u) \o r)[i] = Tail(u)[i]
    BY <1>4, <2>1
  <2> QED BY <1>3, <2>1, <2>2 DEF Range
<1>7. Range(r) \subseteq Range(Tail(u) \o r)
  <2> SUFFICES ASSUME NEW i \in 1..Len(r) PROVE r[i] \in Range(Tail(u) \o r)
    BY <1>1 DEF Range
  <2>1. i + (Len(u) - 1) \in 1..(Len(u) - 1 + Len(r)) /\ ~(i + (Len(u) - 1) <= Len(u) - 1)
    BY <1>1
  <2>2. (Tail(u) \o r)[i + (Len(u) - 1)] = r[i]
    BY <1>1, <1>4, <2>1
  <2> QED BY <1>3, <2>1, <2>2 DEF Range
<1>8. Range(u) = {Head(u)} \cup Range(Tail(u))
  <2>1. Head(u) = u[1] /\ 1 \in DOMAIN u /\ DOMAIN u = 1..Len(u) /\ DOMAIN Tail(u) = 1..Len(u) - 1
    BY <1>1
  <2>2. \A i \in DOMAIN u : i # 1 => i - 1 \in DOMAIN Tail(u) /\ Tail(u)[i - 1] = u[i]
    BY <1>1, <1>2, <2>1
  <2>3. \A i \in DOMAIN Tail(u) : i + 1 \in DOMAIN u
    BY <1>1, <2>1
  <2>4. Range(u) \subseteq {Head(u)} \cup Range(Tail(u))
    <3> SUFFICES ASSUME NEW i \in DOMAIN u, i # 1 PROVE u[i] \in Range(Tail(u))
      BY <2>1 DEF Range
    <3> QED BY <2>2 DEF Range
  <2>5. {Head(u)} \cup Range(Tail(u)) \subseteq Range(u)
    BY <1>2, <2>1, <2>3 DEF Range
  <2> QED BY <2>4, <2>5
<1> QED BY <1>3, <1>5, <1>6, <1>7, <1>8

\* The first element and the rest of a list that is not empty.
LEMMA SequenceOfOne ==
    ASSUME NEW S, NEW u \in Seq(S), u # <<>>
    PROVE  Head(u) \in S /\ Tail(u) \in Seq(S)
OBVIOUS

\* A function on 1..n is a list.
LEMMA FunctionIsSequence ==
    ASSUME NEW S, NEW n \in Nat, NEW f \in [1..n -> S] PROVE f \in Seq(S)
OBVIOUS

\* A file has one path without detours; a path and its file have one document, which
\* refers to the same files whatever its path.
LEMMA FilesAreClean ==
    \A p : /\ FileOf(FileOf(p)) = FileOf(p) /\ Exists(FileOf(p)) = Exists(p)
           /\ Doc(FileOf(p)) = Doc(p) /\ Expected(FileOf(p)) = Expected(p)
<1> TAKE p
<1>1. FileOf(FileOf(p)) = FileOf(p)
  BY DEF FileOf, Place
<1>2. Exists(FileOf(p)) = Exists(p) /\ Doc(FileOf(p)) = Doc(p)
  BY <1>1 DEF Exists, Doc
<1>3. IsProject(FileOf(p)) = IsProject(p)
  BY <1>2 DEF IsProject
<1>4. Expected(FileOf(p)) = Expected(p)
  BY <1>1, <1>2, <1>3 DEF Expected
<1> QED BY <1>1, <1>2, <1>4

\* What two lists joined are.
LEMMA JoinedLists == ASSUME NEW S, NEW u \in Seq(S), NEW r \in Seq(S) PROVE u \o r \in Seq(S)
OBVIOUS

\* The parts of a path.
LEMMA PathParts ==
    ASSUME NEW dir \in Directories, NEW via \in STRING, NEW name \in STRING
    PROVE  [dir |-> dir, via |-> via, name |-> name] \in FilePaths
BY Zenon DEF FilePaths

\* makeAbsolute() gives a path to the file that a reference means.
LEMMA AbsolutePaths ==
    ASSUME NEW ref, ref.dir \in Directories, ref.via \in STRING, ref.name \in STRING,
           ref.absolute => ref.via = "" \/ disk.leads[<<ref.dir, ref.via>>] \in Directories,
           NEW dir \in Directories, "" \in STRING
    PROVE  /\ MakeAbsolute(ref, dir) \in FilePaths
           /\ FileOf(MakeAbsolute(ref, dir))
                = [dir |-> Place(IF ref.absolute THEN ref.dir ELSE dir \o ref.dir, ref.via),
                   via |-> "", name |-> ref.name]
<1>1. CASE ref.absolute
  <2>1. PICK place : place = Place(ref.dir, ref.via)
    OBVIOUS
  <2>2. place \in Directories
    BY <1>1, <2>1 DEF Place
  <2>3. MakeAbsolute(ref, dir) = [dir |-> place, via |-> "", name |-> ref.name]
    BY <1>1, <2>1 DEF MakeAbsolute, Absolute, FileOf
  <2>4. MakeAbsolute(ref, dir) \in FilePaths
    BY <2>2, <2>3, PathParts
  <2>5. FileOf([dir |-> place, via |-> "", name |-> ref.name]) = [dir |-> place, via |-> "", name |-> ref.name]
    BY DEF FileOf, Place
  <2> QED BY <1>1, <2>1, <2>3, <2>4, <2>5
<1>2. CASE ~ref.absolute
  <2>1. PICK joined : joined = dir \o ref.dir
    OBVIOUS
  <2>2. joined \in Directories
    BY <2>1, JoinedLists DEF Directories
  <2>3. MakeAbsolute(ref, dir) = [dir |-> joined, via |-> ref.via, name |-> ref.name]
    BY <1>2, <2>1 DEF MakeAbsolute, Absolute
  <2>4. MakeAbsolute(ref, dir) \in FilePaths
    BY <2>2, <2>3, PathParts
  <2>5. FileOf([dir |-> joined, via |-> ref.via, name |-> ref.name])
          = [dir |-> Place(joined, ref.via), via |-> "", name |-> ref.name]
    BY DEF FileOf
  <2> QED BY <1>2, <2>1, <2>3, <2>4, <2>5
<1> QED BY <1>1, <1>2

\* What References() returns are paths of the expected files.
LEMMA ReferencesAreExpected ==
    ASSUME input \in Inputs, NEW path, Exists(path)
    PROVE  /\ References(path) \in Seq(FilePaths) /\ DOMAIN References(path) = DOMAIN Expected(path)
           /\ \A i \in DOMAIN Expected(path) : FileOf(References(path)[i]) = Expected(path)[i]
           /\ Range(Expected(path)) = {FileOf(r) : r \in Range(References(path))}
<1> DEFINE refs == Doc(path).refs
           dir == FileOf(path).dir
<1>1. /\ FileOf(path) \in DOMAIN disk.at /\ refs = disk.at[FileOf(path)].refs
  BY DEF Exists, Doc
<1>2. /\ FileOf(path) \in FilePaths /\ refs \in Seq(Range(refs))
      /\ \A r \in Range(refs) :
            /\ r.dir \in Directories /\ r.via \in STRING /\ r.name \in STRING
            /\ r.absolute => r.via = "" \/ disk.leads[<<r.dir, r.via>>] \in Directories
  BY <1>1, InputsAssumption DEF disk
<1>3. dir \in Directories /\ "" \in STRING
  <2>1. FileOf(path).via = "" /\ FileOf(path).via \in STRING
    BY <1>1, <1>2, InputsAssumption DEF disk, FilePaths
  <2> QED BY <1>2, <2>1 DEF FilePaths
<1> HIDE DEF refs, dir
<1>4. DOMAIN refs = 1..Len(refs) /\ Len(refs) \in Nat /\ \A i \in DOMAIN refs : refs[i] \in Range(refs)
  <2>1. PICK S : refs \in Seq(S)
    BY <1>2
  <2>2. DOMAIN refs = 1..Len(refs) /\ Len(refs) \in Nat
    BY <2>1
  <2> QED BY <2>2 DEF Range
<1>5. \A i \in DOMAIN refs :
        /\ MakeAbsolute(refs[i], dir) \in FilePaths
        /\ FileOf(MakeAbsolute(refs[i], dir))
             = [dir |-> Place(IF refs[i].absolute THEN refs[i].dir ELSE dir \o refs[i].dir, refs[i].via),
                via |-> "", name |-> refs[i].name]
  BY <1>2, <1>3, <1>4, AbsolutePaths
<1>6. CASE ~IsProject(path)
  <2>1. References(path) = <<>> /\ Expected(path) = <<>>
    BY <1>6 DEF References, Expected
  <2>2. <<>> \in Seq(FilePaths) /\ DOMAIN <<>> = {}
    OBVIOUS
  <2> QED BY <2>1, <2>2 DEF Range
<1>7. CASE IsProject(path)
  <2>1. References(path) = [i \in DOMAIN refs |-> MakeAbsolute(refs[i], dir)]
    BY <1>7 DEF References, refs, dir
  <2>2. Expected(path) = [i \in DOMAIN refs |->
            [dir |-> Place(IF refs[i].absolute THEN refs[i].dir ELSE dir \o refs[i].dir, refs[i].via),
             via |-> "", name |-> refs[i].name]]
    BY <1>7 DEF Expected, refs, dir
  <2>3. References(path) \in Seq(FilePaths)
    <3>1. References(path) \in [1..Len(refs) -> FilePaths]
      BY <1>4, <1>5, <2>1
    <3> QED BY <1>4, <3>1, FunctionIsSequence
  <2>4. /\ DOMAIN References(path) = DOMAIN refs /\ DOMAIN Expected(path) = DOMAIN refs
        /\ \A i \in DOMAIN refs : FileOf(References(path)[i]) = Expected(path)[i]
    BY <1>5, <2>1, <2>2
  <2> QED BY <2>3, <2>4 DEF Range
<1> QED BY <1>6, <1>7

-----------------------------------------------------------------------------
(* What steps leave alone.                                                 *)

\* The files do not change, nor what they refer to.
LEMMA FilesStay ==
    ASSUME UNCHANGED input
    PROVE  \A p : /\ FileOf(p)' = FileOf(p) /\ Exists(p)' = Exists(p) /\ Doc(p)' = Doc(p)
                  /\ Expected(p)' = Expected(p) /\ References(p)' = References(p)
<1> TAKE p
<1>1. \A q : FileOf(q)' = FileOf(q)
  BY DEF FileOf, Place, disk
<1>2. Exists(p)' = Exists(p) /\ Doc(p)' = Doc(p)
  BY <1>1 DEF Exists, Doc, disk
<1>3. IsProject(p)' = IsProject(p)
  BY <1>2 DEF IsProject
<1>4. \A d, via : Place(d, via)' = Place(d, via)
  BY DEF Place, disk
<1>5. Expected(p)' = Expected(p)
  BY <1>1, <1>2, <1>3, <1>4 DEF Expected
<1>6. \A ref, d : MakeAbsolute(ref, d)' = MakeAbsolute(ref, d)
  BY <1>1 DEF MakeAbsolute, Absolute
<1>7. References(p)' = References(p)
  BY <1>1, <1>2, <1>3, <1>6 DEF References
<1> QED BY <1>1, <1>2, <1>5, <1>7

\* Nothing is to be shown as long as no document is loaded.
LEMMA NothingLoaded ==
    ASSUME input' \in Inputs, (FileOf(file) = file)', documents' = <<>>, unresolved' \in Seq(FilePaths),
           stage' # "references"
    PROVE  IInv'
<1>1. (\E S : documents \in Seq(S))'
  <2>1. documents' \in Seq({})
    OBVIOUS
  <2> QED BY <2>1
<1>2. Paths' = {} /\ NoneTwice'
  BY DEF Paths, NoneTwice
<1> QED BY <1>1, <1>2 DEF IInv, Shape

\* A step that does not change documents, and accepts nothing that is not complete.
LEMMA SameDocuments ==
    ASSUME IInv, UNCHANGED <<input, file, documents, unresolved, resolved>>,
           stage' \in Early => stage \in Early,
           stage' = "references" => stage = "references" /\ UNCHANGED hasErrors,
           Accepted' => Accepted \/ (Complete /\ NamedApart)
    PROVE  IInv'
<1>1. Paths' = Paths
  BY DEF Paths
<1>2. \A p : /\ FileOf(p)' = FileOf(p) /\ Exists(p)' = Exists(p) /\ Doc(p)' = Doc(p)
             /\ Expected(p)' = Expected(p) /\ References(p)' = References(p)
  BY FilesStay
<1>3. Complete' = Complete
  <2>1. Files' = Files
    BY <1>1, <1>2 DEF Files
  <2> QED BY <1>2, <2>1 DEF Complete
<1>4. NamedApart' = NamedApart
  <2>1. \A t : t \in TestcasesOf(documents)' <=> t \in TestcasesOf(documents)
    BY <1>2 DEF TestcasesOf
  <2>2. \A t : NameOf(documents, t)' = NameOf(documents, t)
    BY DEF NameOf
  <2> QED BY <2>1, <2>2 DEF NamedApart
<1>5. Shape' /\ NoneTwice'
  BY <1>2 DEF IInv, Shape, NoneTwice
<1>6. stage' = "references" => Tracked'
  BY <1>1, <1>2 DEF IInv, Tracked
<1>7. Paths' \subseteq resolved' /\ \A p \in Paths' : Exists(p)'
  BY <1>1, <1>2 DEF IInv
<1> QED BY <1>3, <1>4, <1>5, <1>6, <1>7 DEF IInv

-----------------------------------------------------------------------------
(* What is added to the list of documents.                                 *)

\* A list with one more element.
LEMMA OneMore ==
    ASSUME NEW S, NEW docs \in Seq(S), NEW e
    PROVE  /\ Append(docs, e) \in Seq(S \cup {e})
           /\ DOMAIN Append(docs, e) = DOMAIN docs \cup {Len(docs) + 1}
           /\ Len(docs) + 1 \notin DOMAIN docs
           /\ Append(docs, e)[Len(docs) + 1] = e
           /\ \A d \in DOMAIN docs : Append(docs, e)[d] = docs[d]
<1>1. docs \in Seq(S \cup {e}) /\ e \in S \cup {e}
  OBVIOUS
<1> QED BY <1>1

\* There is nothing without a path.
LEMMA PathsAreNotEmpty ==
    ASSUME input \in Inputs, NEW path, Exists(path)
    PROVE  path # NoPath
<1>1. FileOf(NoPath) = NoPath
  BY DEF FileOf, Place, NoPath
<1>2. NoPath \notin DOMAIN disk.at
  BY InputsAssumption DEF disk
<1> QED BY <1>1, <1>2 DEF Exists

\* beginLoad() has created the document it was given: that is the only one with a
\* path, and what it refers to is to be resolved.
LEMMA RootLoaded ==
    ASSUME IInv, UNCHANGED <<input, file>>, Exists(file), resolved' = {file},
           NEW doc, doc.path = file, doc.state = "Creating",
           \/ documents' = <<doc>>
           \/ documents' = <<DefaultProject, doc>>,
           unresolved' = References(file), stage' \in {"references", "exit"}
    PROVE  IInv'
<1>1. file # NoPath /\ input \in Inputs /\ FileOf(file) = file
  BY PathsAreNotEmpty DEF IInv, Shape
<1>2. \A p : FileOf(p)' = FileOf(p) /\ Exists(p)' = Exists(p) /\ References(p)' = References(p)
  BY FilesStay
<1>3. References(file) \in Seq(FilePaths)
  BY <1>1, ReferencesAreExpected
<1>4. /\ \E S : documents' \in Seq(S)
      /\ Paths' = {file}
      /\ NoneTwice'
      /\ \A d \in DOMAIN documents' : documents'[d].state = "Creating"
  <2>1. CASE documents' = <<doc>>
    <3>1. documents' \in Seq({doc}) /\ DOMAIN documents' = {1} /\ documents'[1] = doc
      BY <2>1
    <3>2. Paths' = {file}
      BY <1>1, <3>1 DEF Paths
    <3> QED BY <3>1, <3>2 DEF NoneTwice
  <2>2. CASE documents' = <<DefaultProject, doc>>
    <3>1. /\ documents' \in Seq({DefaultProject, doc}) /\ DOMAIN documents' = {1, 2}
          /\ documents'[1] = DefaultProject /\ documents'[2] = doc
      BY <2>2
    <3>2. DefaultProject.path = NoPath /\ DefaultProject.state = "Creating"
      BY DEF DefaultProject, Document
    <3>3. Paths' = {file}
      BY <1>1, <3>1, <3>2 DEF Paths
    <3> QED BY <1>1, <3>1, <3>2, <3>3 DEF NoneTwice
  <2> QED BY <2>1, <2>2
<1>5. Shape'
  BY <1>1, <1>2, <1>3, <1>4 DEF Shape
<1>6. Tracked'
  BY <1>2, <1>4 DEF Tracked, Range
<1> QED BY <1>2, <1>4, <1>5, <1>6 DEF IInv, Early, Accepted

\* A reference that cannot be followed: there is an error.
LEMMA ReferenceSkipped ==
    ASSUME IInv, stage = "references", UNCHANGED <<input, file, documents>>,
           unresolved # <<>>, unresolved' = Tail(unresolved),
           resolved' = resolved \cup {Head(unresolved)}, hasErrors' = TRUE,
           stage' \in {"references", "crash"}
    PROVE  IInv'
<1>1. unresolved \in Seq(FilePaths)
  BY DEF IInv, Shape
<1>2. Tail(unresolved) \in Seq(FilePaths)
  BY <1>1, SequenceOfOne
<1>3. Range(unresolved) = {Head(unresolved)} \cup Range(Tail(unresolved))
  <2>1. <<>> \in Seq(FilePaths)
    OBVIOUS
  <2> QED BY <1>1, <2>1, RangeOfRest
<1>4. Paths' = Paths
  BY DEF Paths
<1>5. \A p : FileOf(p)' = FileOf(p) /\ Exists(p)' = Exists(p) /\ References(p)' = References(p)
  BY FilesStay
<1>6. Shape' /\ NoneTwice'
  BY <1>2, <1>5 DEF IInv, Shape, NoneTwice
<1>7. Tracked'
  BY <1>3, <1>4, <1>5 DEF IInv, Tracked
<1> QED BY <1>4, <1>5, <1>6, <1>7 DEF IInv, Early, Accepted

\* A document that is referred to has been created: it is new, and what it refers
\* to joins the references that are left.
LEMMA ReferenceLoaded ==
    ASSUME IInv, stage = "references", UNCHANGED <<input, file>>,
           NEW ref, unresolved # <<>>, ref = Head(unresolved), ref \notin resolved, Exists(ref),
           NEW doc, doc.path = ref, ~hasErrors' => ~hasErrors /\ doc.state = "Creating",
           documents' = Append(documents, doc),
           unresolved' = Tail(unresolved) \o References(ref),
           resolved' = resolved \cup {ref},
           stage' \in {"references", "crash", "exit"}
    PROVE  IInv'
<1>1. ref # NoPath /\ input \in Inputs /\ FileOf(file) = file
  BY PathsAreNotEmpty DEF IInv, Shape
<1>2. \A p : FileOf(p)' = FileOf(p) /\ Exists(p)' = Exists(p) /\ References(p)' = References(p)
  BY FilesStay
<1>3. References(ref) \in Seq(FilePaths)
  BY <1>1, ReferencesAreExpected
<1>4. /\ unresolved' \in Seq(FilePaths)
      /\ Range(unresolved') = Range(Tail(unresolved)) \cup Range(References(ref))
      /\ Range(unresolved) = {ref} \cup Range(Tail(unresolved))
  <2>1. unresolved \in Seq(FilePaths)
    BY DEF IInv, Shape
  <2> QED BY <1>3, <2>1, RangeOfRest
<1>5. PICK S : documents \in Seq(S)
  BY DEF IInv, Shape
<1> DEFINE last == Len(documents) + 1
<1>6. /\ documents' \in Seq(S \cup {doc})
      /\ DOMAIN documents' = DOMAIN documents \cup {last} /\ last \notin DOMAIN documents
      /\ documents'[last] = doc /\ \A d \in DOMAIN documents : documents'[d] = documents[d]
  BY <1>5, OneMore
<1> HIDE DEF last
<1>7. Paths' = Paths \cup {ref}
  BY <1>1, <1>6 DEF Paths
<1>8. \A d \in DOMAIN documents : documents[d].path # ref
  BY <1>1 DEF IInv, Paths
<1>9. NoneTwice'
  BY <1>6, <1>8 DEF IInv, NoneTwice
<1>10. Shape'
  BY <1>1, <1>2, <1>4, <1>6 DEF Shape
<1>11. Tracked'
  <2>1. file' \in Paths'
    BY <1>7 DEF IInv, Tracked
  <2>2. \A p \in Paths' : Range(References(p)') \subseteq resolved' \cup Range(unresolved')
    BY <1>2, <1>4, <1>7 DEF IInv, Tracked
  <2>3. \A p \in (Paths' \ {file'}) \cup Range(unresolved') : \E q \in Paths' : p \in Range(References(q)')
    <3> SUFFICES ASSUME NEW p \in (Paths' \ {file'}) \cup Range(unresolved')
                 PROVE  \E q \in Paths' : p \in Range(References(q))
      BY <1>2
    <3>1. CASE p \in Range(References(ref))
      BY <1>7, <3>1
    <3>2. CASE p \notin Range(References(ref))
      <4>1. p \in (Paths \ {file}) \cup Range(unresolved)
        BY <1>4, <1>7, <3>2
      <4> QED BY <1>7, <4>1 DEF IInv, Tracked
    <3> QED BY <3>1, <3>2
  <2>4. ~hasErrors' => /\ resolved' \subseteq Paths'
                       /\ \A d \in DOMAIN documents' : documents'[d].state = "Creating"
    BY <1>6, <1>7 DEF IInv, Tracked
  <2> QED BY <2>1, <2>2, <2>3, <2>4 DEF Tracked, Range
<1>12. Paths' \subseteq resolved' /\ \A p \in Paths' : Exists(p)'
  BY <1>2, <1>7 DEF IInv
<1> QED BY <1>9, <1>10, <1>11, <1>12 DEF IInv, Early, Accepted

-----------------------------------------------------------------------------
(* The steps of loading.                                                   *)

\* What Begun() makes of a file, and what it refers to.
LEMMA BegunDocument ==
    ASSUME input \in Inputs, NEW path, ~Missing(path)
    PROVE  /\ Exists(path)
           /\ Begun(path).path = path
           /\ Created(path) => Begun(path).state = "Creating"
           /\ IsTestcase(path) => References(path) = <<>>
<1>1. Exists(path)
  BY DEF Missing
<1>2. Begun(path).path = path /\ (Created(path) => Begun(path).state = "Creating")
  BY DEF Begun, Document
<1>3. IsTestcase(path) => References(path) = <<>>
  BY DEF IsTestcase, IsProject, References
<1> QED BY <1>1, <1>2, <1>3

\* ProjectResolver::beginLoad() up to the loop.
LEMMA BeginRootStep == ASSUME IInv, BeginRoot PROVE IInv'
<1>1. documents = <<>> /\ stage = "root" /\ input \in Inputs /\ unresolved \in Seq(FilePaths)
  BY DEF BeginRoot, IInv, Early, Shape
<1>2. CASE Missing(file) /\ Goto("error") /\ UNCHANGED <<documents, unresolved, resolved>> /\ UnchangedByLoading
  BY <1>2, SameDocuments DEF Goto, UnchangedByLoading, Early, Accepted
<1>3. CASE ~Missing(file) /\ CreationExits(file)
  BY <1>3, SameDocuments DEF CreationExits, Goto, UnchangedByLoading, Early, Accepted
<1>4. CASE /\ ~Missing(file) /\ UnchangedByLoading
           /\ Goto("error") \/ Goto("crash")
           /\ UNCHANGED <<documents, unresolved>>
  <2>1. (FileOf(file) = file)'
    BY <1>4, FilesStay DEF UnchangedByLoading, IInv, Shape
  <2> QED BY <1>1, <1>4, <2>1, NothingLoaded DEF Goto, UnchangedByLoading
<1>5. CASE /\ ~Missing(file) /\ UnchangedByLoading /\ resolved' = {file}
           /\ Created(file) /\ IsTestcase(file) /\ Goto("references")
           /\ documents' = <<DefaultProject, Begun(file)>> /\ unresolved' = <<>>
  BY <1>1, <1>5, BegunDocument, RootLoaded DEF Goto, UnchangedByLoading
<1>6. CASE /\ ~Missing(file) /\ UnchangedByLoading /\ resolved' = {file}
           /\ Created(file) /\ IsProject(file) /\ (Goto("exit") \/ Goto("references"))
           /\ documents' = <<Begun(file)>> /\ unresolved' = References(file)
  BY <1>1, <1>6, BegunDocument, RootLoaded DEF Goto, UnchangedByLoading
<1>7. CASE ~Missing(file) /\ CreationAsserts(file)
  BY <1>7, SameDocuments DEF CreationAsserts, Goto, UnchangedByLoading, Early, Accepted
<1> QED BY <1>2, <1>3, <1>4, <1>5, <1>6, <1>7 DEF BeginRoot

\* An iteration of the loop over references.
LEMMA ResolveReferenceStep == ASSUME IInv, ResolveReference PROVE IInv'
<1> DEFINE ref == Head(unresolved)
<1>1. /\ stage = "references" /\ unresolved # <<>> /\ ref \notin resolved /\ input \in Inputs
      /\ \/ /\ FileIsMissing(ref) \/ DocumentIsInvalid(ref) \/ DocumentIsBegun(ref)
            /\ resolved' = resolved \cup {ref} /\ UnchangedByLoading
         \/ CreationExits(ref)
         \/ CreationAsserts(ref)
  BY DEF ResolveReference, Resolves, IInv, Shape
<1>2. CASE (FileIsMissing(ref) \/ DocumentIsInvalid(ref)) /\ resolved' = resolved \cup {ref} /\ UnchangedByLoading
  BY <1>1, <1>2, ReferenceSkipped DEF FileIsMissing, DocumentIsInvalid, Goto, UnchangedByLoading
<1>3. CASE DocumentIsBegun(ref) /\ resolved' = resolved \cup {ref} /\ UnchangedByLoading
  <2>1. /\ Exists(ref) /\ Begun(ref).path = ref
        /\ Created(ref) => Begun(ref).state = "Creating"
    BY <1>1, <1>3, BegunDocument DEF DocumentIsBegun
  <2>2. /\ ~hasErrors' => ~hasErrors /\ Begun(ref).state = "Creating"
        /\ documents' = Append(documents, Begun(ref))
        /\ unresolved' = Tail(unresolved) \o References(ref)
        /\ stage' \in {"references", "crash", "exit"}
    BY <1>1, <1>3, <2>1 DEF DocumentIsBegun, Goto
  <2> HIDE DEF ref
  <2> QED BY <1>1, <1>3, <2>1, <2>2, ReferenceLoaded DEF UnchangedByLoading, ref
<1>4. CASE CreationExits(ref)
  BY <1>4, SameDocuments DEF CreationExits, Goto, UnchangedByLoading, Early, Accepted
<1>5. CASE CreationAsserts(ref)
  BY <1>5, SameDocuments DEF CreationAsserts, Goto, UnchangedByLoading, Early, Accepted
<1> QED BY <1>1, <1>2, <1>3, <1>4, <1>5

\* What is loaded when everything that is resolved has been: the paths of the files that
\* the given file refers to, directly or not.
LEMMA TrackedIsComplete ==
    ASSUME IInv, stage = "references", Range(unresolved) = {}, ~hasErrors
    PROVE  Complete
<1>1. Tracked /\ input \in Inputs /\ FileOf(file) = file /\ \A p \in Paths : Exists(p)
  BY DEF IInv, Shape
<1>2. \A p \in Paths : Range(Expected(p)) = {FileOf(r) : r \in Range(References(p))}
  BY <1>1, ReferencesAreExpected
<1>3. \A p : Expected(FileOf(p)) = Expected(p)
  BY FilesAreClean
<1>4. file \in Files
  BY <1>1 DEF Files, Tracked
<1>5. ASSUME NEW p \in Paths PROVE Range(Expected(FileOf(p))) \subseteq Files
  <2>1. Range(References(p)) \subseteq Paths
    BY <1>1 DEF Tracked
  <2> QED BY <1>2, <1>3, <2>1 DEF Files
<1>6. ASSUME NEW p \in Paths, FileOf(p) # file
      PROVE  \E q \in Paths : FileOf(p) \in Range(Expected(FileOf(q)))
  <2>1. PICK q \in Paths : p \in Range(References(q))
    BY <1>1, <1>6 DEF Tracked
  <2> QED BY <1>2, <1>3, <2>1
<1> QED BY <1>1, <1>4, <1>5, <1>6 DEF Complete, Files, Tracked

\* When no reference is left and there is no error, everything that is resolved has
\* been loaded, and no two test cases have one name.
LEMMA FindDuplicatesStep == ASSUME IInv, FindDuplicates PROVE IInv'
<1>1. /\ stage = "references" /\ unresolved = <<>>
      /\ UNCHANGED <<input, file, documents, unresolved, resolved>>
      /\ stage' \in {"error", "resolver"}
      /\ stage' = "resolver" => ~hasErrors /\ ~Clash
  BY DEF FindDuplicates, Goto, UnchangedByLoading
<1>2. CASE stage' = "error"
  BY <1>1, <1>2, SameDocuments DEF Early, Accepted
<1>3. CASE stage' = "resolver"
  <2>1. Range(unresolved) = {}
    BY <1>1 DEF Range
  <2>2. Complete
    BY <1>1, <1>3, <2>1, TrackedIsComplete
  <2>3. NamedApart
    BY <1>1, <1>3 DEF NamedApart, Clash
  <2> QED BY <1>1, <1>3, <2>2, <2>3, SameDocuments DEF Early
<1> QED BY <1>1, <1>2, <1>3

\* The inductive invariant.
THEOREM LoadingInvariance == Spec => []IInv
<1>1. Init => IInv
  <2> SUFFICES ASSUME Init PROVE IInv
    OBVIOUS
  <2>1. documents \in Seq({}) /\ unresolved \in Seq(FilePaths)
    BY DEF Init
  <2>3. FileOf(file) = file
    BY DEF Init, FileOf, Place, NoPath
  <2>2. Paths = {} /\ NoneTwice
    BY DEF Init, Paths, NoneTwice
  <2> QED BY <2>1, <2>2, <2>3 DEF Init, IInv, Shape, Early, Accepted
<1>2. IInv /\ [Next]_vars => IInv'
  <2> SUFFICES ASSUME IInv, [Next]_vars PROVE IInv'
    OBVIOUS
  <2>1. CASE ParseCommandLine
    <3>1. documents = <<>> /\ UNCHANGED <<input, documents, unresolved>> /\ stage' # "references"
      BY <2>1 DEF ParseCommandLine, ParseRun, Goto, IInv, Early
    <3>2. FileOf(file') = file'
      <4>1. \/ UNCHANGED file
            \/ file' = FileOf(args.file.path)
            \/ \E name : file' = [dir |-> Cwd, via |-> "", name |-> name]
        BY <2>1 DEF ParseCommandLine, ParseRun
      <4>2. \A name : FileOf([dir |-> Cwd, via |-> "", name |-> name])
                        = [dir |-> Cwd, via |-> "", name |-> name]
        BY DEF FileOf, Place
      <4> QED BY <4>1, <4>2, FilesAreClean DEF IInv, Shape
    <3>3. (FileOf(file) = file)'
      BY <3>1, <3>2 DEF FileOf, Place, disk
    <3> QED BY <3>1, <3>3, NothingLoaded DEF IInv, Shape
  <2>2. CASE LoadProfile
    BY <2>2, SameDocuments DEF LoadProfile, Goto, Early, Accepted
  <2>3. CASE BeginRoot
    BY <2>3, BeginRootStep
  <2>4. CASE RefuseReference
    BY <2>4, SameDocuments DEF RefuseReference, Goto, UnchangedByLoading, Early, Accepted
  <2>5. CASE ResolveReference
    BY <2>5, ResolveReferenceStep
  <2>6. CASE FindDuplicates
    BY <2>6, FindDuplicatesStep
  <2>7. CASE DependenciesResolved
    BY <2>7, SameDocuments DEF DependenciesResolved, Goto, UnchangedByLoading, Early, Accepted
  <2>8. CASE CompleteDocument
    BY <2>8, SameDocuments DEF CompleteDocument, Goto, Early, Accepted
  <2>9. CASE LoadEnds
    BY <2>9, SameDocuments DEF LoadEnds, Goto, UnchangedByLoading, Early, Accepted
  <2>10. ASSUME NEW t, Dispatch(t) PROVE IInv'
    BY <2>10, SameDocuments DEF Dispatch, Goto, Early, Accepted
  <2>11. CASE AllRan
    BY <2>11, SameDocuments DEF AllRan, Goto, UnchangedByLoading, Early, Accepted
  <2>12. CASE UNCHANGED vars
    BY <2>12, SameDocuments DEF vars, Accepted
  <2> QED BY <2>1, <2>2, <2>3, <2>4, <2>5, <2>6, <2>7, <2>8, <2>9, <2>10, <2>11, <2>12 DEF Next
<1> QED BY <1>1, <1>2, PTL DEF Spec


-----------------------------------------------------------------------------
(* What is nested the way the tables of HierarchyValidator say.            *)

\* What DocumentsAssumption says of the items of a document, and of bindings.
IsTree(items) ==
    /\ items \in Seq(Range(items)) \ {<<>>} /\ items[1].parent = 0
    /\ \A k \in DOMAIN items : k # 1 => items[k].parent \in 1..k - 1
    /\ \A k \in DOMAIN items : items[k].type \in Types \cup {"QObject"}

AreBindings(bindings) ==
    /\ bindings \in Seq(Range(bindings))
    /\ \A b \in Range(bindings) :
        /\ b.entries \in Seq(Range(b.entries))
        /\ b.kind \in {"array", "scalar", "emptyList", "object", "undefined", "other"}
        /\ b.kind = "scalar" => Len(b.entries) = 1

\* Documents are trees, and bindings are lists.
LEMMA DocumentsAreTrees ==
    ASSUME input \in Inputs, NEW path, Exists(path)
    PROVE  /\ IsTree(Doc(path).items)
           /\ \A k \in DOMAIN Doc(path).items : AreBindings(Doc(path).items[k].bindings)
BY DocumentsAssumption DEF Exists, Doc, disk, IsTree, AreBindings

\* The items accept() reaches below a set of items.
Reached(items, S) ==
    {i \in DOMAIN items : items[i].type \in Types /\ (items[i].parent = 0 \/ items[i].parent \in S)}

\* accept() goes from the root to the children, as far as they are items of qst.
LEMMA VisitedItems ==
    ASSUME NEW items, IsTree(items)
    PROVE  Visited(items) = Reached(items, Visited(items))
<1> DEFINE D == DOMAIN items
           W == UNION {S \in SUBSET D : S \subseteq Reached(items, S)}
           Eq(f) == f = [i \in D |-> items[i].type \in Types /\ (items[i].parent = 0 \/ f[items[i].parent])]
<1>1. \A i \in D : items[i].parent = 0 \/ items[i].parent \in D
  <2>1. DOMAIN items = 1..Len(items) /\ Len(items) \in Nat
    BY DEF IsTree
  <2> SUFFICES ASSUME NEW i \in D, i # 1 PROVE items[i].parent \in D
    BY DEF IsTree
  <2>2. items[i].parent \in 1..i - 1
    BY DEF IsTree
  <2> QED BY <2>1, <2>2
<1>2. W = Reached(items, W)
  <2>1. W \subseteq Reached(items, W)
    BY DEF Reached
  <2>2. Reached(items, W) \in SUBSET D /\ Reached(items, W) \subseteq Reached(items, Reached(items, W))
    BY <2>1 DEF Reached
  <2> QED BY <2>1, <2>2
<1>3. Eq([i \in D |-> i \in W])
  <2> HIDE DEF W
  <2> DEFINE g == [i \in D |-> i \in W]
  <2>1. ASSUME NEW i \in D
        PROVE  g[i] = (items[i].type \in Types /\ (items[i].parent = 0 \/ g[items[i].parent]))
    <3>1. i \in W <=> items[i].type \in Types /\ (items[i].parent = 0 \/ items[i].parent \in W)
      BY <1>2 DEF Reached
    <3>2. g[i] = (i \in W)
      OBVIOUS
    <3>3. items[i].parent # 0 => g[items[i].parent] = (items[i].parent \in W)
      BY <1>1
    <3> HIDE DEF g
    <3>4. CASE items[i].parent = 0
      <4>1. (i \in W) = (items[i].type \in Types)
        BY <3>1, <3>4
      <4>2. (items[i].type \in Types) = (items[i].type \in Types /\ (items[i].parent = 0 \/ g[items[i].parent]))
        BY <3>4
      <4> QED BY <3>2, <4>1, <4>2, Zenon
    <3>5. CASE items[i].parent # 0
      <4>1. (i \in W) = (items[i].type \in Types /\ (items[i].parent = 0 \/ items[i].parent \in W))
        BY <3>1
      <4> QED BY <3>2, <3>3, <3>5, <4>1, Zenon
    <3> QED BY <3>4, <3>5, Zenon
  <2> QED BY <2>1, Zenon
<1> HIDE DEF W
<1>4. PICK f : f = (CHOOSE h : Eq(h)) /\ Eq(f)
  BY <1>3, Zenon
<1>5. Visited(items) = {i \in D : f[i]}
  BY <1>4 DEF Visited
<1>6. \A i \in D : f[i] <=> items[i].type \in Types /\ (items[i].parent = 0 \/ f[items[i].parent])
  BY <1>4
<1> HIDE DEF Eq
<1>7. \A i \in D : i \in Visited(items) <=> items[i].type \in Types /\ (items[i].parent = 0 \/ items[i].parent \in Visited(items))
  BY <1>1, <1>5, <1>6
<1>8. Visited(items) \subseteq D
  BY <1>5
<1> QED BY <1>7, <1>8 DEF Reached

\* A document that is valid is nested the way the documentation says, as far as it is visited.
LEMMA ValidIsWellNested ==
    ASSUME NEW items, IsTree(items), items[1].type \in Types, ValidHierarchy(items)
    PROVE  WellNestedAbove(items)
<1>1. Visited(items) = Reached(items, Visited(items))
  BY VisitedItems
<1>2. 1 \in DOMAIN items /\ items[1].parent = 0 /\ 1 \in Visited(items)
  <2>1. 1 \in DOMAIN items
    BY DEF IsTree
  <2> QED BY <1>1, <2>1 DEF IsTree, Reached
<1>3. items[1].type \in RootAllowed
  BY <1>2 DEF ValidHierarchy, ParentAllowed
<1>4. ASSUME NEW i \in DOMAIN items, items[i].parent \in Visited(items)
      PROVE  <<items[i].type, items[items[i].parent].type>> \in Locations
  <2> DEFINE p == items[i].parent
             t == items[i].type
             u == items[p].type
  <2>1. u \in Types /\ t \in Types \cup {"QObject"} /\ p \in DOMAIN items /\ p # 0
    <3>1. p \in DOMAIN items /\ u \in Types
      BY <1>1, <1>4 DEF Reached
    <3>2. t \in Types \cup {"QObject"}
      BY DEF IsTree
    <3>3. 0 \notin DOMAIN items
      BY DEF IsTree
    <3> QED BY <3>1, <3>2, <3>3
  <2>2. \E base \in AllowedChildren(u) : Inherits(t, base)
    BY <1>4 DEF ValidHierarchy, ChildrenAllowed
  <2>3. t \in Types => \E base \in AllowedParents(t) : Inherits(u, base)
    <3>1. t \in Types => i \in Visited(items)
      BY <1>1, <1>4 DEF Reached
    <3> QED BY <2>1, <3>1 DEF ValidHierarchy, ParentAllowed
  <2> HIDE DEF t, u, p
  <2>4. <<t, u>> \in Locations
    BY <2>1, <2>2, <2>3 DEF Types, AllowedChildren, AllowedParents, Inherits, Locations
  <2> QED BY <2>4 DEF t, u, p
<1> QED BY <1>3, <1>4 DEF WellNestedAbove

-----------------------------------------------------------------------------
(* The rows of a Dimension.                                                *)

\* The lengths of the lists of a Dimension are finitely many numbers.
LEMMA LengthsAreFinite ==
    ASSUME NEW bindings, AreBindings(bindings)
    PROVE  IsFiniteSet(ArrayLengths(bindings)) /\ ArrayLengths(bindings) \subseteq Nat
<1> DEFINE L == ArrayLengths(bindings)
<1>1. DOMAIN bindings = 1..Len(bindings) /\ Len(bindings) \in Nat
  BY DEF AreBindings
<1>2. \A b \in Range(bindings) : Len(b.entries) \in Nat
  BY DEF AreBindings
<1>3. L \subseteq Nat
  BY <1>2 DEF ArrayLengths
<1>4. \A n \in L : \E i \in 1..Len(bindings) : n = Len(bindings[i].entries)
  BY <1>1 DEF ArrayLengths, Range
<1>5. PICK h : h = [n \in L |-> CHOOSE i \in 1..Len(bindings) : n = Len(bindings[i].entries)]
  OBVIOUS
<1>6. h \in Injection(L, 1..Len(bindings))
  <2>1. \A n \in L : h[n] \in 1..Len(bindings) /\ n = Len(bindings[h[n]].entries)
    BY <1>4, <1>5
  <2>2. h \in [L -> 1..Len(bindings)]
    BY <1>5, <2>1
  <2> QED BY <2>1, <2>2 DEF Injection, IsInjective
<1>7. IsFiniteSet(1..Len(bindings))
  BY <1>1, FS_Interval
<1> HIDE DEF L
<1>8. IsFiniteSet(L)
  BY <1>6, <1>7, FS_Injection
<1> QED BY <1>3, <1>8 DEF L

\* A set of at most one element.
LEMMA AtMostOne ==
    ASSUME NEW T, IsFiniteSet(T), Cardinality(T) <= 1, NEW x \in T, NEW y \in T
    PROVE  x = y
<1>1. IsFiniteSet(T \ {x}) /\ Cardinality(T \ {x}) = Cardinality(T) - 1
  BY FS_RemoveElement
<1>2. Cardinality(T) \in Nat /\ Cardinality(T \ {x}) \in Nat
  BY <1>1, FS_CardinalityType
<1>3. Cardinality(T \ {x}) = 0
  BY <1>1, <1>2
<1>4. T \ {x} = {}
  BY <1>1, <1>3, FS_EmptySet
<1> QED BY <1>4

\* The number of rows is the length of each list.
LEMMA RowsAreCounted ==
    ASSUME NEW bindings, AreBindings(bindings), Applicable(bindings)
    PROVE  /\ RowCount(bindings) \in Nat
           /\ \A b \in Range(bindings) : b.kind = "array" => Len(b.entries) = RowCount(bindings)
<1>1. IsFiniteSet(ArrayLengths(bindings)) /\ ArrayLengths(bindings) \subseteq Nat
  BY LengthsAreFinite
<1>2. \A m, n \in ArrayLengths(bindings) : m = n
  <2>1. Cardinality(ArrayLengths(bindings)) \in Nat /\ ~(Cardinality(ArrayLengths(bindings)) > 1)
    BY <1>1, FS_CardinalityType DEF Applicable, Unusable
  <2> QED BY <1>1, <2>1, AtMostOne
<1>3. RowCount(bindings) \in Nat
  BY <1>1 DEF RowCount
<1>4. ASSUME NEW b \in Range(bindings), b.kind = "array" PROVE Len(b.entries) = RowCount(bindings)
  <2>1. Len(b.entries) \in ArrayLengths(bindings)
    BY <1>4 DEF ArrayLengths
  <2>2. bindings # <<>>
    BY DEF Range
  <2>3. RowCount(bindings) \in ArrayLengths(bindings)
    BY <2>1, <2>2 DEF RowCount
  <2> QED BY <1>2, <2>1, <2>3
<1> QED BY <1>3, <1>4

\* What is applied, and has rows, has in each row one entry of each tag.
LEMMA RowsArePaired ==
    ASSUME NEW bindings, AreBindings(bindings), Verified(bindings), Applicable(bindings),
           Rows(bindings) # <<>>
    PROVE  PairedRows(bindings)
<1> DEFINE n == RowCount(bindings)
<1>1. n \in Nat /\ \A b \in Range(bindings) : b.kind = "array" => Len(b.entries) = n
  BY RowsAreCounted
<1>2. bindings # <<>>
  BY DEF Rows, RowCount
<1>3. DOMAIN Rows(bindings) = 1..n /\ Len(Rows(bindings)) = n
  BY <1>1 DEF Rows
<1>4. ASSUME NEW b \in Range(bindings), NEW i \in 1..n
      PROVE  {entry \in Rows(bindings)[i] : entry[1] = b.tag}
                = {<<b.tag, b.entries[IF b.kind = "array" THEN i ELSE 1]>>}
  <2>1. Rows(bindings)[i] = {<<c.tag, EntryOf(c, i)>> : c \in Range(bindings)}
    BY DEF Rows
  <2>2. \A c \in Range(bindings) : c.tag = b.tag => c = b
    BY DEF Verified, Range
  <2>3. {entry \in Rows(bindings)[i] : entry[1] = b.tag} = {<<b.tag, EntryOf(b, i)>>}
    BY <2>1, <2>2
  <2>4. b.kind \in {"array", "scalar"}
    <3>1. b.kind # "emptyList" /\ b.kind # "object"
      BY DEF Verified, Range
    <3>2. b.kind # "undefined" /\ b.kind # "other"
      BY DEF Applicable, Unusable, Unexpected, HasKind
    <3> QED BY <3>1, <3>2 DEF AreBindings
  <2>5. EntryOf(b, i) = b.entries[IF b.kind = "array" THEN i ELSE 1]
    <3>1. CASE b.kind = "array"
      BY <1>1, <3>1 DEF EntryOf
    <3>2. CASE b.kind = "scalar"
      <4>1. Len(b.entries) = 1
        BY <3>2 DEF AreBindings
      <4>2. i <= 1 => i = 1
        BY <1>1
      <4> QED BY <3>2, <4>1, <4>2 DEF EntryOf
    <3> QED BY <2>4, <3>1, <3>2
  <2> QED BY <2>3, <2>5
<1> QED BY <1>1, <1>2, <1>3, <1>4 DEF PairedRows

-----------------------------------------------------------------------------
(* What has been begun, and what has been completed.                       *)

\* What beginCreate() has let through.
Begins(path) == ~Missing(path) /\ BindingsApply(path) /\ RootIsItem(path)

\* A document with a file was let through when it was begun; and until the last one
\* is completed, none that has been completed has a Dimension without rows.
WInv ==
    /\ input \in Inputs
    /\ \E S : documents \in Seq(S)
    /\ completed \in Nat
    /\ \A d \in DOMAIN documents : documents[d].path # NoPath =>
            /\ Begins(documents[d].path)
            /\ documents[d].state = "Creating" => ValidHierarchy(Doc(documents[d].path).items)
    /\ stage \in Early \cup {"references", "resolver"} => completed = 0
    /\ stage \in {"complete", "jobs"} =>
            \A d \in 1..completed :
                documents[d].path # NoPath => ~HasEmptyDimension(Doc(documents[d].path))
    /\ stage = "jobs" => completed = Len(documents)

\* Nothing about files changes with a step.
LEMMA DocumentsStay ==
    ASSUME UNCHANGED input
    PROVE  \A p : Begins(p)' = Begins(p) /\ Doc(p)' = Doc(p)
BY FilesStay DEF Begins, Missing, BindingsApply, RootIsItem

\* A step that neither begins nor completes a document.
LEMMA NothingBegun ==
    ASSUME WInv, UNCHANGED <<input, documents, completed>>,
           stage' \in Early \cup {"references", "resolver"} =>
                stage \in Early \cup {"references", "resolver"},
           stage' \in {"complete", "jobs"} => stage \in {"complete", "jobs"} \/ completed = 0,
           stage' = "jobs" => completed = Len(documents)
    PROVE  WInv'
<1>1. \A p : Begins(p)' = Begins(p) /\ Doc(p)' = Doc(p)
  BY DocumentsStay
<1>2. stage' \in {"complete", "jobs"} =>
        \A d \in 1..completed :
            documents[d].path # NoPath => ~HasEmptyDimension(Doc(documents[d].path))
  <2>1. CASE stage \in {"complete", "jobs"}
    BY <2>1 DEF WInv
  <2>2. CASE completed = 0
    BY <2>2
  <2> QED BY <2>1, <2>2
<1> QED BY <1>1, <1>2 DEF WInv

\* The documents of a step are the earlier ones, the project around a single test
\* case, and what has been begun.
LEMMA OneBegun ==
    ASSUME WInv, UNCHANGED <<input, completed>>, completed = 0,
           \E S : documents' \in Seq(S),
           NEW doc, Begins(doc.path),
           doc.state = "Creating" => ValidHierarchy(Doc(doc.path).items),
           \A d \in DOMAIN documents' :
                \/ d \in DOMAIN documents /\ documents'[d] = documents[d]
                \/ documents'[d].path = NoPath
                \/ documents'[d] = doc,
           stage' \notin {"complete", "jobs"}
    PROVE  WInv'
<1>1. \A p : Begins(p)' = Begins(p) /\ Doc(p)' = Doc(p)
  BY DocumentsStay
<1>2. \A d \in DOMAIN documents' : documents'[d].path # NoPath =>
            /\ Begins(documents'[d].path)
            /\ documents'[d].state = "Creating" => ValidHierarchy(Doc(documents'[d].path).items)
  BY DEF WInv
<1> QED BY <1>1, <1>2 DEF WInv

\* What Begun() says of the hierarchy.
LEMMA BegunIsValid ==
    ASSUME NEW path
    PROVE  /\ Begun(path).path = path
           /\ Begun(path).state = "Creating" => ValidHierarchy(Doc(path).items)
BY DEF Begun, Created, Document

\* ProjectResolver::beginLoad() up to the loop.
LEMMA RootBegun == ASSUME IInv, WInv, BeginRoot PROVE WInv'
<1>1. documents = <<>> /\ stage = "root" /\ completed = 0
  BY DEF BeginRoot, IInv, WInv, Early
<1>2. CASE UNCHANGED documents /\ UnchangedByLoading /\ stage' \in {"error", "exit", "crash"}
  BY <1>2, NothingBegun DEF UnchangedByLoading, Early
<1>3. CASE /\ ~Missing(file) /\ CreationGoesOn(file) /\ UnchangedByLoading
           /\ documents' = <<DefaultProject, Begun(file)>> \/ documents' = <<Begun(file)>>
           /\ stage' \in {"references", "exit"}
  <2>1. PICK begun : begun = Begun(file)
    OBVIOUS
  <2>2. begun.path = file /\ (begun.state = "Creating" => ValidHierarchy(Doc(file).items))
    BY <2>1, BegunIsValid
  <2>3. DefaultProject.path = NoPath
    BY DEF DefaultProject, Document
  <2>4. \E S : documents' \in Seq(S)
    <3>1. documents' = <<DefaultProject, begun>> \/ documents' = <<begun>>
      BY <1>3, <2>1
    <3>2. documents' \in Seq({DefaultProject, begun})
      <4>1. CASE documents' = <<DefaultProject, begun>>
        BY <4>1
      <4>2. CASE documents' = <<begun>>
        BY <4>2
      <4> QED BY <3>1, <4>1, <4>2
    <3> QED BY <3>2
  <2>5. \A d \in DOMAIN documents' :
            documents'[d].path = NoPath \/ documents'[d] = begun
    <3>1. CASE documents' = <<DefaultProject, begun>>
      BY <2>2, <2>3, <3>1
    <3>2. CASE documents' = <<begun>>
      BY <2>2, <3>2
    <3> QED BY <1>3, <2>1, <3>1, <3>2
  <2>6. Begins(file)
    BY <1>3 DEF Begins, CreationGoesOn
  <2> QED BY <1>1, <1>3, <2>2, <2>4, <2>5, <2>6, OneBegun DEF UnchangedByLoading
<1> QED BY <1>2, <1>3 DEF BeginRoot, CreationExits, CreationAsserts, Goto

\* An iteration of the loop over references.
LEMMA ReferenceBegun == ASSUME WInv, ResolveReference PROVE WInv'
<1> DEFINE ref == Head(unresolved)
<1>1. stage = "references" /\ completed = 0
  BY DEF ResolveReference, WInv
<1>2. CASE UNCHANGED documents /\ UnchangedByLoading /\ stage' \in {"references", "exit", "crash"}
  BY <1>1, <1>2, NothingBegun DEF UnchangedByLoading, Early
<1>3. CASE DocumentIsBegun(ref) /\ UnchangedByLoading
  <2>1. PICK begun : begun = Begun(ref)
    OBVIOUS
  <2>2. begun.path = ref /\ (begun.state = "Creating" => ValidHierarchy(Doc(ref).items))
    BY <2>1, BegunIsValid
  <2>3. PICK S : documents \in Seq(S)
    BY DEF WInv
  <2>4. /\ documents' = Append(documents, begun) /\ Begins(ref)
        /\ stage' \notin {"complete", "jobs"}
    BY <1>1, <1>3, <2>1 DEF DocumentIsBegun, Begins, CreationGoesOn, Goto
  <2>5. /\ documents' \in Seq(S \cup {begun})
        /\ DOMAIN documents' = DOMAIN documents \cup {Len(documents) + 1}
        /\ documents'[Len(documents) + 1] = begun
        /\ \A d \in DOMAIN documents : documents'[d] = documents[d]
    BY <2>3, <2>4, OneMore
  <2> HIDE DEF ref
  <2>6. \E T : documents' \in Seq(T)
    BY <2>5
  <2>7. \A d \in DOMAIN documents' :
            \/ d \in DOMAIN documents /\ documents'[d] = documents[d]
            \/ documents'[d].path = NoPath
            \/ documents'[d] = begun
    BY <2>5
  <2>8. begun.state = "Creating" => ValidHierarchy(Doc(begun.path).items)
    BY <2>2
  <2>9. UNCHANGED <<input, completed>> /\ completed = 0 /\ WInv /\ Begins(begun.path)
    BY <1>1, <1>3, <2>2, <2>4 DEF UnchangedByLoading
  <2> QED BY <2>4, <2>6, <2>7, <2>8, <2>9, OneBegun
<1> QED
  <2> HIDE DEF ref
  <2>1. stage = "references" /\ (\/ FileIsMissing(ref) \/ DocumentIsInvalid(ref) \/ DocumentIsBegun(ref)
                                 \/ CreationExits(ref) \/ CreationAsserts(ref)) /\ UnchangedByLoading
    BY DEF ResolveReference, CreationExits, CreationAsserts, ref
  <2> QED BY <1>2, <1>3, <2>1 DEF FileIsMissing, DocumentIsInvalid, CreationExits, CreationAsserts, Goto

\* A document is completed, or is not and loading ends.
LEMMA OneCompleted == ASSUME WInv, CompleteDocument PROVE WInv'
<1>1. /\ UNCHANGED <<input, documents>> /\ completed' = completed + 1
      /\ stage = "complete" /\ stage' \in {"complete", "error", "exit"}
      /\ \/ stage' # "complete"
         \/ documents[completed + 1].path # NoPath =>
                ~HasEmptyDimension(Doc(documents[completed + 1].path))
  BY DEF CompleteDocument, Goto
<1>2. \A p : Begins(p)' = Begins(p) /\ Doc(p)' = Doc(p)
  BY <1>1, DocumentsStay
<1>3. completed \in Nat /\ \A d \in 1..completed :
        documents[d].path # NoPath => ~HasEmptyDimension(Doc(documents[d].path))
  BY <1>1 DEF WInv
<1>4. stage' = "complete" => \A d \in 1..completed' :
        documents[d].path # NoPath => ~HasEmptyDimension(Doc(documents[d].path))
  <2>1. \A d \in 1..completed + 1 : d \in 1..completed \/ d = completed + 1
    BY <1>3
  <2> QED BY <1>1, <1>3, <2>1
<1> QED BY <1>1, <1>2, <1>3, <1>4 DEF WInv, Early

\* What is begun and completed is preserved by every step.
THEOREM CompletionInvariance == Spec => [](IInv /\ WInv)
<1>1. Init => WInv
  <2> SUFFICES ASSUME Init PROVE WInv
    OBVIOUS
  <2>1. documents \in Seq({}) /\ documents = <<>>
    BY DEF Init
  <2> QED BY <2>1 DEF Init, WInv, Early
<1>2. IInv /\ WInv /\ [Next]_vars => WInv'
  <2> SUFFICES ASSUME IInv, WInv, [Next]_vars PROVE WInv'
    OBVIOUS
  <2>1. CASE ParseCommandLine
    BY <2>1, NothingBegun DEF ParseCommandLine, ParseRun, Goto, Early
  <2>2. CASE LoadProfile
    BY <2>2, NothingBegun DEF LoadProfile, Goto, Early
  <2>3. CASE BeginRoot
    BY <2>3, RootBegun
  <2>4. CASE RefuseReference
    BY <2>4, NothingBegun DEF RefuseReference, Goto, UnchangedByLoading, Early
  <2>5. CASE ResolveReference
    BY <2>5, ReferenceBegun
  <2>6. CASE FindDuplicates
    BY <2>6, NothingBegun DEF FindDuplicates, Goto, UnchangedByLoading, Early
  <2>7. CASE DependenciesResolved
    <3>1. completed = 0
      BY <2>7 DEF DependenciesResolved, WInv
    <3> QED BY <2>7, <3>1, NothingBegun DEF DependenciesResolved, Goto, UnchangedByLoading, Early
  <2>8. CASE CompleteDocument
    BY <2>8, OneCompleted
  <2>9. CASE LoadEnds
    BY <2>9, NothingBegun DEF LoadEnds, Goto, UnchangedByLoading, Early
  <2>10. ASSUME NEW t, Dispatch(t) PROVE WInv'
    <3>1. stage = "jobs" /\ completed = Len(documents) /\ stage' \in {"jobs", "lost", "crash", "failed"}
      BY <2>10 DEF Dispatch, Goto, WInv
    <3> QED BY <2>10, <3>1, NothingBegun DEF Dispatch, Early
  <2>11. CASE AllRan
    BY <2>11, NothingBegun DEF AllRan, Goto, UnchangedByLoading, Early
  <2>12. CASE UNCHANGED vars
    <3>1. stage = "jobs" => completed = Len(documents)
      BY DEF WInv
    <3> QED BY <2>12, <3>1, NothingBegun DEF vars
  <2> QED BY <2>1, <2>2, <2>3, <2>4, <2>5, <2>6, <2>7, <2>8, <2>9, <2>10, <2>11, <2>12 DEF Next
<1> QED BY <1>1, <1>2, LoadingInvariance, PTL DEF Spec

\* A document that was let through, is valid and has no Dimension without rows.
LEMMA LetThroughIsWellFormed ==
    ASSUME input \in Inputs, NEW path, Begins(path), ValidHierarchy(Doc(path).items),
           ~HasEmptyDimension(Doc(path))
    PROVE  /\ WellNestedAbove(Doc(path).items)
           /\ \A i \in OfType(Doc(path).items, "Dimension") : PairedRows(Doc(path).items[i].bindings)
<1>1. Exists(path) /\ Compiles(Doc(path)) /\ BindingsApply(path) /\ RootIsItem(path)
  BY DEF Begins, Missing
<1>2. IsTree(Doc(path).items)
  BY <1>1, DocumentsAreTrees
<1>3. WellNestedAbove(Doc(path).items)
  BY <1>1, <1>2, ValidIsWellNested DEF RootIsItem
<1>4. ASSUME NEW i \in OfType(Doc(path).items, "Dimension")
      PROVE  PairedRows(Doc(path).items[i].bindings)
  <2>1. AreBindings(Doc(path).items[i].bindings)
    BY <1>1, DocumentsAreTrees DEF OfType
  <2>2. Verified(Doc(path).items[i].bindings)
    BY <1>1 DEF Compiles
  <2>3. Applicable(Doc(path).items[i].bindings)
    BY <1>1 DEF BindingsApply
  <2>4. Rows(Doc(path).items[i].bindings) # <<>>
    BY DEF HasEmptyDimension
  <2> QED BY <2>1, <2>2, <2>3, <2>4, RowsArePaired
<1> QED BY <1>3, <1>4

\* What reaches the scheduler is nested the way the documentation says, down to the first
\* QML object that is no item of qst; and the rows of each Dimension pair the entries of its
\* lists, however its values are evaluated.
THEOREM WellFormedIsExecuted == Spec => []ExecutedIsWellFormed
<1>1. IInv /\ WInv => ExecutedIsWellFormed
  <2> SUFFICES ASSUME IInv, WInv, stage = "jobs", NEW p \in Paths
               PROVE  /\ WellNestedAbove(Doc(p).items)
                      /\ \A i \in OfType(Doc(p).items, "Dimension") : PairedRows(Doc(p).items[i].bindings)
    BY DEF ExecutedIsWellFormed
  <2>1. PICK d \in DOMAIN documents : documents[d].path = p /\ p # NoPath
    BY DEF Paths
  <2>2. DOMAIN documents = 1..completed /\ documents # <<>>
    <3>1. DOMAIN documents = 1..Len(documents) /\ documents # <<>>
      BY <2>1 DEF WInv
    <3> QED BY <3>1 DEF WInv
  <2>3. documents[d].state = "Creating"
    BY <2>2 DEF IInv, Accepted, Complete
  <2>4. Begins(p) /\ ValidHierarchy(Doc(p).items)
    BY <2>1, <2>3 DEF WInv
  <2>5. ~HasEmptyDimension(Doc(p))
    BY <2>1, <2>2 DEF WInv
  <2>6. input \in Inputs
    BY DEF WInv
  <2> QED BY <2>4, <2>5, <2>6, LetThroughIsWellFormed
<1> QED BY <1>1, CompletionInvariance, PTL

-----------------------------------------------------------------------------
(* The numbers of test cases without a name.                               *)

\* The test cases without a name, as pairs of a path and a position.
NamelessOf(path) == {path} \X Unnamed(Doc(path).items)
Nameless == UNION {NamelessOf(p) : p \in Paths}

\* Each of them has got a number of its own; other test cases have their names.
Numbered ==
    /\ IsFiniteSet(Nameless) /\ instances = Cardinality(Nameless)
    /\ \A d \in DOMAIN documents : documents[d].path # NoPath =>
        DOMAIN documents[d].names = DOMAIN Doc(documents[d].path).items
    /\ \A d \in DOMAIN documents : documents[d].path # NoPath =>
        \A k \in DOMAIN Doc(documents[d].path).items :
            IF k \in Unnamed(Doc(documents[d].path).items)
            THEN \E n \in Nat : n < instances /\ documents[d].names[k] = DefaultName(n)
            ELSE documents[d].names[k] = Doc(documents[d].path).items[k].name
    /\ \A d, e \in DOMAIN documents : documents[d].path # NoPath /\ documents[e].path # NoPath =>
        \A k \in Unnamed(Doc(documents[d].path).items), l \in Unnamed(Doc(documents[e].path).items) :
            documents[d].names[k] = documents[e].names[l] => d = e /\ k = l

\* Numbers are counted from nothing on; and what is accepted has been found without a clash.
NInv ==
    /\ stage \in Early => instances = 0
    /\ stage = "references" => hasErrors \/ Numbered
    /\ Accepted /\ documents # <<>> => RepeatedNameless

\* Numbers are given from a count on, each to one test case without a name.
LEMMA NumbersAreGiven ==
    ASSUME NEW items, IsTree(items), NEW count \in Nat
    PROVE  /\ IsFiniteSet(Unnamed(items)) /\ Cardinality(Unnamed(items)) \in Nat
           /\ \A k \in Unnamed(items) : \E n \in Nat :
                /\ count <= n /\ n < count + Cardinality(Unnamed(items))
                /\ NamesFrom(items, count)[k] = DefaultName(n)
           /\ \A k, l \in Unnamed(items) :
                NamesFrom(items, count)[k] = NamesFrom(items, count)[l] => k = l
           /\ \A k \in DOMAIN items \ Unnamed(items) : NamesFrom(items, count)[k] = items[k].name
           /\ DOMAIN NamesFrom(items, count) = DOMAIN items
<1> DEFINE U == Unnamed(items)
           Before(k) == {j \in U : j < k}
<1>1. DOMAIN items = 1..Len(items) /\ Len(items) \in Nat
  BY DEF IsTree
<1>2. U \subseteq 1..Len(items)
  BY <1>1 DEF Unnamed, OfType
<1>3. IsFiniteSet(U) /\ Cardinality(U) \in Nat
  <2>1. IsFiniteSet(1..Len(items))
    BY <1>1, FS_Interval
  <2> QED BY <1>2, <2>1, FS_Subset, FS_CardinalityType
<1>4. ASSUME NEW T \in SUBSET U, NEW T2 \in SUBSET T, T # T2
      PROVE  /\ Cardinality(T2) \in Nat /\ Cardinality(T) \in Nat
             /\ Cardinality(T2) < Cardinality(T)
  <2>1. IsFiniteSet(T) /\ IsFiniteSet(T2)
    BY <1>3, FS_Subset
  <2>2. Cardinality(T2) \in Nat /\ Cardinality(T) \in Nat
    BY <2>1, FS_CardinalityType
  <2>3. Cardinality(T2) <= Cardinality(T) /\ Cardinality(T) # Cardinality(T2)
    BY <1>4, <2>1, FS_Subset
  <2> QED BY <2>2, <2>3
<1> HIDE DEF U
<1>5. \A k \in U : NamesFrom(items, count)[k] = DefaultName(count + Cardinality(Before(k)))
  <2>1. \A k \in U : k \in DOMAIN items
    BY <1>1, <1>2
  <2> QED BY <2>1 DEF NamesFrom, U
<1>6. ASSUME NEW k \in U
      PROVE  Cardinality(Before(k)) \in Nat /\ Cardinality(Before(k)) < Cardinality(U)
  <2>1. k \in Nat /\ k \notin Before(k)
    BY <1>2
  <2>2. Before(k) \in SUBSET U /\ U \in SUBSET U /\ Before(k) # U
    BY <2>1
  <2> QED BY <1>4, <2>2
<1>7. ASSUME NEW k \in U, NEW l \in U, k < l
      PROVE  Cardinality(Before(k)) < Cardinality(Before(l))
  <2>1. k \in Nat /\ l \in Nat /\ \A j \in U : j \in Nat
    BY <1>2
  <2>2. \A j \in U : j < k => j < l
    BY <1>7, <2>1
  <2>3. Before(l) \in SUBSET U /\ Before(k) \in SUBSET Before(l)
    BY <2>2
  <2>4. k \in Before(l) /\ k \notin Before(k)
    BY <1>7, <2>1
  <2>5. Before(k) # Before(l)
    BY <2>4
  <2> HIDE DEF Before
  <2> QED BY <1>4, <2>3, <2>5
<1>8. ASSUME NEW k \in U, NEW l \in U, NamesFrom(items, count)[k] = NamesFrom(items, count)[l]
      PROVE  k = l
  <2>1. DefaultName(count + Cardinality(Before(k))) = DefaultName(count + Cardinality(Before(l)))
    BY <1>5, <1>8
  <2>2. count + Cardinality(Before(k)) = count + Cardinality(Before(l))
    BY <2>1 DEF DefaultName
  <2>3. Cardinality(Before(k)) = Cardinality(Before(l)) /\ Cardinality(Before(k)) \in Nat
    BY <1>6, <2>2
  <2>4. k \in Nat /\ l \in Nat
    BY <1>2
  <2> HIDE DEF Before
  <2> QED BY <1>7, <2>3, <2>4
<1>9. ASSUME NEW k \in U
      PROVE  \E n \in Nat : /\ count <= n /\ n < count + Cardinality(U)
                            /\ NamesFrom(items, count)[k] = DefaultName(n)
  <2>1. Cardinality(Before(k)) \in Nat /\ Cardinality(Before(k)) < Cardinality(U)
    BY <1>6
  <2> HIDE DEF Before
  <2>2. count + Cardinality(Before(k)) \in Nat /\ count <= count + Cardinality(Before(k))
        /\ count + Cardinality(Before(k)) < count + Cardinality(U)
    BY <1>3, <2>1
  <2> QED BY <1>5, <2>2
<1>10. \A k \in DOMAIN items \ U : NamesFrom(items, count)[k] = items[k].name
  BY DEF NamesFrom, U
<1>11. DOMAIN NamesFrom(items, count) = DOMAIN items
  BY DEF NamesFrom
<1> HIDE DEF Before
<1> QED BY <1>3, <1>8, <1>9, <1>10, <1>11 DEF U

\* A default name has a text, and one number.
LEMMA DefaultNames ==
    /\ \A n : DefaultName(n) # NoName
    /\ \A m, n : DefaultName(m) = DefaultName(n) => m = n
BY DEF DefaultName, NoName

\* The numbers stay with the documents.
LEMMA NumbersStay ==
    ASSUME UNCHANGED <<input, documents, instances>>
    PROVE  Numbered' = Numbered
<1>1. \A p : Doc(p)' = Doc(p)
  BY FilesStay
<1>2. Nameless' = Nameless
  BY <1>1 DEF Nameless, NamelessOf, Paths
<1> QED BY <1>1, <1>2 DEF Numbered

\* The numbers given to the test cases of a new document are new, too.
LEMMA NumbersGrow ==
    ASSUME input \in Inputs, UNCHANGED input, Numbered,
           NEW ref, Exists(ref), ref # NoPath, ref \notin Paths, Paths' = Paths \cup {ref},
           instances' = instances + Cardinality(Unnamed(Doc(ref).items)),
           NEW last, NEW doc, doc.path = ref, doc.names = NamesFrom(Doc(ref).items, instances),
           \A d \in DOMAIN documents' :
                \/ d \in DOMAIN documents /\ documents'[d] = documents[d]
                \/ documents'[d].path = NoPath
                \/ d = last /\ documents'[d] = doc
    PROVE  Numbered'
<1> DEFINE items == Doc(ref).items
           U == Unnamed(items)
           Old(d) == d \in DOMAIN documents /\ documents'[d] = documents[d]
<1>1. \A p : Doc(p)' = Doc(p)
  BY FilesStay
<1>2. IsFiniteSet(Nameless) /\ instances = Cardinality(Nameless) /\ instances \in Nat
  BY FS_CardinalityType DEF Numbered
<1>3. /\ IsFiniteSet(U) /\ Cardinality(U) \in Nat
      /\ \A k \in U : \E n \in Nat :
            /\ instances <= n /\ n < instances + Cardinality(U)
            /\ NamesFrom(items, instances)[k] = DefaultName(n)
      /\ \A k, l \in U :
            NamesFrom(items, instances)[k] = NamesFrom(items, instances)[l] => k = l
      /\ \A k \in DOMAIN items \ U : NamesFrom(items, instances)[k] = items[k].name
      /\ DOMAIN NamesFrom(items, instances) = DOMAIN items
  BY <1>2, DocumentsAreTrees, NumbersAreGiven
<1>4. Nameless' = Nameless \cup NamelessOf(ref)
  <2>1. \A p : NamelessOf(p)' = NamelessOf(p)
    BY <1>1 DEF NamelessOf
  <2> QED BY <2>1 DEF Nameless
<1>5. IsFiniteSet(NamelessOf(ref)) /\ Cardinality(NamelessOf(ref)) = Cardinality(U)
  <2>1. IsFiniteSet({ref}) /\ Cardinality({ref}) = 1
    BY FS_Singleton
  <2>2. IsFiniteSet({ref} \X U) /\ Cardinality({ref} \X U) = 1 * Cardinality(U)
    BY <1>3, <2>1, FS_Product
  <2> QED BY <1>3, <2>2 DEF NamelessOf
<1>6. Nameless \cap NamelessOf(ref) = {}
  BY DEF Nameless, NamelessOf
<1>7. IsFiniteSet(Nameless') /\ instances' = Cardinality(Nameless') /\ instances' \in Nat
  <2>1. /\ IsFiniteSet(Nameless \cup NamelessOf(ref))
        /\ Cardinality(Nameless \cup NamelessOf(ref))
             = Cardinality(Nameless) + Cardinality(NamelessOf(ref)) - Cardinality({})
    BY <1>2, <1>5, <1>6, FS_Union
  <2>2. Cardinality({}) = 0
    BY FS_EmptySet
  <2> QED BY <1>2, <1>3, <1>4, <1>5, <2>1, <2>2
<1>8. /\ \A d \in DOMAIN documents' : documents'[d].path # NoPath =>
            \/ Old(d)
            \/ d = last /\ documents'[d].path = ref
               /\ documents'[d].names = NamesFrom(items, instances)
      /\ instances <= instances' /\ instances' = instances + Cardinality(U)
  BY <1>2, <1>3
<1> HIDE DEF U, items
<1>9. ASSUME NEW d \in DOMAIN documents', documents'[d].path # NoPath,
             NEW k \in DOMAIN Doc(documents'[d].path).items
      PROVE  IF k \in Unnamed(Doc(documents'[d].path).items)
             THEN \E n \in Nat : n < instances' /\ documents'[d].names[k] = DefaultName(n)
             ELSE documents'[d].names[k] = Doc(documents'[d].path).items[k].name
  <2>1. CASE Old(d)
    <3>1. IF k \in Unnamed(Doc(documents[d].path).items)
          THEN \E n \in Nat : n < instances /\ documents[d].names[k] = DefaultName(n)
          ELSE documents[d].names[k] = Doc(documents[d].path).items[k].name
      BY <1>9, <2>1 DEF Numbered
    <3> QED BY <1>2, <1>7, <1>8, <2>1, <3>1
  <2>2. CASE documents'[d].path = ref /\ documents'[d].names = NamesFrom(items, instances)
    BY <1>3, <1>8, <1>9, <2>2 DEF U, items
  <2> QED BY <1>8, <1>9, <2>1, <2>2
<1>10. ASSUME NEW d \in DOMAIN documents', NEW e \in DOMAIN documents',
              documents'[d].path # NoPath, documents'[e].path # NoPath,
              NEW k \in Unnamed(Doc(documents'[d].path).items),
              NEW l \in Unnamed(Doc(documents'[e].path).items),
              documents'[d].names[k] = documents'[e].names[l]
       PROVE  d = e /\ k = l
  <2>1. ASSUME NEW c \in DOMAIN documents', documents'[c].path # NoPath, Old(c),
               NEW m \in Unnamed(Doc(documents'[c].path).items)
        PROVE  \E n \in Nat : n < instances /\ documents'[c].names[m] = DefaultName(n)
    <3>1. m \in DOMAIN Doc(documents[c].path).items
      BY <2>1 DEF Unnamed, OfType
    <3> QED BY <2>1, <3>1 DEF Numbered
  <2>2. ASSUME NEW c \in DOMAIN documents', documents'[c].path # NoPath, ~Old(c),
               NEW m \in Unnamed(Doc(documents'[c].path).items)
        PROVE  \E n \in Nat : instances <= n /\ documents'[c].names[m] = DefaultName(n)
    <3>1. m \in U /\ documents'[c].names = NamesFrom(items, instances)
      BY <1>8, <2>2 DEF U, items
    <3> QED BY <1>3, <3>1
  <2>3. CASE Old(d) /\ Old(e)
    BY <1>10, <2>3 DEF Numbered
  <2>4. CASE ~Old(d) /\ ~Old(e)
    <3>1. d = last /\ e = last /\ k \in U /\ l \in U
          /\ documents'[d].names = NamesFrom(items, instances)
      BY <1>8, <1>10, <2>4 DEF U, items
    <3> QED BY <1>3, <1>10, <3>1
  <2>5. CASE Old(d) /\ ~Old(e)
    BY <1>2, <1>10, <2>1, <2>2, <2>5, DefaultNames
  <2>6. CASE ~Old(d) /\ Old(e)
    BY <1>2, <1>10, <2>1, <2>2, <2>6, DefaultNames
  <2> QED BY <2>3, <2>4, <2>5, <2>6
<1>11. ASSUME NEW d \in DOMAIN documents', documents'[d].path # NoPath
       PROVE  DOMAIN documents'[d].names = DOMAIN Doc(documents'[d].path).items
  <2>1. CASE Old(d)
    BY <1>11, <2>1 DEF Numbered
  <2>2. CASE documents'[d].path = ref /\ documents'[d].names = NamesFrom(items, instances)
    BY <1>3, <2>2 DEF items
  <2> QED BY <1>8, <1>11, <2>1, <2>2
<1> QED BY <1>1, <1>7, <1>9, <1>10, <1>11 DEF Numbered

\* A step that loads nothing, and accepts nothing but what has been found without a clash.
LEMMA NothingNumbered ==
    ASSUME NInv, UNCHANGED <<input, documents>>,
           stage' \in Early => stage \in Early /\ UNCHANGED instances,
           stage' = "references" =>
                stage = "references" /\ (hasErrors' \/ (UNCHANGED instances /\ ~hasErrors)),
           Accepted' /\ documents # <<>> => Accepted \/ RepeatedNameless
    PROVE  NInv'
<1>1. \A p : FileOf(p)' = FileOf(p) /\ Doc(p)' = Doc(p)
  BY FilesStay
<1>2. RepeatedNameless' = RepeatedNameless
  BY <1>1 DEF RepeatedNameless
<1>3. stage' = "references" => hasErrors' \/ Numbered'
  <2>1. UNCHANGED instances => Numbered' = Numbered
    BY NumbersStay
  <2> QED BY <2>1 DEF NInv
<1> QED BY <1>2, <1>3 DEF NInv

\* A document is begun that was not loaded by this path.
LEMMA OneNumbered ==
    ASSUME IInv, UNCHANGED input, Numbered, NEW ref, Exists(ref), Created(ref), ref \notin Paths,
           CountInstances(ref), NEW last,
           last \in DOMAIN documents', documents'[last] = Begun(ref),
           \A d \in DOMAIN documents' :
                \/ d \in DOMAIN documents /\ documents'[d] = documents[d]
                \/ documents'[d].path = NoPath
                \/ d = last,
           \A d \in DOMAIN documents : documents[d].path # NoPath =>
                d \in DOMAIN documents' /\ documents'[d] = documents[d]
    PROVE  Numbered'
<1>1. PICK doc : doc = Begun(ref)
  OBVIOUS
<1>2. input \in Inputs /\ ref # NoPath
  BY PathsAreNotEmpty DEF IInv, Shape
<1>3. doc.path = ref /\ doc.names = NamesFrom(Doc(ref).items, instances)
  BY <1>1 DEF Begun, Document
<1>4. instances' = instances + Cardinality(Unnamed(Doc(ref).items))
  BY DEF CountInstances
<1>5. Paths' = Paths \cup {ref}
  <2>1. \A d \in DOMAIN documents' : documents'[d].path # NoPath => documents'[d].path \in Paths \cup {ref}
    BY <1>1, <1>3 DEF Paths
  <2>2. \A p \in Paths : \E d \in DOMAIN documents' : documents'[d].path = p
    BY DEF Paths
  <2>3. Paths' = {documents'[d].path : d \in DOMAIN documents'} \ {NoPath}
    BY DEF Paths
  <2>4. NoPath \notin Paths
    BY DEF Paths
  <2> QED BY <1>1, <1>2, <1>3, <2>1, <2>2, <2>3, <2>4
<1>6. \A d \in DOMAIN documents' :
        \/ d \in DOMAIN documents /\ documents'[d] = documents[d]
        \/ documents'[d].path = NoPath
        \/ d = last /\ documents'[d] = doc
  BY <1>1
<1> QED BY <1>2, <1>3, <1>4, <1>5, <1>6, NumbersGrow

\* ProjectResolver::beginLoad() up to the loop.
LEMMA RootNumbered == ASSUME IInv, NInv, BeginRoot PROVE NInv'
<1>1. documents = <<>> /\ stage = "root" /\ instances = 0 /\ Paths = {}
  BY DEF BeginRoot, IInv, NInv, Early, Paths
<1>2. CASE UNCHANGED documents /\ UnchangedByLoading /\ stage' \in {"error", "exit", "crash"}
  BY <1>1, <1>2, NothingNumbered DEF UnchangedByLoading, Early, Accepted
<1>3. CASE /\ ~Missing(file) /\ Created(file) /\ CountInstances(file) /\ UnchangedByLoading
           /\ documents' = <<DefaultProject, Begun(file)>> \/ documents' = <<Begun(file)>>
           /\ stage' \in {"references", "exit"}
  <2>1. PICK begun : begun = Begun(file)
    OBVIOUS
  <2>2. DefaultProject.path = NoPath
    BY DEF DefaultProject, Document
  <2>3. PICK last : /\ last \in DOMAIN documents' /\ documents'[last] = begun
                    /\ \A d \in DOMAIN documents' : documents'[d].path = NoPath \/ d = last
    <3>1. CASE documents' = <<DefaultProject, begun>>
      <4>1. DOMAIN documents' = {1, 2} /\ documents'[1] = DefaultProject /\ documents'[2] = begun
        BY <3>1
      <4> QED BY <2>2, <4>1
    <3>2. CASE documents' = <<begun>>
      <4>1. DOMAIN documents' = {1} /\ documents'[1] = begun
        BY <3>2
      <4> QED BY <4>1
    <3> QED BY <1>3, <2>1, <3>1, <3>2
  <2>4. Numbered
    <3>1. Nameless = {} /\ IsFiniteSet({}) /\ Cardinality({}) = 0
      BY <1>1, FS_EmptySet DEF Nameless
    <3>2. DOMAIN documents = {}
      BY <1>1
    <3> QED BY <1>1, <3>1, <3>2 DEF Numbered
  <2>5. Numbered'
    <3>1. UNCHANGED input /\ Exists(file) /\ Created(file) /\ CountInstances(file) /\ file \notin Paths
      BY <1>1, <1>3 DEF UnchangedByLoading, Missing
    <3>2. DOMAIN documents = {}
      BY <1>1
    <3> QED BY <2>1, <2>3, <2>4, <3>1, <3>2, OneNumbered
  <2> QED BY <1>3, <2>5 DEF NInv, Early, Accepted
<1> QED BY <1>2, <1>3 DEF BeginRoot, CreationExits, CreationAsserts, Goto

\* An iteration of the loop over references.
LEMMA ReferenceNumbered == ASSUME IInv, NInv, ResolveReference PROVE NInv'
<1> PICK ref : ref = Head(unresolved)
  OBVIOUS
<1>1. /\ stage = "references" /\ ref \notin resolved
      /\ \/ /\ FileIsMissing(ref) \/ DocumentIsInvalid(ref) \/ DocumentIsBegun(ref)
            /\ UnchangedByLoading
         \/ CreationExits(ref)
         \/ CreationAsserts(ref)
  BY DEF ResolveReference, Resolves
<1>2. CASE CreationExits(ref) \/ CreationAsserts(ref)
  BY <1>2, NothingNumbered DEF CreationExits, CreationAsserts, Goto, UnchangedByLoading, Early, Accepted
<1>3. CASE (FileIsMissing(ref) \/ DocumentIsInvalid(ref)) /\ UnchangedByLoading
  BY <1>1, <1>3, NothingNumbered DEF FileIsMissing, DocumentIsInvalid, Goto, UnchangedByLoading, Early, Accepted
<1>4. CASE DocumentIsBegun(ref) /\ UnchangedByLoading
  <2>1. /\ Exists(ref) /\ UNCHANGED input /\ CountInstances(ref)
        /\ documents' = Append(documents, Begun(ref))
        /\ stage' \in {"references", "exit", "crash"}
    BY <1>1, <1>4 DEF DocumentIsBegun, UnchangedByLoading, Missing, Goto
  <2>2. hasErrors' <=> hasErrors \/ ~Created(ref)
    BY <1>4 DEF DocumentIsBegun
  <2>3. ref \notin Paths
    BY <1>1 DEF IInv
  <2>4. ASSUME ~hasErrors' PROVE Numbered'
    <3>1. Created(ref) /\ Numbered
      BY <1>1, <2>2, <2>4 DEF NInv
    <3>2. PICK S : documents \in Seq(S)
      BY DEF IInv, Shape
    <3>3. PICK last : last = Len(documents) + 1
      OBVIOUS
    <3>4. /\ DOMAIN documents' = DOMAIN documents \cup {last}
          /\ documents'[last] = Begun(ref) /\ \A d \in DOMAIN documents : documents'[d] = documents[d]
      BY <2>1, <3>2, <3>3, OneMore
    <3> QED BY <2>1, <2>3, <3>1, <3>4, OneNumbered
  <2> QED BY <2>1, <2>4 DEF NInv, Early, Accepted
<1> QED BY <1>1, <1>2, <1>3, <1>4

\* Two documents of one file have the same items, so that a name in one is in the other.
LEMMA ApartMeansNameless ==
    ASSUME IInv, Numbered, ~Clash
    PROVE  RepeatedNameless
<1> SUFFICES ASSUME NEW d \in DOMAIN documents, NEW e \in DOMAIN documents,
                    d # e, documents[d].path # NoPath,
                    FileOf(documents[d].path) = FileOf(documents[e].path),
                    NEW k \in OfType(Doc(documents[d].path).items, "Testcase"),
                    k \notin Unnamed(Doc(documents[d].path).items)
             PROVE  FALSE
  BY DEF RepeatedNameless
<1>1. Doc(documents[e].path) = Doc(documents[d].path)
  BY DEF Doc
<1>2. documents[e].path # NoPath
  <2>1. documents[d].path \in Paths
    BY DEF Paths
  <2>2. Exists(documents[d].path) /\ input \in Inputs
    BY <2>1 DEF IInv, Shape
  <2>3. Exists(documents[e].path)
    BY <2>2 DEF Exists
  <2> QED BY <2>2, <2>3, PathsAreNotEmpty
<1>3. k \in DOMAIN Doc(documents[d].path).items
  BY DEF OfType
<1>4. k \in DOMAIN documents[d].names /\ k \in DOMAIN documents[e].names
  BY <1>1, <1>2, <1>3 DEF Numbered
<1>5. documents[d].names[k] = documents[e].names[k]
  <2>1. documents[d].names[k] = Doc(documents[d].path).items[k].name
    BY <1>3 DEF Numbered
  <2>2. documents[e].names[k] = Doc(documents[e].path).items[k].name
    BY <1>1, <1>2, <1>3 DEF Numbered
  <2> QED BY <1>1, <2>1, <2>2
<1>6. <<d, k>> \in TestcasesOf(documents) /\ <<e, k>> \in TestcasesOf(documents)
  BY <1>1, <1>2, <1>4 DEF TestcasesOf
<1> QED BY <1>5, <1>6 DEF Clash, NameOf

\* The loop is over: names that are equal are an error.
LEMMA DuplicatesNumbered == ASSUME IInv, NInv, FindDuplicates PROVE NInv'
<1>1. /\ stage = "references" /\ stage' \in {"error", "resolver"} /\ UNCHANGED <<input, documents>>
      /\ stage' = "resolver" => ~hasErrors /\ ~Clash
  BY DEF FindDuplicates, Goto, UnchangedByLoading
<1>2. stage' = "resolver" => RepeatedNameless
  BY <1>1, ApartMeansNameless DEF NInv
<1> QED BY <1>1, <1>2, NothingNumbered DEF Early, Accepted

\* Numbers are given apart, and clashes are found.
THEOREM NumberingInvariance == Spec => [](IInv /\ NInv)
<1>1. Init => NInv
  BY DEF Init, NInv, Early, Accepted
<1>2. IInv /\ NInv /\ [Next]_vars => NInv'
  <2> SUFFICES ASSUME IInv, NInv, [Next]_vars PROVE NInv'
    OBVIOUS
  <2>1. CASE ParseCommandLine
    <3>1. documents = <<>> /\ stage \in Early
      BY <2>1 DEF ParseCommandLine, IInv, Early
    <3> QED BY <2>1, <3>1, NothingNumbered DEF ParseCommandLine, ParseRun, Goto, Early
  <2>2. CASE LoadProfile
    BY <2>2, NothingNumbered DEF LoadProfile, Goto, Early, Accepted
  <2>3. CASE BeginRoot
    BY <2>3, RootNumbered
  <2>4. CASE RefuseReference
    BY <2>4, NothingNumbered DEF RefuseReference, Goto, UnchangedByLoading, Early, Accepted
  <2>5. CASE ResolveReference
    BY <2>5, ReferenceNumbered
  <2>6. CASE FindDuplicates
    BY <2>6, DuplicatesNumbered
  <2>7. CASE DependenciesResolved
    BY <2>7, NothingNumbered DEF DependenciesResolved, Goto, UnchangedByLoading, Early, Accepted
  <2>8. CASE CompleteDocument
    BY <2>8, NothingNumbered DEF CompleteDocument, Goto, Early, Accepted
  <2>9. CASE LoadEnds
    BY <2>9, NothingNumbered DEF LoadEnds, Goto, UnchangedByLoading, Early, Accepted
  <2>10. ASSUME NEW t, Dispatch(t) PROVE NInv'
    BY <2>10, NothingNumbered DEF Dispatch, Goto, Early, Accepted
  <2>11. CASE AllRan
    BY <2>11, NothingNumbered DEF AllRan, Goto, UnchangedByLoading, Early, Accepted
  <2>12. CASE UNCHANGED vars
    <3>1. stage = "references" => hasErrors \/ (~hasErrors)
      OBVIOUS
    <3> QED BY <2>12, <3>1, NothingNumbered DEF vars, Accepted
  <2> QED BY <2>1, <2>2, <2>3, <2>4, <2>5, <2>6, <2>7, <2>8, <2>9, <2>10, <2>11, <2>12 DEF Next
<1> QED BY <1>1, <1>2, LoadingInvariance, PTL DEF Spec

\* Each path is loaded once.  What is accepted consists of the given file and of all it
\* refers to, directly or not; names in it are apart; and a file that was loaded by a second
\* path has no test case that was given a name (ProjectResolver::beginLoad()).
THEOREM EachPathIsLoadedOnce == Spec => []PathLoadedOnce
<1>1. IInv /\ NInv => PathLoadedOnce
  BY DEF IInv, NInv, PathLoadedOnce
<1> QED BY <1>1, NumberingInvariance, PTL

-----------------------------------------------------------------------------
(* Nothing is refused without a reason.                                     *)

\* What is wrong, or is refused all the same: neither changes.
Excuse == Reason \/ Disagreement

\* The files of what is resolved and of what is to be are apart, and whatever is resolved
\* is referred to.
Separate ==
    /\ \A i, j \in DOMAIN unresolved : FileOf(unresolved[i]) = FileOf(unresolved[j]) => i = j
    /\ \A p \in Range(unresolved), q \in resolved : FileOf(p) # FileOf(q)
    /\ \A p, q \in resolved : FileOf(p) = FileOf(q) => p = q
    /\ \A p \in resolved \ {file} : \E q \in Paths : p \in Range(References(q))

\* Loading goes on without an error, nothing but what is needed is loaded, and each file
\* is referred to by one path.
Sound ==
    /\ ~hasErrors /\ stage \notin {"error", "exit"}
    /\ stage \in {"profile", "root", "references"} => file = Root
    /\ Files \subseteq Needed
    /\ stage = "references" => {FileOf(r) : r \in Range(unresolved)} \subseteq Needed /\ Separate

RInv == Excuse \/ Sound

\* What is needed is the file, and all that is referred to from what is needed.
LEMMA NeededIsClosed == Closed(Needed)
<1>1. ASSUME NEW p, NEW q \in Range(Expected(p)) PROVE q \in Mentioned
  <2>1. Exists(p)
    <3>1. Expected(p) # <<>>
      BY <1>1 DEF Range
    <3> QED BY <3>1 DEF Expected
  <2>2. FileOf(p) \in DOMAIN disk.at /\ q \in Range(Expected(FileOf(p)))
    BY <1>1, <2>1, FilesAreClean DEF Exists
  <2> QED BY <2>2 DEF Mentioned
<1>2. Root \in Needed
  BY DEF Needed, Mentioned, Closed
<1>3. ASSUME NEW p \in Needed, NEW q \in Range(Expected(p)) PROVE q \in Needed
  <2>2. q \in Mentioned
    BY <1>1, <1>3
  <2>3. \A S \in SUBSET Mentioned : Closed(S) => q \in S
    BY <1>3 DEF Needed, Closed
  <2> QED BY <2>2, <2>3 DEF Needed
<1> QED BY <1>2, <1>3 DEF Closed

\* A document that is nested the way the documentation says, as far as it is visited, is
\* valid: the tables of HierarchyValidator refuse nothing else.
LEMMA WellNestedIsValid ==
    ASSUME NEW items, IsTree(items), WellNestedAbove(items)
    PROVE  ValidHierarchy(items)
<1>1. Visited(items) = Reached(items, Visited(items))
  BY VisitedItems
<1> SUFFICES ASSUME NEW i \in Visited(items)
             PROVE  ChildrenAllowed(items, i) /\ ParentAllowed(items, i)
  BY DEF ValidHierarchy
<1>2. i \in DOMAIN items /\ items[i].type \in Types /\ (items[i].parent = 0 \/ items[i].parent \in Visited(items))
  BY <1>1 DEF Reached
<1>3. \A t, u : <<t, u>> \in Locations =>
            /\ \E base \in AllowedChildren(u) : Inherits(t, base)
            /\ t # "QObject" => \E base \in AllowedParents(t) : Inherits(u, base)
  BY DEF Locations, AllowedChildren, AllowedParents, Inherits
<1>4. ChildrenAllowed(items, i)
  <2> SUFFICES ASSUME NEW k \in DOMAIN items, items[k].parent = i
               PROVE  \E base \in AllowedChildren(items[i].type) : Inherits(items[k].type, base)
    BY DEF ChildrenAllowed
  <2>1. <<items[k].type, items[i].type>> \in Locations
    BY DEF WellNestedAbove
  <2> QED BY <1>3, <2>1
<1>5. ParentAllowed(items, i)
  <2>1. CASE items[i].parent = 0
    <3>1. i = 1
      <4>1. i \in Nat
        BY <1>2 DEF IsTree
      <4>2. i # 1 => items[i].parent \in 1..i - 1
        BY <1>2 DEF IsTree
      <4> QED BY <2>1, <4>1, <4>2
    <3> QED BY <2>1, <3>1 DEF WellNestedAbove, ParentAllowed
  <2>2. CASE items[i].parent # 0
    <3>1. <<items[i].type, items[items[i].parent].type>> \in Locations
      BY <1>2, <2>2 DEF WellNestedAbove
    <3>2. items[i].type # "QObject"
      BY <1>2 DEF Types
    <3> QED BY <1>3, <2>2, <3>1, <3>2 DEF ParentAllowed
  <2> QED BY <2>1, <2>2
<1> QED BY <1>4, <1>5

\* HierarchyValidator accepts a document if and only if its root and every item whose parent
\* it visits are where the "Locations" of the documentation say; of what is inside another
\* QML object it knows nothing (QstItem::accept()).
THEOREM ValidMeansLocations ==
    \A items : IsTree(items) /\ items[1].type \in Types => (ValidHierarchy(items) <=> WellNestedAbove(items))
BY ValidIsWellNested, WellNestedIsValid

\* Values that are evaluated, and lists of one length, can be used.
LEMMA EqualLengthsApply ==
    ASSUME NEW bindings, \A b \in Range(bindings) : b.kind # "undefined",
           \A b, c \in Range(bindings) :
                b.kind = "array" /\ c.kind = "array" => Len(b.entries) = Len(c.entries)
    PROVE  ~Unusable(bindings)
<1>1. \A m, n \in ArrayLengths(bindings) : m = n
  BY DEF ArrayLengths
<1>2. ~HasKind(bindings, "undefined")
  BY DEF HasKind
<1>3. ~(Cardinality(ArrayLengths(bindings)) > 1)
  <2>1. CASE ArrayLengths(bindings) = {}
    <3>1. Cardinality({}) = 0
      BY FS_EmptySet
    <3> QED BY <2>1, <3>1
  <2>2. CASE ArrayLengths(bindings) # {}
    <3>1. PICK n : ArrayLengths(bindings) = {n}
      BY <1>1, <2>2
    <3>2. Cardinality({n}) = 1
      BY FS_Singleton
    <3> QED BY <3>1, <3>2
  <2> QED BY <2>1, <2>2
<1> QED BY <1>2, <1>3 DEF Unusable

\* A Dimension with bindings, none of them without entries, has a row.
LEMMA EntriesMakeRows ==
    ASSUME NEW bindings, AreBindings(bindings), Applicable(bindings), bindings # <<>>,
           \A b \in Range(bindings) : b.entries # <<>>
    PROVE  Rows(bindings) # <<>>
<1>1. RowCount(bindings) \in Nat
  BY RowsAreCounted
<1>2. RowCount(bindings) # 0
  <2>1. CASE ArrayLengths(bindings) = {}
    BY <2>1 DEF RowCount
  <2>2. CASE ArrayLengths(bindings) # {}
    <3>1. RowCount(bindings) \in ArrayLengths(bindings)
      BY <2>2 DEF RowCount
    <3>2. PICK b \in Range(bindings) : RowCount(bindings) = Len(b.entries)
      BY <3>1 DEF ArrayLengths
    <3>3. b.entries \in Seq(Range(b.entries)) /\ b.entries # <<>>
      BY DEF AreBindings
    <3> QED BY <3>2, <3>3
  <2> QED BY <2>1, <2>2
<1>3. 1 \in DOMAIN Rows(bindings)
  BY <1>1, <1>2 DEF Rows
<1> QED BY <1>3

\* A document without fault is begun and is valid; its lists make rows, if they are lists.
LEMMA FaultlessGoesOn ==
    ASSUME input \in Inputs, NEW path, ~Faulty(path)
    PROVE  /\ ~Missing(path) /\ ValidHierarchy(Doc(path).items) /\ Doc(path).fails = "never"
           /\ \A i \in OfType(Doc(path).items, "Dimension") : ~Unusable(Doc(path).items[i].bindings)
           /\ ~WritesInTestcase(Doc(path)) /\ (BindingsApply(path) => ~HasEmptyDimension(Doc(path)))
<1>1. /\ Exists(path) /\ Doc(path).fails = "never" /\ WellNestedAbove(Doc(path).items)
      /\ ~WritesInTestcase(Doc(path)) /\ Compiles(Doc(path))
  BY DEF Faulty
<1>2. ~Missing(path)
  BY <1>1 DEF Missing
<1>3. IsTree(Doc(path).items)
  BY <1>1, DocumentsAreTrees
<1>4. ValidHierarchy(Doc(path).items)
  BY <1>1, <1>3, WellNestedIsValid
<1>5. ASSUME NEW i \in OfType(Doc(path).items, "Dimension")
      PROVE  /\ ~Unusable(Doc(path).items[i].bindings)
             /\ Applicable(Doc(path).items[i].bindings) => Rows(Doc(path).items[i].bindings) # <<>>
  <2> DEFINE bindings == Doc(path).items[i].bindings
  <2>1. /\ bindings # <<>>
        /\ \A b \in Range(bindings) : b.kind # "undefined" /\ b.entries # <<>>
        /\ \A b, c \in Range(bindings) :
                b.kind = "array" /\ c.kind = "array" => Len(b.entries) = Len(c.entries)
    BY DEF Faulty
  <2>2. AreBindings(bindings)
    BY <1>1, DocumentsAreTrees DEF OfType
  <2> HIDE DEF bindings
  <2>3. ~Unusable(bindings)
    BY <2>1, EqualLengthsApply
  <2>4. Applicable(bindings) => Rows(bindings) # <<>>
    BY <2>1, <2>2, EntriesMakeRows
  <2> QED BY <2>3, <2>4 DEF bindings
<1>6. BindingsApply(path) => ~HasEmptyDimension(Doc(path))
  BY <1>5 DEF BindingsApply, HasEmptyDimension
<1> QED BY <1>1, <1>2, <1>4, <1>5, <1>6

\* A fault of a document that is needed is a reason, by whatever path it is loaded.
LEMMA FaultIsReason ==
    ASSUME NEW path, FileOf(path) \in Needed, ~Excuse
    PROVE  ~Faulty(path) /\ (Exists(path) => ~WritesTooEarly(Doc(path)))
<1>1. ~Faulty(FileOf(path)) /\ (Exists(FileOf(path)) => ~WritesTooEarly(Doc(FileOf(path))))
  BY DEF Excuse, Reason, Disagreement, LiteralIsGiven
<1>2. Exists(FileOf(path)) = Exists(path) /\ Doc(FileOf(path)) = Doc(path)
  BY FilesAreClean
<1> QED BY <1>1, <1>2 DEF Faulty

\* There are finitely many test cases in what is needed.
LEMMA GivenIsFinite ==
    ASSUME input \in Inputs
    PROVE  IsFiniteSet(Given)
<1> DEFINE P == {p \in Needed : Exists(p)}
           Of(p) == {p} \X OfType(Doc(p).items, "Testcase")
           f == [p \in P |-> Of(p)]
           G == {Of(p) : p \in P}
<1>1. IsFiniteSet(P)
  <2>1. ASSUME NEW p \in Needed, p # Root PROVE FileOf(p) = p
    <3>1. PICK q : p \in Range(Expected(q))
      BY <2>1 DEF Needed, Mentioned
    <3>2. Expected(q) # <<>>
      BY <3>1 DEF Range
    <3>3. PICK dir, name : p = [dir |-> dir, via |-> "", name |-> name]
      BY <3>1, <3>2 DEF Expected, Range
    <3> QED BY <3>3 DEF FileOf, Place
  <2>2. P \in SUBSET (DOMAIN disk.at \cup {Root})
    BY <2>1 DEF Exists
  <2>3. IsFiniteSet(DOMAIN disk.at)
    BY InputsAssumption DEF disk
  <2>4. IsFiniteSet(DOMAIN disk.at \cup {Root})
    BY <2>3, FS_AddElement
  <2> QED BY <2>2, <2>4, FS_Subset
<1>2. ASSUME NEW p \in P PROVE IsFiniteSet(Of(p))
  <2>1. IsTree(Doc(p).items)
    BY DocumentsAreTrees
  <2>2. DOMAIN Doc(p).items = 1..Len(Doc(p).items) /\ Len(Doc(p).items) \in Nat
    BY <2>1 DEF IsTree
  <2>3. IsFiniteSet(DOMAIN Doc(p).items)
    BY <2>2, FS_Interval
  <2>4. OfType(Doc(p).items, "Testcase") \in SUBSET DOMAIN Doc(p).items
    BY DEF OfType
  <2>5. IsFiniteSet(OfType(Doc(p).items, "Testcase"))
    BY <2>3, <2>4, FS_Subset
  <2>6. IsFiniteSet({p})
    BY FS_Singleton
  <2> QED BY <2>5, <2>6, FS_Product
<1> HIDE DEF P, Of
<1>3. f \in Surjection(P, G)
  BY DEF Surjection
<1>4. IsFiniteSet(G)
  BY <1>1, <1>3, FS_Surjection
<1>5. IsFiniteSet(UNION G)
  BY <1>2, <1>4, FS_UNION
<1>6. Given = UNION G
  BY DEF Given, P, Of
<1> QED BY <1>5, <1>6

\* When nothing is referred to twice, the references of what is needed are apart, and
\* none of them is to the given file.
LEMMA ReferredOnce ==
    ASSUME ~ReferredTwice
    PROVE  /\ \A p \in Needed : Root \notin Range(Expected(p))
           /\ \A p, q \in Needed : p # q => Range(Expected(p)) \cap Range(Expected(q)) = {}
           /\ \A p \in Needed : \A i, j \in DOMAIN Expected(p) : Expected(p)[i] = Expected(p)[j] => i = j
<1>1. \A p \in Needed : Root \notin Range(Expected(p))
  BY DEF ReferredTwice
<1>2. \A p, q \in Needed : \A i \in DOMAIN Expected(p), j \in DOMAIN Expected(q) :
        Expected(p)[i] = Expected(q)[j] => p = q /\ i = j
  BY DEF ReferredTwice
<1>3. \A p, q \in Needed : p # q => Range(Expected(p)) \cap Range(Expected(q)) = {}
  BY <1>2 DEF Range
<1> QED BY <1>1, <1>2, <1>3

\* The first of a list whose files are apart is taken, and others are appended.
LEMMA DistinctRest ==
    ASSUME NEW S, NEW u \in Seq(S), u # <<>>, NEW r \in Seq(S),
           \A i, j \in DOMAIN u : FileOf(u[i]) = FileOf(u[j]) => i = j,
           \A i, j \in DOMAIN r : FileOf(r[i]) = FileOf(r[j]) => i = j,
           \A p \in Range(u), q \in Range(r) : FileOf(p) # FileOf(q)
    PROVE  /\ \A p \in Range(Tail(u)) : FileOf(p) # FileOf(Head(u))
           /\ \A i, j \in DOMAIN (Tail(u) \o r) : FileOf((Tail(u) \o r)[i]) = FileOf((Tail(u) \o r)[j]) => i = j
<1> DEFINE v == Tail(u) \o r
<1>1. /\ Len(u) \in Nat \ {0} /\ Len(r) \in Nat /\ Head(u) = u[1]
      /\ DOMAIN u = 1..Len(u) /\ DOMAIN r = 1..Len(r) /\ DOMAIN Tail(u) = 1..Len(u) - 1
      /\ \A i \in 1..Len(u) - 1 : Tail(u)[i] = u[i + 1]
  OBVIOUS
<1>2. Tail(u) \in Seq(S) /\ Len(Tail(u)) = Len(u) - 1
  OBVIOUS
<1>3. DOMAIN v = 1..(Len(u) - 1 + Len(r))
  BY <1>1, <1>2
<1>4. \A i \in DOMAIN v : v[i] = IF i <= Len(u) - 1 THEN Tail(u)[i] ELSE r[i - (Len(u) - 1)]
  BY <1>1, <1>2
<1> HIDE DEF v
<1>5. \A i \in DOMAIN v :
        \/ i <= Len(u) - 1 /\ i + 1 \in DOMAIN u /\ v[i] = u[i + 1]
        \/ ~(i <= Len(u) - 1) /\ i - (Len(u) - 1) \in DOMAIN r /\ v[i] = r[i - (Len(u) - 1)]
  BY <1>1, <1>3, <1>4
<1>6. ASSUME NEW i \in DOMAIN v, NEW j \in DOMAIN v, FileOf(v[i]) = FileOf(v[j]) PROVE i = j
  <2>1. i \in Nat /\ j \in Nat
    BY <1>3
  <2>2. \A k \in DOMAIN u, l \in DOMAIN r : FileOf(u[k]) # FileOf(r[l])
    BY DEF Range
  <2> QED BY <1>1, <1>5, <1>6, <2>1, <2>2
<1>7. ASSUME NEW i \in DOMAIN Tail(u) PROVE FileOf(Tail(u)[i]) # FileOf(Head(u))
  BY <1>1
<1>8. \A p \in Range(Tail(u)) : FileOf(p) # FileOf(Head(u))
  BY <1>7 DEF Range
<1> QED BY <1>6, <1>8 DEF v

\* What is needed, and what is wrong with it, does not change.
LEMMA ReasonsStay ==
    ASSUME UNCHANGED input
    PROVE  Excuse' = Excuse /\ Needed' = Needed /\ Root' = Root
<1>1. \A p : /\ FileOf(p)' = FileOf(p) /\ Exists(p)' = Exists(p) /\ Doc(p)' = Doc(p)
             /\ Expected(p)' = Expected(p)
  BY FilesStay
<1>2. disk' = disk /\ args' = args
  BY DEF disk, args
<1>3. GivenFiles' = GivenFiles /\ Root' = Root
  <2>1. GivenFiles' = GivenFiles
    BY <1>2 DEF GivenFiles, QmlFiles
  <2> QED BY <1>1, <1>2, <2>1 DEF Root
<1>4. Needed' = Needed
  <2>1. Mentioned' = Mentioned
    BY <1>1, <1>2, <1>3 DEF Mentioned
  <2>2. \A S : Closed(S)' = Closed(S)
    BY <1>1, <1>3 DEF Closed
  <2> QED BY <2>1, <2>2 DEF Needed
<1>5. ReferredTwice' = ReferredTwice
  BY <1>1, <1>3, <1>4 DEF ReferredTwice
<1>6. \A p : Faulty(p)' = Faulty(p)
  BY <1>1, <1>2 DEF Faulty
<1>7. Given' = Given /\ \A t : GivenName(t)' = GivenName(t)
  <2>1. Given' = Given
    BY <1>1, <1>2, <1>4 DEF Given
  <2> QED BY <1>1, <2>1 DEF GivenName
<1>8. NamesMeet' = NamesMeet /\ NumberIsTaken' = NumberIsTaken
  BY <1>7 DEF NamesMeet, NumberIsTaken
<1>9. CommandLineFaulty' = CommandLineFaulty /\ DirectoryIsGiven' = DirectoryIsGiven
  BY <1>2, <1>3 DEF CommandLineFaulty, DirectoryIsGiven
<1>10. DocumentedPaths' = DocumentedPaths /\ (\A dir : HasProfile(dir)' = HasProfile(dir))
       /\ \A dir : ProfileIn(dir)' = ProfileIn(dir)
  BY <1>2, <1>3 DEF DocumentedPaths, HasProfile, ProfileIn
<1>11. \A i, dirs : IsFirst(i, dirs)' = IsFirst(i, dirs)
  BY <1>10 DEF IsFirst
<1>12. \A dirs : LoadsFrom(dirs)' = LoadsFrom(dirs)
  BY <1>2, <1>10, <1>11 DEF LoadsFrom
<1>13. ProfileFaulty' = ProfileFaulty /\ ProfileInConfig' = ProfileInConfig
  BY <1>2, <1>10, <1>11, <1>12 DEF ProfileFaulty, ProfileInConfig
<1>14. LiteralIsGiven' = LiteralIsGiven
  BY <1>1, <1>4 DEF LiteralIsGiven
<1> QED BY <1>3, <1>4, <1>5, <1>6, <1>8, <1>9, <1>13, <1>14 DEF Excuse, Reason, Disagreement

\* A step that loads nothing, and finds no error unless there is a reason.
LEMMA NothingNew ==
    ASSUME RInv, UNCHANGED <<input, file, documents>>,
           ~Excuse /\ Sound => ~hasErrors' /\ stage' \notin {"error", "exit"},
           stage' \in {"profile", "root"} => stage \in {"profile", "root"},
           stage' = "references" => stage = "references" /\ UNCHANGED <<unresolved, resolved>>
    PROVE  RInv'
<1>1. Excuse' = Excuse /\ Needed' = Needed /\ Root' = Root
  BY ReasonsStay
<1>2. \A p : FileOf(p)' = FileOf(p) /\ References(p)' = References(p)
  BY FilesStay
<1>3. Paths' = Paths /\ Files' = Files
  <2>1. Paths' = Paths
    BY DEF Paths
  <2> QED BY <1>2, <2>1 DEF Files
<1>4. stage' = "references" => Separate' = Separate
  BY <1>2, <1>3 DEF Separate
<1>5. ASSUME Sound, ~Excuse PROVE Sound'
  <2>1. stage' = "references" => {FileOf(r)' : r \in Range(unresolved')} \subseteq Needed
    BY <1>2, <1>5 DEF Sound
  <2>2. stage' = "references" => ({FileOf(r) : r \in Range(unresolved)} \subseteq Needed)'
    BY <1>1, <2>1
  <2> QED BY <1>1, <1>3, <1>4, <1>5, <2>2 DEF Sound
<1> QED BY <1>1, <1>5 DEF RInv

\* Two test cases with one name: both were given it, or one has the number of the other for
\* a name.
LEMMA ClashIsMeeting ==
    ASSUME IInv, NInv, Sound, stage = "references", Clash
    PROVE  NamesMeet \/ NumberIsTaken
<1> DEFINE Src(t) == <<FileOf(documents[t[1]].path), t[2]>>
<1>1. /\ input \in Inputs /\ Numbered /\ NoneTwice /\ \A p \in Paths : Exists(p)
      /\ \A p, q \in Paths : FileOf(p) = FileOf(q) => p = q
      /\ \A p \in Paths : FileOf(p) \in Needed
  <2>1. ~hasErrors /\ Separate /\ Files \subseteq Needed
    BY DEF Sound
  <2>2. Paths \subseteq resolved /\ NoneTwice /\ input \in Inputs /\ \A p \in Paths : Exists(p)
    BY DEF IInv, Shape
  <2> QED BY <2>1, <2>2 DEF NInv, Separate, Files
<1>2. PICK s \in TestcasesOf(documents), t \in TestcasesOf(documents) :
        s # t /\ NameOf(documents, s) = NameOf(documents, t)
  BY DEF Clash
<1>3. ASSUME NEW u \in TestcasesOf(documents)
      PROVE  /\ u = <<u[1], u[2]>> /\ u[1] \in DOMAIN documents /\ documents[u[1]].path # NoPath
             /\ u[2] \in OfType(Doc(documents[u[1]].path).items, "Testcase")
             /\ documents[u[1]].path \in Paths
  BY DEF TestcasesOf, Paths
<1>4. \A p : Exists(FileOf(p)) = Exists(p) /\ Doc(FileOf(p)) = Doc(p)
  BY FilesAreClean
<1>5. ASSUME NEW u \in TestcasesOf(documents) PROVE Src(u) \in Given
  BY <1>1, <1>3, <1>4 DEF Given
<1>6. Src(s) # Src(t)
  <2>1. SUFFICES ASSUME Src(s) = Src(t) PROVE s = t
    BY <1>2
  <2>2. FileOf(documents[s[1]].path) = FileOf(documents[t[1]].path) /\ s[2] = t[2]
    BY <2>1
  <2>3. documents[s[1]].path = documents[t[1]].path
    BY <1>1, <1>3, <2>2
  <2>4. s[1] = t[1]
    BY <1>1, <1>3, <2>3 DEF NoneTwice
  <2> QED BY <1>3, <2>2, <2>4
<1>7. instances \in Nat /\ instances <= Cardinality(Given) /\ Cardinality(Given) \in Nat
  <2> DEFINE h == [t2 \in Nameless |-> <<FileOf(t2[1]), t2[2]>>]
  <2>1. ASSUME NEW v \in Nameless
        PROVE  /\ v = <<v[1], v[2]>> /\ v[1] \in Paths /\ v[2] \in Unnamed(Doc(v[1]).items)
    BY DEF Nameless, NamelessOf
  <2>2. ASSUME NEW v \in Nameless PROVE h[v] \in Given
    <3>1. Exists(FileOf(v[1])) /\ FileOf(v[1]) \in Needed /\ v[2] \in OfType(Doc(FileOf(v[1])).items, "Testcase")
      BY <1>1, <1>4, <2>1 DEF Unnamed
    <3> QED BY <3>1 DEF Given
  <2>3. ASSUME NEW v \in Nameless, NEW w \in Nameless, h[v] = h[w] PROVE v = w
    <3>1. FileOf(v[1]) = FileOf(w[1]) /\ v[2] = w[2]
      BY <2>3
    <3> QED BY <1>1, <2>1, <3>1
  <2>4. h \in Injection(Nameless, Given)
    BY <2>2, <2>3 DEF Injection, IsInjective
  <2>5. IsFiniteSet(Given)
    BY <1>1, GivenIsFinite
  <2>6. IsFiniteSet(Nameless) /\ instances = Cardinality(Nameless)
    BY <1>1 DEF Numbered
  <2> HIDE DEF h
  <2>7. Cardinality(Nameless) <= Cardinality(Given)
    BY <2>4, <2>5, FS_Injection
  <2> QED BY <2>5, <2>6, <2>7, FS_CardinalityType
<1>8. ASSUME NEW u \in TestcasesOf(documents)
      PROVE  IF GivenName(Src(u)) = NoName
             THEN \E n \in 0..Cardinality(Given) : NameOf(documents, u) = DefaultName(n)
             ELSE NameOf(documents, u) = GivenName(Src(u))
  <2> DEFINE items == Doc(documents[u[1]].path).items
  <2>1. GivenName(Src(u)) = items[u[2]].name
    BY <1>4 DEF GivenName
  <2>2. u[2] \in DOMAIN items /\ (u[2] \in Unnamed(items) <=> items[u[2]].name = NoName)
    BY <1>3 DEF OfType, Unnamed
  <2>3. IF u[2] \in Unnamed(items)
        THEN \E n \in Nat : n < instances /\ documents[u[1]].names[u[2]] = DefaultName(n)
        ELSE documents[u[1]].names[u[2]] = items[u[2]].name
    BY <1>1, <1>3, <2>2 DEF Numbered
  <2>4. \A n \in Nat : n < instances => n \in 0..Cardinality(Given)
    BY <1>7
  <2> QED BY <2>1, <2>2, <2>3, <2>4 DEF NameOf
<1>9. ~(GivenName(Src(s)) = NoName /\ GivenName(Src(t)) = NoName)
  <2> SUFFICES ASSUME GivenName(Src(s)) = NoName, GivenName(Src(t)) = NoName PROVE FALSE
    OBVIOUS
  <2>1. /\ s[2] \in Unnamed(Doc(documents[s[1]].path).items)
        /\ t[2] \in Unnamed(Doc(documents[t[1]].path).items)
    BY <1>3, <1>4 DEF Unnamed, GivenName
  <2>2. s[1] = t[1] /\ s[2] = t[2]
    BY <1>1, <1>2, <1>3, <2>1 DEF Numbered, NameOf
  <2> QED BY <1>2, <1>3, <2>2
<1> HIDE DEF Src
<1>10. Src(s) \in Given /\ Src(t) \in Given
  BY <1>5
<1>11. CASE GivenName(Src(s)) # NoName /\ GivenName(Src(t)) # NoName
  BY <1>2, <1>6, <1>8, <1>10, <1>11 DEF NamesMeet
<1>12. CASE GivenName(Src(s)) # NoName /\ GivenName(Src(t)) = NoName
  BY <1>2, <1>8, <1>10, <1>12 DEF NumberIsTaken
<1>13. CASE GivenName(Src(s)) = NoName /\ GivenName(Src(t)) # NoName
  BY <1>2, <1>8, <1>10, <1>13 DEF NumberIsTaken
<1> QED BY <1>9, <1>11, <1>12, <1>13

-----------------------------------------------------------------------------
(* The steps of loading, and their reasons.                                *)

\* CommandlineParser: a file that is found is the one that is meant, unless a directory is
\* given that is not the current one.
LEMMA ParsingHasReason == ASSUME IInv, RInv, ParseCommandLine PROVE RInv'
<1>1. stage = "commandline" /\ documents = <<>> /\ input \in Inputs
  BY DEF ParseCommandLine, IInv, Early, Shape
<1>2. UNCHANGED <<input, documents, hasErrors>> /\ stage' \in {"profile", "error", "end"}
  BY DEF ParseCommandLine, ParseRun, Goto
<1>3. Excuse' = Excuse /\ Needed' = Needed /\ Root' = Root
  BY <1>2, ReasonsStay
<1>4. ASSUME ~Excuse PROVE stage' # "error" /\ (stage' = "profile" => file' = Root)
  <2>1. ~CommandLineFaulty /\ ~DirectoryIsGiven
    BY <1>4 DEF Excuse, Reason, Disagreement
  <2>2. CASE args.command # "run"
    BY <2>1, <2>2 DEF ParseCommandLine, CommandLineFaulty, Goto
  <2>3. CASE args.command = "run" /\ args.file.kind \notin {"unset", "dir", "slash"}
    BY <2>1, <2>3 DEF ParseCommandLine, ParseRun, CommandLineFaulty, Goto, Root
  <2>4. CASE args.command = "run" /\ args.file.kind \in {"unset", "dir", "slash"}
    <3>1. SearchedDir(args.file) = Cwd /\ QmlFiles(Cwd) = GivenFiles
      BY <2>1, <2>4 DEF SearchedDir, DirectoryIsGiven, GivenFiles
    <3>2. Cardinality(GivenFiles) = 1
      BY <2>1, <2>4 DEF CommandLineFaulty
    <3>3. PICK p \in GivenFiles : /\ GivenFiles = {p} /\ stage' = "profile"
                                  /\ file' = [dir |-> Cwd, via |-> "", name |-> p.name]
      BY <2>1, <2>4, <3>1, <3>2 DEF ParseCommandLine, ParseRun, CommandLineFaulty, Goto
    <3>4. Root = p
      BY <2>4, <3>3 DEF Root
    <3>5. p \in FilePaths /\ p.via = "" /\ p.dir = Cwd
      BY <1>1, <3>1, InputsAssumption DEF QmlFiles, disk
    <3>6. p = [dir |-> p.dir, via |-> p.via, name |-> p.name]
      BY <3>5 DEF FilePaths
    <3> QED BY <3>3, <3>4, <3>5, <3>6
  <2> QED BY <2>2, <2>3, <2>4
<1>5. Files' = {}
  BY <1>1, <1>2 DEF Files, Paths
<1> QED BY <1>1, <1>2, <1>3, <1>4, <1>5 DEF RInv, Sound

\* ProfileLoader: the first directory that has the profile counts, and is looked at unless
\* it is that of the configuration.
LEMMA ProfileHasReason == ASSUME IInv, RInv, LoadProfile PROVE RInv'
<1>1. /\ stage = "profile" /\ input \in Inputs /\ UNCHANGED <<input, file, documents, hasErrors>>
      /\ stage' \in {"root", "error"}
      /\ stage' = "error" => args.profiles # <<>> /\ ~LoadsFrom(ProfilePaths)
  BY DEF LoadProfile, IInv, Shape, Goto
<1>2. ASSUME ~Excuse, Sound PROVE stage' # "error"
  <2> SUFFICES ASSUME stage' = "error" PROVE FALSE
    OBVIOUS
  <2>1. args.profiles # <<>> /\ ~LoadsFrom(ProfilePaths) /\ file = Root
    BY <1>1, <1>2 DEF Sound
  <2>2. /\ LoadsFrom(DocumentedPaths)
        /\ ~IsFirst(Len(DocumentedPaths), DocumentedPaths)
    BY <1>2, <2>1 DEF Excuse, Reason, Disagreement, ProfileFaulty, ProfileInConfig
  <2>3. PICK n \in Nat : /\ DOMAIN ProfilePaths = 1..n + 1 /\ DOMAIN DocumentedPaths = 1..n + 2
                         /\ Len(DocumentedPaths) = n + 2
                         /\ \A i \in 1..n + 1 : DocumentedPaths[i] = ProfilePaths[i]
    <3>1. args.paths \in Seq(Directories)
      BY <1>1, InputsAssumption DEF args
    <3>2. PICK paths : paths = args.paths
      OBVIOUS
    <3>3. PICK dir : dir = Root.dir
      OBVIOUS
    <3>4. PICK S : /\ paths \in Seq(S) /\ dir \in S /\ Config \in S
      <4>1. paths \in Seq(Directories \cup {dir, Config})
        BY <3>1, <3>2
      <4> QED BY <4>1
    <3>5. ProfilePaths = Append(paths, dir) /\ DocumentedPaths = paths \o <<dir, Config>>
      BY <2>1, <3>2, <3>3 DEF ProfilePaths, DocumentedPaths
    <3>6. /\ Len(paths) \in Nat /\ DOMAIN Append(paths, dir) = 1..Len(paths) + 1
          /\ \A i \in 1..Len(paths) + 1 : Append(paths, dir)[i] = IF i <= Len(paths) THEN paths[i] ELSE dir
      BY <3>4
    <3>7. /\ Len(paths \o <<dir, Config>>) = Len(paths) + 2
          /\ DOMAIN (paths \o <<dir, Config>>) = 1..Len(paths) + 2
          /\ \A i \in 1..Len(paths) + 1 : (paths \o <<dir, Config>>)[i] = IF i <= Len(paths) THEN paths[i] ELSE dir
      BY <3>4
    <3> QED BY <3>5, <3>6, <3>7
  <2>4. PICK i \in 1..n + 2 : /\ IsFirst(i, DocumentedPaths)
                             /\ disk.profiles[ProfileIn(DocumentedPaths[i])] = "good"
    BY <2>2, <2>3 DEF LoadsFrom
  <2>5. i # n + 2
    BY <2>2, <2>3, <2>4
  <2>6. i \in 1..n + 1 /\ \A j \in 1..i - 1 : j \in 1..n + 1
    BY <2>5
  <2>7. IsFirst(i, ProfilePaths)
    BY <2>3, <2>4, <2>6 DEF IsFirst
  <2>8. LoadsFrom(ProfilePaths)
    BY <2>3, <2>4, <2>6, <2>7 DEF LoadsFrom
  <2> QED BY <2>1, <2>8
<1>3. ~Excuse /\ Sound => ~hasErrors'
  BY <1>1 DEF Sound
<1> QED BY <1>1, <1>2, <1>3, NothingNew

\* Creation exits only for a fault, or because of a literal.
LEMMA ExitHasReason ==
    ASSUME IInv, RInv, NEW path, Exists(path), Sound => FileOf(path) \in Needed,
           CreationExits(path) \/ CreationAsserts(path)
    PROVE  RInv'
<1>1. /\ UNCHANGED <<input, file, documents, hasErrors>> /\ stage' \in {"exit", "crash"}
      /\ stage' = "exit" => \/ WritesTooEarly(Doc(path))
                            \/ \E i \in OfType(Doc(path).items, "Dimension") : Unusable(Doc(path).items[i].bindings)
  BY DEF CreationExits, CreationAsserts, UnchangedByLoading, Goto
<1>2. ASSUME ~Excuse, Sound PROVE stage' # "exit" /\ ~hasErrors'
  <2>1. ~Faulty(path) /\ ~WritesTooEarly(Doc(path)) /\ input \in Inputs
    BY <1>2, FaultIsReason DEF IInv, Shape
  <2>2. \A i \in OfType(Doc(path).items, "Dimension") : ~Unusable(Doc(path).items[i].bindings)
    BY <2>1, FaultlessGoesOn
  <2> QED BY <1>1, <1>2, <2>1, <2>2 DEF Sound
<1> QED BY <1>1, <1>2, NothingNew

\* What beginLoad() has begun is the file that is meant, and what that refers to is needed.
LEMMA RootSeparate ==
    ASSUME IInv, ~Excuse, UNCHANGED <<input, file>>, Exists(file), file = Root,
           Paths' = {file}, resolved' = {file}, unresolved' = References(file)
    PROVE  /\ (Files \subseteq Needed)' /\ ({FileOf(r) : r \in Range(unresolved)} \subseteq Needed)'
           /\ Separate'
<1>1. Closed(Needed) /\ input \in Inputs /\ FileOf(file) = file
  BY NeededIsClosed DEF IInv, Shape
<1>2. file \in Needed /\ Range(Expected(file)) \subseteq Needed
  BY <1>1 DEF Closed
<1>3. /\ DOMAIN References(file) = DOMAIN Expected(file)
      /\ \A i \in DOMAIN Expected(file) : FileOf(References(file)[i]) = Expected(file)[i]
      /\ Range(Expected(file)) = {FileOf(r) : r \in Range(References(file))}
  BY <1>1, ReferencesAreExpected
<1>4. /\ file \notin Range(Expected(file))
      /\ \A i, j \in DOMAIN Expected(file) : Expected(file)[i] = Expected(file)[j] => i = j
  BY <1>2, ReferredOnce DEF Excuse, Reason
<1>5. Needed' = Needed /\ \A p : FileOf(p)' = FileOf(p) /\ References(p)' = References(p)
  BY ReasonsStay, FilesStay
<1>6. Files' = {file}
  BY <1>1, <1>5 DEF Files
<1>7. {FileOf(r)' : r \in Range(unresolved')} = Range(Expected(file))
  BY <1>3, <1>5
<1>8. Separate'
  <2>1. \A i, j \in DOMAIN unresolved' : FileOf(unresolved'[i]) = FileOf(unresolved'[j]) => i = j
    BY <1>3, <1>4
  <2>2. \A p \in Range(unresolved'), q \in resolved' : FileOf(p) # FileOf(q)
    BY <1>1, <1>3, <1>4
  <2> QED BY <1>5, <2>1, <2>2 DEF Separate
<1> QED BY <1>2, <1>5, <1>6, <1>7, <1>8

\* beginLoad() up to the loop: what is refused is at fault.
LEMMA RootHasReason == ASSUME IInv, RInv, BeginRoot PROVE RInv'
<1>1. stage = "root" /\ documents = <<>> /\ input \in Inputs
  BY DEF BeginRoot, IInv, Early, Shape
<1>2. ASSUME ~Excuse, Sound
      PROVE  /\ file = Root /\ ~hasErrors /\ FileOf(file) \in Needed /\ FileOf(file) = file
             /\ ~Missing(file) /\ ValidHierarchy(Doc(file).items) /\ Doc(file).fails = "never"
             /\ Created(file)
  <2>1. file = Root /\ ~hasErrors /\ FileOf(file) = file
    BY <1>1, <1>2 DEF Sound, IInv, Shape
  <2>2. FileOf(file) \in Needed
    BY <2>1, NeededIsClosed DEF Closed
  <2>3. ~Faulty(file)
    BY <1>2, <2>2, FaultIsReason
  <2>4. ~Missing(file) /\ ValidHierarchy(Doc(file).items) /\ Doc(file).fails = "never"
    BY <1>1, <2>3, FaultlessGoesOn
  <2> QED BY <2>1, <2>2, <2>4 DEF Created
<1>3. CASE Missing(file) /\ UNCHANGED documents /\ UnchangedByLoading /\ stage' = "error"
  BY <1>2, <1>3, NothingNew DEF UnchangedByLoading
<1>4. CASE ~Missing(file) /\ (CreationExits(file) \/ CreationAsserts(file))
  <2>1. CASE ~Excuse /\ Sound
    <3>1. Exists(file) /\ FileOf(file) \in Needed
      BY <1>2, <1>4, <2>1 DEF Missing
    <3> QED BY <1>4, <3>1, ExitHasReason
  <2>2. CASE Excuse
    BY <1>4, <2>2, NothingNew DEF CreationExits, CreationAsserts, UnchangedByLoading, Goto
  <2> QED BY <2>1, <2>2 DEF RInv
<1>5. CASE /\ ~Created(file) /\ UNCHANGED documents /\ UnchangedByLoading /\ stage' = "error"
  BY <1>2, <1>5, NothingNew DEF UnchangedByLoading
<1>6. CASE /\ UNCHANGED documents /\ UnchangedByLoading /\ stage' = "crash" /\ ~hasErrors'
  BY <1>6, NothingNew DEF UnchangedByLoading
<1>7. CASE /\ ~Missing(file) /\ UnchangedByLoading /\ resolved' = {file}
           /\ Created(file) /\ ~hasErrors' /\ stage' \in {"references", "exit"}
           /\ stage' = "exit" => Doc(file).fails = "references"
           /\ documents' = <<DefaultProject, Begun(file)>> \/ documents' = <<Begun(file)>>
           /\ unresolved' = References(file)
  <2>1. UNCHANGED <<input, file>> /\ Exists(file)
    BY <1>7 DEF UnchangedByLoading, Missing
  <2>2. Excuse' = Excuse /\ Root' = Root
    BY <2>1, ReasonsStay
  <2>3. ASSUME ~Excuse, Sound PROVE Sound'
    <3>1. Paths' = {file}
      <4>1. PICK doc : doc = Begun(file)
        OBVIOUS
      <4>2. doc.path = file /\ file # NoPath
        BY <1>1, <2>1, <4>1, PathsAreNotEmpty DEF Begun, Document
      <4>3. DefaultProject.path = NoPath
        BY DEF DefaultProject, Document
      <4>4. CASE documents' = <<DefaultProject, doc>>
        <5>1. DOMAIN documents' = {1, 2} /\ documents'[1] = DefaultProject /\ documents'[2] = doc
          BY <4>4
        <5> QED BY <4>2, <4>3, <5>1 DEF Paths
      <4>5. CASE documents' = <<doc>>
        <5>1. DOMAIN documents' = {1} /\ documents'[1] = doc
          BY <4>5
        <5> QED BY <4>2, <5>1 DEF Paths
      <4> QED BY <1>7, <4>1, <4>4, <4>5
    <3>2. (Files \subseteq Needed)' /\ ({FileOf(r) : r \in Range(unresolved)} \subseteq Needed)' /\ Separate'
      BY <1>2, <1>7, <2>1, <2>3, <3>1, RootSeparate
    <3>3. stage' = "references" /\ file' = Root'
      BY <1>2, <1>7, <2>1, <2>2, <2>3
    <3> QED BY <1>7, <3>2, <3>3 DEF Sound
  <2> QED BY <2>2, <2>3 DEF RInv
<1> QED
  <2>1. ~Missing(file) /\ IsTestcase(file) => References(file) = <<>>
    BY <1>1, BegunDocument
  <2>2. \/ Missing(file) /\ UNCHANGED documents /\ UnchangedByLoading /\ stage' = "error"
        \/ ~Missing(file) /\ (CreationExits(file) \/ CreationAsserts(file))
        \/ ~Created(file) /\ UNCHANGED documents /\ UnchangedByLoading /\ stage' = "error"
        \/ UNCHANGED documents /\ UnchangedByLoading /\ stage' = "crash" /\ ~hasErrors'
        \/ /\ ~Missing(file) /\ UnchangedByLoading /\ resolved' = {file}
           /\ Created(file) /\ ~hasErrors' /\ stage' \in {"references", "exit"}
           /\ stage' = "exit" => Doc(file).fails = "references"
           /\ documents' = <<DefaultProject, Begun(file)>> \/ documents' = <<Begun(file)>>
           /\ unresolved' = References(file)
    <3>1. CASE /\ ~Missing(file) /\ UnchangedByLoading /\ resolved' = {file}
               /\ hasErrors' = ~Created(file) /\ Created(file)
      <4>1. ~hasErrors'
        BY <3>1, Zenon
      <4>2. CASE IsTestcase(file) /\ Goto("references") /\ unresolved' = <<>>
                 /\ documents' = <<DefaultProject, Begun(file)>>
        BY <2>1, <3>1, <4>1, <4>2 DEF Goto
      <4>3. CASE /\ IF Doc(file).fails = "references" THEN Goto("exit") ELSE Goto("references")
                 /\ documents' = <<Begun(file)>> /\ unresolved' = References(file)
        BY <3>1, <4>1, <4>3 DEF Goto
      <4>4. CASE Goto("crash") /\ UNCHANGED <<documents, unresolved>>
        BY <3>1, <4>1, <4>4 DEF Goto
      <4> QED BY <3>1, <4>2, <4>3, <4>4, <1>1 DEF BeginRoot, CreationExits, CreationAsserts, Goto
    <3>2. CASE ~Created(file) /\ Goto("error") /\ UNCHANGED <<documents, unresolved>> /\ UnchangedByLoading
      BY <3>2 DEF Goto
    <3> QED BY <3>1, <3>2 DEF BeginRoot, Goto
  <2> QED BY <1>3, <1>4, <1>5, <1>6, <1>7, <2>2

\* A document is loaded: the files it refers to are referred to by no other.
LEMMA LoadedSeparate ==
    ASSUME IInv, ~Excuse, Sound, stage = "references", UNCHANGED <<input, file>>,
           NEW ref, unresolved # <<>>, ref = Head(unresolved), Exists(ref),
           Paths' = Paths \cup {ref},
           unresolved' = Tail(unresolved) \o References(ref),
           resolved' = resolved \cup {ref}
    PROVE  /\ (Files \subseteq Needed)' /\ ({FileOf(r) : r \in Range(unresolved)} \subseteq Needed)'
           /\ Separate'
<1>1. /\ unresolved \in Seq(FilePaths) /\ input \in Inputs /\ FileOf(file) = file /\ file = Root
      /\ \A p \in Paths : Exists(p)
  BY DEF IInv, Shape, Sound
<1>2. /\ References(ref) \in Seq(FilePaths)
      /\ DOMAIN References(ref) = DOMAIN Expected(ref)
      /\ \A i \in DOMAIN Expected(ref) : FileOf(References(ref)[i]) = Expected(ref)[i]
      /\ Range(Expected(ref)) = {FileOf(r) : r \in Range(References(ref))}
  BY <1>1, ReferencesAreExpected
<1>3. /\ Range(unresolved) = {ref} \cup Range(Tail(unresolved))
      /\ Range(unresolved') = Range(Tail(unresolved)) \cup Range(References(ref))
  BY <1>1, <1>2, RangeOfRest
<1>4. \A p : Expected(FileOf(p)) = Expected(p)
  BY FilesAreClean
<1>5. /\ Files \subseteq Needed /\ {FileOf(r) : r \in Range(unresolved)} \subseteq Needed
      /\ FileOf(ref) \in Needed /\ Range(Expected(ref)) \subseteq Needed
  <2>1. Files \subseteq Needed /\ {FileOf(r) : r \in Range(unresolved)} \subseteq Needed
    BY DEF Sound
  <2>2. FileOf(ref) \in Needed
    BY <1>3, <2>1
  <2> QED BY <1>4, <2>1, <2>2, NeededIsClosed DEF Closed
<1>6. Separate /\ ~ReferredTwice
  BY DEF Sound, Excuse, Reason
<1>7. /\ file \notin Range(Expected(ref))
      /\ \A p \in Needed : p # FileOf(ref) => Range(Expected(p)) \cap Range(Expected(ref)) = {}
      /\ \A i, j \in DOMAIN Expected(ref) : Expected(ref)[i] = Expected(ref)[j] => i = j
  <2>1. Expected(FileOf(ref)) = Expected(ref) /\ FileOf(ref) \in Needed
    BY <1>4, <1>5
  <2> QED BY <1>1, <1>6, <2>1, ReferredOnce
<1>8. \A p \in Range(unresolved) \cup (resolved \ {file}) : \E q \in Paths : p \in Range(References(q))
  BY <1>6 DEF IInv, Tracked, Separate
<1>9. \A p \in Range(unresolved) \cup resolved : FileOf(p) \notin Range(Expected(ref))
  <2>1. ASSUME NEW p \in Range(unresolved) \cup (resolved \ {file}) PROVE FileOf(p) \notin Range(Expected(ref))
    <3>1. PICK q \in Paths : p \in Range(References(q))
      BY <1>8
    <3>2. FileOf(p) \in Range(Expected(FileOf(q)))
      BY <1>1, <1>4, <3>1, ReferencesAreExpected
    <3>3. FileOf(q) \in Needed /\ FileOf(q) # FileOf(ref)
      <4>1. q \in resolved /\ ref \in Range(unresolved)
        BY <1>3 DEF IInv
      <4> QED BY <1>5, <1>6, <4>1 DEF Files, Separate
    <3> QED BY <1>7, <3>2, <3>3
  <2> QED BY <1>1, <1>7, <2>1
<1>10. /\ \A p \in Range(Tail(unresolved)) : FileOf(p) # FileOf(ref)
       /\ \A i, j \in DOMAIN (Tail(unresolved) \o References(ref)) :
            FileOf((Tail(unresolved) \o References(ref))[i]) = FileOf((Tail(unresolved) \o References(ref))[j])
                => i = j
  <2>1. \A i, j \in DOMAIN unresolved : FileOf(unresolved[i]) = FileOf(unresolved[j]) => i = j
    BY <1>6 DEF Separate
  <2>2. \A p \in Range(unresolved), q \in Range(References(ref)) : FileOf(p) # FileOf(q)
    BY <1>2, <1>9
  <2>3. \A i, j \in DOMAIN References(ref) : FileOf(References(ref)[i]) = FileOf(References(ref)[j]) => i = j
    BY <1>2, <1>7
  <2>4. PICK u, r : u = unresolved /\ r = References(ref)
    OBVIOUS
  <2>5. /\ u \in Seq(FilePaths) /\ u # <<>> /\ r \in Seq(FilePaths)
        /\ \A i, j \in DOMAIN u : FileOf(u[i]) = FileOf(u[j]) => i = j
        /\ \A i, j \in DOMAIN r : FileOf(r[i]) = FileOf(r[j]) => i = j
        /\ \A p \in Range(u), q \in Range(r) : FileOf(p) # FileOf(q)
    BY <1>1, <1>2, <2>1, <2>2, <2>3, <2>4
  <2>6. /\ \A p \in Range(Tail(u)) : FileOf(p) # FileOf(Head(u))
        /\ \A i, j \in DOMAIN (Tail(u) \o r) : FileOf((Tail(u) \o r)[i]) = FileOf((Tail(u) \o r)[j]) => i = j
    BY <2>5, DistinctRest
  <2> QED BY <2>4, <2>6
<1>11. Needed' = Needed /\ \A p : FileOf(p)' = FileOf(p) /\ References(p)' = References(p)
  BY ReasonsStay, FilesStay
<1>12. Files' = Files \cup {FileOf(ref)}
  BY <1>11 DEF Files
<1>13. {FileOf(r)' : r \in Range(unresolved')} \subseteq Needed
  BY <1>2, <1>3, <1>5, <1>11
<1>14. Separate'
  <2>1. \A p \in Range(unresolved'), q \in resolved' : FileOf(p) # FileOf(q)
    <3>1. \A p \in Range(unresolved), q \in resolved : FileOf(p) # FileOf(q)
      BY <1>6 DEF Separate
    <3>2. \A p \in Range(References(ref)), q \in resolved \cup {ref} : FileOf(p) # FileOf(q)
      BY <1>2, <1>3, <1>9
    <3> QED BY <1>3, <1>10, <3>1, <3>2
  <2>2. \A p, q \in resolved' : FileOf(p) = FileOf(q) => p = q
    <3>1. \A q \in resolved : FileOf(ref) # FileOf(q)
      BY <1>3, <1>6 DEF Separate
    <3> QED BY <1>6, <3>1 DEF Separate
  <2>3. \A p \in resolved' \ {file} : \E q \in Paths' : p \in Range(References(q))
    BY <1>3, <1>8
  <2>4. \A i, j \in DOMAIN unresolved' : FileOf(unresolved'[i]) = FileOf(unresolved'[j]) => i = j
    BY <1>10
  <2> QED BY <1>11, <2>1, <2>2, <2>3, <2>4 DEF Separate
<1> QED BY <1>5, <1>11, <1>12, <1>13, <1>14

\* An iteration of the loop: what is skipped or not created is at fault.
LEMMA ReferenceHasReason == ASSUME IInv, RInv, ResolveReference PROVE RInv'
<1> PICK ref : ref = Head(unresolved)
  OBVIOUS
<1>1. /\ stage = "references" /\ unresolved # <<>> /\ ref \notin resolved /\ input \in Inputs
      /\ \/ /\ FileIsMissing(ref) \/ DocumentIsInvalid(ref) \/ DocumentIsBegun(ref)
            /\ resolved' = resolved \cup {ref} /\ UnchangedByLoading
         \/ ~Missing(ref) /\ (CreationExits(ref) \/ CreationAsserts(ref))
      /\ UNCHANGED <<input, file>>
  BY DEF ResolveReference, Resolves, IInv, Shape, CreationExits, CreationAsserts, UnchangedByLoading
<1>2. Excuse' = Excuse /\ Root' = Root
  BY <1>1, ReasonsStay
<1>3. SUFFICES ASSUME ~Excuse, Sound PROVE RInv'
  BY <1>2 DEF RInv
<1>4. FileOf(ref) \in Needed
  <2>1. unresolved \in Seq(FilePaths) /\ <<>> \in Seq(FilePaths)
    BY DEF IInv, Shape
  <2>2. ref \in Range(unresolved)
    BY <1>1, <2>1, RangeOfRest
  <2> QED BY <1>1, <1>3, <2>2 DEF Sound
<1>5. ~Missing(ref) /\ ValidHierarchy(Doc(ref).items) /\ Doc(ref).fails = "never"
  BY <1>1, <1>3, <1>4, FaultIsReason, FaultlessGoesOn
<1>6. ~FileIsMissing(ref) /\ ~DocumentIsInvalid(ref)
  BY <1>5 DEF FileIsMissing, DocumentIsInvalid, Missing
<1>7. CASE CreationExits(ref) \/ CreationAsserts(ref)
  BY <1>4, <1>5, <1>7, ExitHasReason DEF Missing
<1>8. CASE DocumentIsBegun(ref) /\ resolved' = resolved \cup {ref} /\ UnchangedByLoading
  <2>1. PICK doc : doc = Begun(ref)
    OBVIOUS
  <2>2. /\ documents' = Append(documents, doc) /\ unresolved' = Tail(unresolved) \o References(ref)
        /\ stage' \in {"references", "exit", "crash"} /\ (stage' = "exit" => Doc(ref).fails = "references")
    BY <1>1, <1>8, <2>1 DEF DocumentIsBegun, Goto
  <2>3. Exists(ref) /\ doc.path = ref /\ ref # NoPath
    BY <1>1, <1>5, <2>1, PathsAreNotEmpty DEF Missing, Begun, Document
  <2>4. PICK S : documents \in Seq(S)
    BY DEF IInv, Shape
  <2>5. PICK last : last = Len(documents) + 1
    OBVIOUS
  <2>6. /\ DOMAIN documents' = DOMAIN documents \cup {last}
        /\ documents'[last] = doc /\ \A d \in DOMAIN documents : documents'[d] = documents[d]
    BY <2>2, <2>4, <2>5, OneMore
  <2>7. Paths' = Paths \cup {ref}
    BY <2>3, <2>6 DEF Paths
  <2>8. (Files \subseteq Needed)' /\ ({FileOf(r) : r \in Range(unresolved)} \subseteq Needed)' /\ Separate'
    BY <1>1, <1>3, <1>8, <2>2, <2>3, <2>7, LoadedSeparate
  <2>9. ~hasErrors'
    <3>1. ~hasErrors
      BY <1>3 DEF Sound
    <3>2. Created(ref)
      BY <1>5, <3>1 DEF Created
    <3> QED BY <1>8, <3>1, <3>2 DEF DocumentIsBegun
  <2>10. stage' \in {"references", "crash"} /\ file' = Root'
    BY <1>1, <1>2, <1>3, <1>5, <2>2 DEF Sound
  <2> QED BY <2>8, <2>9, <2>10 DEF RInv, Sound
<1> QED BY <1>1, <1>6, <1>7, <1>8

\* A second reference by one path is a second reference to one file: a reason.
LEMMA RefusalHasReason == ASSUME IInv, RInv, RefuseReference PROVE RInv'
<1>1. /\ stage = "references" /\ unresolved # <<>> /\ Head(unresolved) \in resolved
      /\ UNCHANGED <<input, file, documents>> /\ stage' = "error"
  BY DEF RefuseReference, Goto, UnchangedByLoading
<1>2. ASSUME Sound PROVE FALSE
  <2>1. unresolved \in Seq(FilePaths) /\ <<>> \in Seq(FilePaths)
    BY DEF IInv, Shape
  <2>2. Head(unresolved) \in Range(unresolved)
    BY <1>1, <2>1, RangeOfRest
  <2> QED BY <1>1, <1>2, <2>2 DEF Sound, Separate
<1> QED BY <1>1, <1>2, NothingNew

\* Names that are equal are a reason, or one of them is a number that is taken.
LEMMA DuplicateHasReason == ASSUME IInv, NInv, RInv, FindDuplicates PROVE RInv'
<1>1. /\ stage = "references" /\ stage' \in {"error", "resolver"}
      /\ UNCHANGED <<input, file, documents>>
      /\ hasErrors' <=> hasErrors \/ Clash
      /\ stage' = "error" => hasErrors'
  BY DEF FindDuplicates, Goto, UnchangedByLoading
<1>2. ASSUME ~Excuse, Sound PROVE ~hasErrors'
  <2>1. ~Clash
    BY <1>1, <1>2, ClashIsMeeting DEF Excuse, Reason, Disagreement
  <2> QED BY <1>1, <1>2, <2>1 DEF Sound
<1> QED BY <1>1, <1>2, NothingNew

\* A document that is not completed is at fault.
LEMMA CompletionHasReason == ASSUME IInv, WInv, RInv, CompleteDocument PROVE RInv'
<1> DEFINE path == documents[completed + 1].path
<1>1. /\ stage = "complete" /\ completed < Len(documents) /\ UNCHANGED <<input, file, documents>>
      /\ stage' \in {"complete", "error", "exit"}
      /\ \/ path # NoPath /\ (\/ Doc(path).fails = "complete" \/ WritesInTestcase(Doc(path))
                              \/ HasEmptyDimension(Doc(path)))
         \/ UNCHANGED <<stage, hasErrors>>
  BY DEF CompleteDocument, Goto
<1>2. path # NoPath => path \in Paths /\ Begins(path)
  <2>1. completed + 1 \in DOMAIN documents
    <3>1. completed \in Nat /\ \E S : documents \in Seq(S)
      BY DEF WInv
    <3> QED BY <1>1, <3>1
  <2> QED BY <2>1 DEF Paths, WInv
<1>3. input \in Inputs
  BY DEF WInv
<1> HIDE DEF path
<1>4. ASSUME ~Excuse, Sound, path # NoPath
      PROVE  Doc(path).fails = "never" /\ ~WritesInTestcase(Doc(path)) /\ ~HasEmptyDimension(Doc(path))
  <2>1. FileOf(path) \in Needed /\ BindingsApply(path)
    BY <1>2, <1>4 DEF Sound, Files, Begins
  <2> QED BY <1>3, <1>4, <2>1, FaultIsReason, FaultlessGoesOn
<1>5. ~Excuse /\ Sound => ~hasErrors' /\ stage' \notin {"error", "exit"}
  BY <1>1, <1>4 DEF Sound
<1> QED BY <1>1, <1>5, NothingNew

\* Everything that is refused on the way has a reason.
THEOREM ReasonInvariance == Spec => []RInv
<1>1. Init => RInv
  <2> SUFFICES ASSUME Init PROVE RInv
    OBVIOUS
  <2>1. Files = {}
    BY DEF Init, Files, Paths
  <2> QED BY <2>1 DEF Init, RInv, Sound
<1>2. IInv /\ WInv /\ NInv /\ RInv /\ [Next]_vars => RInv'
  <2> SUFFICES ASSUME IInv, WInv, NInv, RInv, [Next]_vars PROVE RInv'
    OBVIOUS
  <2>1. CASE ParseCommandLine
    BY <2>1, ParsingHasReason
  <2>2. CASE LoadProfile
    BY <2>2, ProfileHasReason
  <2>3. CASE BeginRoot
    BY <2>3, RootHasReason
  <2>4. CASE RefuseReference
    BY <2>4, RefusalHasReason
  <2>5. CASE ResolveReference
    BY <2>5, ReferenceHasReason
  <2>6. CASE FindDuplicates
    BY <2>6, DuplicateHasReason
  <2>7. CASE DependenciesResolved
    BY <2>7, NothingNew DEF DependenciesResolved, Goto, UnchangedByLoading, Sound
  <2>8. CASE CompleteDocument
    BY <2>8, CompletionHasReason
  <2>9. CASE LoadEnds
    BY <2>9, NothingNew DEF LoadEnds, Goto, UnchangedByLoading, Sound
  <2>10. ASSUME NEW t, Dispatch(t) PROVE RInv'
    BY <2>10, NothingNew DEF Dispatch, Goto, Sound
  <2>11. CASE AllRan
    BY <2>11, NothingNew DEF AllRan, Goto, UnchangedByLoading, Sound
  <2>12. CASE UNCHANGED vars
    BY <2>12, NothingNew DEF vars, Sound
  <2> QED BY <2>1, <2>2, <2>3, <2>4, <2>5, <2>6, <2>7, <2>8, <2>9, <2>10, <2>11, <2>12 DEF Next
<1> QED BY <1>1, <1>2, CompletionInvariance, NumberingInvariance, PTL DEF Spec

\* A project without fault is not refused: if loading ends with an error, something is
\* wrong with the command line, with a profile, with one of the documents the given file
\* refers to, directly or not, or with two of them together; or one of four things is used
\* that the documentation allows and the program refuses.
THEOREM RefusalsHaveReasons == Spec => []RefusedForAReason
<1>1. RInv => RefusedForAReason
  BY DEF RInv, Excuse, Sound, RefusedForAReason
<1> QED BY <1>1, ReasonInvariance, PTL

=============================================================================
