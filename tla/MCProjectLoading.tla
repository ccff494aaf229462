--------------------------- MODULE MCProjectLoading ---------------------------
(* Command lines; projects of up to four files in two directories, which    *)
(* refer to each other by paths with and without detours; documents of up   *)
(* to three nested items; and dimensions of up to two bindings.             *)
EXTENDS ProjectLoading, TLC

Home == <<"home">>
Lib == <<"home", "lib">>
ConfigDir == <<"config">>
Path(dir, name) == [dir |-> dir, via |-> "", name |-> name]
Main == Path(Home, "main")
Item(type, parent, text) ==
    [type |-> type, parent |-> parent, name |-> [text |-> text, number |-> NoNumber], testcases |-> "none",
     bindings |-> IF type = "Dimension" THEN <<[tag |-> "t", kind |-> "array", entries |-> <<1, 2>>]>>
                                        ELSE <<>>]
File(items, refs, fails) == [items |-> items, refs |-> refs, fails |-> fails]

Test(name) == File(<<Item("Testcase", 0, name)>>, <<>>, "never")
Project(names, refs, fails) ==
    File(<<Item("Project", 0, "project")>> \o [i \in DOMAIN names |-> Item("Testcase", 1, names[i])],
         refs, fails)

Leads ==
    (<<Home, ".">> :> Home) @@ (<<Home, "..">> :> <<>>)
        @@ (<<Lib, ".">> :> Lib) @@ (<<Lib, "..">> :> Home) @@ (<<Lib \o <<"lib">>, "..">> :> Lib)
Disk(files, profiles) == [at |-> files, leads |-> Leads, profiles |-> profiles]

NoFile == [kind |-> "unset"]
Arguments(command, f, profiles, paths) ==
    [command |-> command, file |-> f, profiles |-> profiles, paths |-> paths]
RunMain == Arguments("run", [kind |-> "file", path |-> Main], <<>>, <<>>)

\* Ways to call the program, in a directory with one file, two files, or none.
Profiles ==
    (Path(Lib, "p") :> "broken") @@ (Path(Home, "p") :> "good") @@ (Path(ConfigDir, "q") :> "good")
        @@ (Path(Lib, "s") :> "good") @@ (Path(Home, "s") :> "broken")
CommandLines ==
    {[args |-> a, disk |-> Disk(files, Profiles)] :
        files \in {Main :> Test("x"), (Main :> Test("x")) @@ (Path(Home, "b") :> Test("y")),
                   Path(Lib, "main") :> Test("x")},
        a \in {Arguments(command, f, profiles, paths) :
                command \in {"run", "help", "version", "none"},
                f \in {NoFile, [kind |-> "missing"],
                       [kind |-> "file", path |-> [dir |-> Lib, via |-> "..", name |-> "main"]],
                       [kind |-> "dir", dir |-> Lib], [kind |-> "slash", dir |-> Lib],
                       [kind |-> "slash", dir |-> Home]},
                profiles \in {<<>>, <<"p">>, <<"q">>, <<"r">>, <<"s">>, <<"p", "q">>},
                paths \in {<<>>, <<Lib>>}}}

\* A Matrix for one test case, which is named with a plain string.
Literal == File(<<[Item("Matrix", 0, "m") EXCEPT !.testcases = "literal"]>>, <<>>, "never")

\* References of the file, and of those it refers to: "main.qml", "b.qml", "./b.qml",
\* "../b.qml" and the like, and an absolute path.
Relative(dir, via, name) == [absolute |-> FALSE, dir |-> dir, via |-> via, name |-> name]
ToC == [absolute |-> TRUE, dir |-> Lib, via |-> ".", name |-> "c"]
RefSet == {Relative(<<>>, "", "main"), Relative(<<>>, "", "b"), Relative(<<>>, ".", "b"), ToC}
RefSeqs == UNION {[1..n -> RefSet] : n \in 0..2}

\* The file refers to others, which refer to others, or have faults of their own.
Referring ==
    {Project(<<"">>, <<ref>>, "never") :
        ref \in {Relative(<<>>, "", "main"), Relative(<<"lib">>, "..", "b"), Relative(<<>>, "..", "b"),
                 Relative(<<>>, "", "d"), ToC}}
Some == {Test(""), Test("x"), Project(<<>>, <<>>, "compile"), Project(<<"project">>, <<>>, "complete")} \cup Referring
Others ==
    Some \cup {Test("project"), File(<<[Item("Testcase", 0, "") EXCEPT !.name = DefaultName(0)]>>, <<>>, "never"),
               Project(<<"", "y">>, <<>>, "never"), Project(<<"project">>, <<>>, "never"),
               Project(<<>>, <<>>, "references"), File(<<Item("Dimension", 0, "")>>, <<>>, "never"),
               File(<<Item("QObject", 0, "")>>, <<>>, "never"), Literal}

Absent == File(<<>>, <<>>, "absent")
Present(files) ==
    [p \in {q \in DOMAIN files : files[q].fails # "absent"} |-> files[p]]

Trees ==
    {[args |-> RunMain,
      disk |-> Disk(Present((Main :> Project(names, refs, "never")) @@ (Path(Home, "b") :> b)
                              @@ (Path(Lib, "c") :> c) @@ (Path(Lib, "d") :> Test("z"))), <<>>)] :
        names \in {<<"">>, <<"x", "w">>}, refs \in RefSeqs,
        b \in Others \cup {Absent}, c \in Some \cup {Absent}}

\* One document of three items, with each type at each place.
AllTypes == Types \cup {"QObject"}
Nestings ==
    {[args |-> RunMain,
      disk |-> Disk(Main :> File(<<Item(r, 0, "r"), Item(s, 1, "s"), Item(t, p, "t")>>, <<>>, fails), <<>>)] :
        r \in AllTypes, s \in AllTypes, t \in AllTypes, p \in {1, 2}, fails \in {"never", "complete"}}
        \cup {[args |-> RunMain, disk |-> Disk(Main :> Project(<<"x">>, <<>>, fails), <<>>)] :
                fails \in {"compile", "references"}}

\* One Matrix with one Dimension, with what may be bound to its tags.
Bindings ==
    {[tag |-> tag, kind |-> "array", entries |-> entries] :
        tag \in {"t", "u"}, entries \in {<<>>, <<1>>, <<1, 2>>, <<2, 3, 2>>}}
        \cup {[tag |-> tag, kind |-> "scalar", entries |-> <<7>>] : tag \in {"t", "u"}}
        \cup {[tag |-> "t", kind |-> kind, entries |-> <<>>] :
                kind \in {"emptyList", "object", "undefined", "other"}}

Dimensions ==
    {[args |-> RunMain,
      disk |-> Disk(Main :> File(<<Item(r, 0, "r"), [Item("Matrix", 1, "m") EXCEPT !.testcases = testcases],
                                   [Item("Dimension", 2, "d") EXCEPT !.bindings = bindings]>>,
                                 <<>>, "never"), <<>>)] :
        r \in {"Project", "Testcase"}, testcases \in {"none", "literal", "binding"},
        bindings \in UNION {[1..n -> Bindings] : n \in 0..2}}

MCInputs == CommandLines \cup Trees \cup Nestings \cup Dimensions
=============================================================================
