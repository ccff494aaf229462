-------------------------- MODULE MCJobResolution --------------------------
(***************************************************************************)
(* Instances of JobResolution for TLC.                                     *)
(***************************************************************************)
EXTENDS JobResolution

MCNames == 0..2

Tag(l, v) == {<<l, v>>}
Color == <<Tag("color", "red"), Tag("color", "blue")>>
Speed == <<Tag("speed", "fast"), Tag("speed", "slow")>>
Grade == <<Tag("grade", "a"), Tag("grade", "b"), Tag("grade", "c")>>

Matrix(ns, ds) == [names |-> ns, dims |-> ds]

\* No matrix, one over two test cases or over one, two dimensions, matrices
\* that share a test case or not, one tag only, equal rows, and matrices that are
\* refused.
MatrixLists ==
    { <<>>,
      <<Matrix(<<0, 1>>, <<Color>>)>>,
      <<Matrix(<<0>>, <<Grade, Speed>>)>>,
      <<Matrix(<<0, 1>>, <<Color, Speed>>)>>,
      <<Matrix(<<0>>, <<Color, Speed>>), Matrix(<<1>>, <<Color>>)>>,
      <<Matrix(<<0, 1, 2>>, <<Color>>)>>,
      <<Matrix(<<0, 1>>, <<Color>>), Matrix(<<0>>, <<Speed, <<Tag("color", "red")>> >>)>>,
      <<Matrix(<<0>>, << <<Tag("color", "red")>> >>), Matrix(<<1>>, <<Color>>)>>,
      <<Matrix(<<0>>, << <<Tag("color", "red"), Tag("color", "red")>> >>)>>,
      <<Matrix(<<>>, <<Color>>)>>,
      <<Matrix(<<0>>, <<Color, Color>>)>> }

NoTags == [l \in {} |-> {}]
Scalar(v) == [kind |-> "scalar", values |-> <<v>>]
Array(vs) == [kind |-> "array", values |-> vs]
NoValue(kind) == [kind |-> kind, values |-> <<>>]

\* Tags of Depends items: none, one color, the own color, two tag sets, and
\* arrays of different lengths.
TagExpressions ==
    { NoTags,
      [l \in {"color"} |-> Scalar("red")],
      [l \in {"color"} |-> Scalar("own")],
      [l \in {"color", "speed"} |->
          IF l = "color" THEN Array(<<"red", "blue">>) ELSE Scalar("fast")],
      [l \in {"color", "speed"} |->
          IF l = "color" THEN Array(<<"red", "blue">>) ELSE Array(<<"fast">>)] }

\* An array that turns out to be empty, a value that is undefined, one that is no tag,
\* and both.
BadExpressions ==
    { [l \in {"color"} |-> Array(<<>>)],
      [l \in {"color"} |-> NoValue("undefined")],
      [l \in {"color"} |-> NoValue("other")],
      [l \in {"color", "speed"} |-> NoValue(IF l = "color" THEN "other" ELSE "undefined")] }

Item(p, s, x) == [pred |-> p, succ |-> s, alias |-> "x", tags |-> x]

\* A single item, a chain, a fork, a join, two items between the same test
\* cases, and a cycle that the search of beginResolve() overlooks.
ItemLists ==
    {<<>>} \cup
    {<<Item(0, 1, x), Item(1, 2, NoTags)>> : x \in BadExpressions} \cup
    UNION {{ <<Item(0, 1, x)>>,
             <<Item(0, 1, x), Item(1, 2, NoTags)>>,
             <<Item(0, 1, x), Item(0, 2, NoTags)>>,
             <<Item(0, 2, x), Item(1, 2, NoTags)>>,
             <<Item(0, 1, NoTags), Item(0, 1, x)>>,
             <<Item(2, 1, NoTags), Item(0, 1, x), Item(1, 2, NoTags)>> } :
                x \in TagExpressions}

\* The properties the test cases have: all labels, or test case 1 has no color.
Declared ==
    LET All == {"color", "speed", "grade"}
    IN  {[n \in MCNames |-> All], [n \in MCNames |-> IF n = 1 THEN All \ {"color"} ELSE All]}

MCProjects ==
    {[graph |-> [nodes |-> MCNames, edges |-> es], declared |-> d, matrices |-> ms] :
        es \in ItemLists, d \in Declared, ms \in MatrixLists}
=============================================================================
