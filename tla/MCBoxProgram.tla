---------------------------- MODULE MCBoxProgram ----------------------------
(* BoxProgram with an archive of two files and two directories, an empty     *)
(* archive, a missing one and one that cannot be written.                    *)
EXTENDS BoxProgram

CONSTANTS e1, e2, e3, e4, d, s, x, y,   \* entries and names
          full, empty, missing, locked, \* archive paths
          good, bad, there              \* directories to pack, a directory to unpack to

\* y, d/, d/x, d/s/
Tree ==
    LET t1 == Added(NoTree, NULL, e1, y, "file", 1, "own", "loaded")
        t2 == Added(t1, NULL, e2, d, "dir", 0, "own", "loaded")
        t3 == Added(t2, e2, e3, x, "file", 1, "own", "loaded")
    IN  Added(t3, e2, e4, s, "dir", 0, "own", "loaded")

\* A socket, and a directory with a file
Source ==
    LET t1 == Added(NoTree, NULL, e1, y, "untyped", 0, NULL, "loaded")
        t2 == Added(t1, NULL, e4, s, "dir", 0, "own", "loaded")
    IN  Added(t2, e4, e3, x, "file", 1, "own", "loaded")

MCSources == (good :> Source) @@ (bad :> NoTree)

MCFirstTrees == (full :> Tree) @@ (empty :> NoTree) @@ (missing :> NULL) @@ (locked :> Tree)

(* Command lines. *)
Option(o, arg) == [opt |-> o, arg |-> arg]
With(o, values) == {<<>>} \cup {<<Option(o, arg)>> : arg \in values}

Paths == {Tree.info[e].path : e \in {e1, e2, e3, e4}}
WrongPath == <<d>>

PlainJobs ==
    {Option(o, NULL) : o \in {"r", "l", "d", "T", "H", "?"}}
      \cup {Option("c", good), Option("c", bad), Option("x", there), Option("m", <<x>>)}

OneJob ==
    {<<j>> \o f \o o \o F :
       j \in PlainJobs, f \in With("f", {full, empty, missing, locked}),
       o \in With("o", {empty, locked}), F \in With("F", Paths \cup {WrongPath})}

TwoJobs ==
    {<<i>> \o f \o <<j>> \o F :
       i \in PlainJobs, j \in PlainJobs, f \in With("f", {full}), F \in With("F", {<<y>>})}

\* Moves that ba_move() can do (see MoveEntry).
Moves ==
    {<<Option("m", m[2])>> \o f \o o \o <<Option("F", m[1])>> :
       m \in {<<<<y>>, <<d, SEP>>>>, <<<<y>>, <<d, SEP, s, SEP>>>>, <<<<y>>, <<d, SEP, x>>>>,
              <<<<d, SEP, x>>, <<d, SEP>>>>, <<<<d, SEP, x>>, <<d, SEP, s, SEP>>>>,
              <<<<d, SEP, s, SEP>>, <<d, SEP>>>>},
       f \in With("f", {full, locked}), o \in With("o", {empty, locked})}

MCCommandLines == {<<>>} \cup OneJob \cup TwoJobs \cup Moves

\* SavedAsAsked is for these.
ASSUME CarefulAssumption == \A c \in MCCommandLines : Careful(c)

(* What is at the place files are extracted to. *)
MCTargets == {<<>>, <<y>>, <<d>>, <<d, x>>, <<d, s>>}

At(kind) == [kind |-> kind, data |-> NULL, time |-> "old"]

\* It matters to extracting only.
Outs ==
    {o \in [MCTargets -> {At(kind) : kind \in {"none", "file", "dir"}}] :
       /\ o[<<>>].kind # "file"
       /\ \A p \in MCTargets \ {<<>>} : o[p].kind # "none" => o[Front(p)].kind = "dir"}

MCFirstOuts ==
    [c \in MCCommandLines |->
       IF \A i \in DOMAIN c : c[i].opt # "x" THEN {[p \in MCTargets |-> At("none")]} ELSE Outs]
=============================================================================
