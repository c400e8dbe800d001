------------------------------ MODULE BoxProgram ------------------------------
(***************************************************************************)
(* The box program: main() reads its options one by one, opens or makes an *)
(* archive, looks up the entry given by -F, does one job and exits.  The   *)
(* library is used through the operators of EntryPaths; extracting is a    *)
(* step for each entry, with the files, directories and times it leaves    *)
(* behind.  ba_close() frees the archive and changes nothing else.         *)
(***************************************************************************)
EXTENDS EntryPaths

CONSTANTS
    CommandLines,  \* sequences of options [opt |-> letter, arg |-> value or NULL]
    Boxes,         \* paths of archives
    FirstTrees,    \* the trees that were saved there, [Boxes -> trees or NULL]
    Unwritable,    \* those that cannot be written
    Sources,       \* what -c loads: [directories -> trees]
    Targets,       \* places below the directory given to -x, as sequences of names
    FirstOuts,     \* [CommandLines -> what may be at them before it is run]
    CharIsSigned   \* char is a signed type on the host

Trees == [kids : [Places -> Seq(Entries)], info : [Entries -> Infos]]

\* Trees are what HeaderTree shows them to be: no entry is below itself or linked
\* twice, names are unique in a directory, and only directories have entries.
IsTree(t) ==
    /\ t \in Trees
    /\ \E height \in [Places -> 0 .. Cardinality(Entries)] :
          \A d \in Places : \A e \in ToSet(t.kids[d]) : height[e] < height[d]
    /\ \A c, d \in Places : \A i \in DOMAIN t.kids[c], j \in DOMAIN t.kids[d] :
          LET one   == t.kids[c][i]
              other == t.kids[d][j]
              name  == t.info[one].name
          IN  one = other \/ (c = d /\ name = t.info[other].name /\ name # NULL)
                => c = d /\ i = j
    /\ \A e \in Entries :
          /\ t.info[e].type # "none" <=> \E d \in Places : e \in ToSet(t.kids[d])
          /\ t.kids[e] # <<>> => t.info[e].type = "dir"

Saved == {FirstTrees[b] : b \in Boxes} \ {NULL}

ASSUME TreesAssumption ==
    /\ IsFiniteSet(Entries) /\ NULL \notin Trees
    /\ \A t \in Saved \cup {Sources[from] : from \in DOMAIN Sources} : IsTree(t)

\* getopt() gives an option its argument.
ASSUME CommandsAssumption ==
    \A c \in CommandLines :
       /\ c \in Seq(ToSet(c))
       /\ \A o \in ToSet(c) : /\ o.opt \in {"f", "o"} => o.arg \in Boxes
                              /\ o.opt = "c" => o.arg \in DOMAIN Sources

\* What is there is in a directory.
ASSUME PlacesAssumption ==
    /\ Targets \subseteq Seq(Names)
    /\ \A p \in Targets \ {<<>>} : Front(p) \in Targets
    /\ \A t \in Saved : \A e \in Files(t) \cup Dirs(t) : NamesTo(t, e) \in Targets
    /\ \A c \in CommandLines : \A o \in FirstOuts[c] :
          /\ o \in [Targets -> [kind : {"none", "file", "dir"}, data : {NULL}, time : {"old"}]]
          /\ \A p \in Targets \ {<<>>} : o[p].kind # "none" => o[Front(p)].kind = "dir"

\* The archives, NULL for one that is not there.
FirstFiles ==
    [b \in Boxes |-> IF FirstTrees[b] = NULL THEN NULL ELSE Header(Rearranged(FirstTrees[b]))]

VARIABLES
    cmd, args,     \* the command line; what getopt() has not returned of it
    before,        \* what was below the directory given to -x, and in the archive
    opts, job,     \* the variables the options set; enum Job job
    archive,       \* the tree of the archive, NULL for a null pointer
    start,         \* start_entry and what is below it and after it
    files, out,    \* archive files; what is below the directory given to -x
    todo,          \* entries rec_extract_func() has yet to come to
    printed,       \* paths that were printed
    pc, code       \* where main() is, the exit status

given == <<cmd, before>>
world == <<files, out>>
vars  == <<given, args, opts, job, archive, start, world, todo, printed, pc, code>>

Jobs == {"NONE", "CREATE", "EXTRACT", "REMOVE", "MOVE", "LIST", "DETAILS", "GET_FORMAT",
         "PRINT_HEADER"}

\* The options that set the job.
JobOf == [c |-> "CREATE", x |-> "EXTRACT", r |-> "REMOVE", m |-> "MOVE", l |-> "LIST",
          d |-> "DETAILS", T |-> "GET_FORMAT", H |-> "PRINT_HEADER"]

(***************************************************************************)
(* What the command line says, for Init and the properties.                *)
(***************************************************************************)
\* The last option of a kind counts.
LastArg(c, o) ==
    LET at == {i \in DOMAIN c : c[i].opt = o}
    IN  IF at = {} THEN NULL ELSE c[Max(at)].arg

LastJob(c) ==
    LET at == {i \in DOMAIN c : c[i].opt \in DOMAIN JobOf}
    IN  IF at = {} THEN "NONE" ELSE JobOf[c[Max(at)].opt]

Arg(o) == LastArg(cmd, o)
Asked  == LastJob(cmd)

\* The archive the command line is about, as it is at first.
Given ==
    IF Arg("f") = NULL THEN NoTree
    ELSE IF FirstFiles[Arg("f")] = NULL THEN NoTree ELSE Loaded(FirstFiles[Arg("f")])

Init ==   \* job is not initialised
    /\ cmd \in CommandLines /\ args = cmd
    /\ opts = [f |-> NULL, F |-> NULL, o |-> NULL, src |-> NULL, dest |-> NULL]
    /\ job \in IF Asked = "NONE" THEN Jobs ELSE {"NONE"}
    /\ archive = NULL /\ start = <<>>
    /\ files = FirstFiles /\ out \in FirstOuts[cmd]
    /\ before = [out |-> out, box |-> Given]
    /\ todo = <<>> /\ printed = <<>>
    /\ pc = "args" /\ code = 0

(***************************************************************************)
(* Options.                                                                *)
(***************************************************************************)
Exit(status) == pc' = "exit" /\ code' = status

Words(c) == Len(c) + Cardinality({i \in DOMAIN c : c[i].arg # NULL})

\* With less than two words the program prints help or nothing.
CountArguments ==
    /\ pc = "args"
    /\ IF Words(cmd) < 2 THEN Exit(0) ELSE pc' = "getopt" /\ UNCHANGED code
    /\ UNCHANGED <<given, args, opts, job, archive, start, world, todo, printed>>

\* The variable an option with an argument sets.
VariableOf == [f |-> "f", F |-> "F", o |-> "o", c |-> "src", x |-> "dest", m |-> "dest"]

\* "?" is what getopt() returns for an option it does not know.
getopt ==
    /\ pc = "getopt" /\ args # <<>>
    /\ LET o == Head(args)
       IN  IF o.opt = "?"
           THEN Exit(1) /\ UNCHANGED <<args, opts, job>>
           ELSE /\ args' = Tail(args)
                /\ opts' = IF o.opt \in DOMAIN VariableOf
                           THEN [opts EXCEPT ![VariableOf[o.opt]] = o.arg] ELSE opts
                /\ job' = IF o.opt \in DOMAIN JobOf THEN JobOf[o.opt] ELSE job
                /\ UNCHANGED <<pc, code>>
    /\ UNCHANGED <<given, archive, start, world, todo, printed>>

\* getopt() returns -1: an unsigned char does not compare equal to it, and
\* print_opt_err() ends the program.
OptionsEnd ==
    /\ pc = "getopt" /\ args = <<>>
    /\ IF CharIsSigned THEN pc' = "open" /\ UNCHANGED code ELSE Exit(1)
    /\ UNCHANGED <<given, args, opts, job, archive, start, world, todo, printed>>

\* Mutant of Outfile: the archive itself is written whenever it is given.
Outfile_boxfile == IF opts.f # NULL THEN opts.f ELSE opts.o

Outfile == IF opts.o # NULL THEN opts.o ELSE opts.f

ba_open(box) ==
    IF box = NULL THEN NULL ELSE IF files[box] = NULL THEN NULL ELSE Loaded(files[box])

OpenArchive ==
    /\ pc = "open"
    /\ archive' = IF job = "CREATE" THEN NoTree ELSE ba_open(opts.f)
    /\ pc' = "entry"
    /\ UNCHANGED <<given, args, opts, job, start, world, todo, printed, code>>

Found(path) == IF archive = NULL \/ path = NULL THEN NULL ELSE ba_get(archive, path)

\* Mutant of WithBelow: the copy of the entry keeps its ->next.
WithBelow_and_next(e) ==
    LET list == archive.kids[Parent(archive, e)]
        rest == SubSeq(list, SelectInSeq(list, LAMBDA x : x = e), Len(list))
    IN  FlattenSeq([i \in DOMAIN rest |-> <<rest[i]>> \o Preorder(archive.kids, rest[i])])

WithBelow(e) == <<e>> \o Preorder(archive.kids, e)

\* The entry of -F with what is below it, or all entries.
StartEntry ==
    /\ pc = "entry"
    /\ IF opts.F # NULL /\ Found(opts.F) = NULL
       THEN Exit(1) /\ UNCHANGED start
       ELSE /\ pc' = "job"
            /\ start' = IF opts.F # NULL THEN WithBelow(Found(opts.F))
                         ELSE IF archive # NULL THEN Preorder(archive.kids, NULL)
                         ELSE <<>>
            /\ UNCHANGED code
    /\ UNCHANGED <<given, args, opts, job, archive, world, todo, printed>>

(***************************************************************************)
(* Jobs.                                                                   *)
(***************************************************************************)
Do(j) ==
    /\ pc = "job" /\ job = j
    /\ UNCHANGED <<given, args, opts, job, start>>

\* A job that needs a box file or more, and has none, ends with a message.
Refuse == Exit(0) /\ UNCHANGED <<archive, world, todo, printed>>

Crash == pc' = "crash" /\ UNCHANGED <<archive, world, todo, printed, code>>

\* The tree was changed, ba_save() follows.
Changed(t) ==
    /\ archive' = t
    /\ pc' = "save"
    /\ UNCHANGED <<world, todo, printed, code>>

Create ==
    /\ Do("CREATE")
    /\ CASE opts.f = NULL -> Refuse
         [] opts.f # NULL /\ opts.src = NULL -> Crash
         [] OTHER -> Changed(Sources[opts.src])

RemoveEntry ==
    /\ Do("REMOVE")
    /\ IF NULL \in {opts.f, opts.F, archive} THEN Refuse
       ELSE Changed(Removed(archive, Found(opts.F)))

\* ba_move() as main() calls it, with the entries ba_get() finds.  Onto a file of
\* the root, or a directory onto a file, it dereferences NULL.  An entry that is
\* moved into itself is unlinked for good, a file that is moved onto itself freed.
MoveEntry ==
    LET src  == Found(opts.F)
        dest == Found(opts.dest)
        IsFile(e) == archive.info[e].type = "file"
    IN  /\ Do("MOVE")
        /\ CASE NULL \in {opts.f, opts.F, archive, dest} -> Refuse
             [] OTHER ->
                  IF IsFile(dest) /\ (Parent(archive, dest) = NULL \/ ~ IsFile(src)) THEN Crash
                  ELSE Changed(
                         IF dest \in Subtree(archive, src)
                         THEN [archive EXCEPT !.kids = Unlinked(@, src)]
                         ELSE IF IsFile(dest) THEN MovedOnto(archive, src, dest)
                         ELSE MovedInto(archive, src, dest))

\* Nothing is told when the file cannot be written.  The MOVE job runs on into LIST.
ba_save ==
    /\ pc = "save"
    /\ files' = IF Outfile \in Unwritable THEN files
                ELSE [files EXCEPT ![Outfile] = Header(Rearranged(archive))]
    /\ IF job = "MOVE" THEN pc' = "list" /\ UNCHANGED code ELSE Exit(0)
    /\ UNCHANGED <<given, args, opts, job, archive, start, out, todo, printed>>

\* ba_move() leaves paths as they were.  Listing does not end if start_entry
\* has come to be below itself, and reads a freed path if it was moved onto itself.
ListPaths ==
    CASE start = <<>> -> Exit(1) /\ UNCHANGED printed
      [] start # <<>> /\ Head(start) \notin Content(archive)
           /\ (Len(start) > 1 \/ opts.dest[Len(opts.dest)] # SEP) ->
           pc' = "crash" /\ UNCHANGED <<printed, code>>
      [] OTHER ->
           /\ printed' = [i \in DOMAIN start |-> archive.info[start[i]].path]
           /\ Exit(0)

List ==
    \/ /\ Do("LIST")
       /\ IF NULL \in {opts.f, archive} THEN Refuse
          ELSE ListPaths /\ UNCHANGED <<archive, world, todo>>
    \/ /\ pc = "list"
       /\ ListPaths
       /\ UNCHANGED <<given, args, opts, job, archive, start, world, todo>>

Details ==
    /\ Do("DETAILS")
    /\ IF opts.f = NULL \/ Found(opts.F) = NULL THEN Refuse
       ELSE /\ Exit(0)
            /\ printed' = <<archive.info[Found(opts.F)].path>>
            /\ UNCHANGED <<archive, world, todo>>

\* GET_FORMAT, PRINT_HEADER and no job at all leave everything as it is.
Show ==
    /\ \E j \in {"GET_FORMAT", "PRINT_HEADER", "NONE"} : Do(j)
    /\ Refuse

(***************************************************************************)
(* Extracting.                                                             *)
(***************************************************************************)
Extract ==
    /\ Do("EXTRACT")
    /\ IF NULL \in {opts.f, archive} THEN Refuse
       ELSE /\ CASE start = <<>> -> Exit(1)
                 [] start # <<>> /\ opts.dest = NULL -> pc' = "crash" /\ UNCHANGED code
                 [] OTHER -> pc' = "extract" /\ UNCHANGED code
            /\ todo' = start
            /\ UNCHANGED <<archive, world, printed>>

Place(e) == Stripped(archive.info[e].path)

\* Mutant of InDir: directories on the way are taken to be there.
InDir_assumed(p) == TRUE

InDir(p)  == out[Front(p)].kind = "dir"
Absent(p) == out[p].kind = "none"

\* Something new in a directory changes the time of the directory.
Put(p, node) ==
    IF Absent(p) THEN [out EXCEPT ![p] = node, ![Front(p)].time = "now"]
    ELSE [out EXCEPT ![p] = node]

\* ba_extract and ba_write_metadata: fopen() makes the file or empties the one that
\* is there, if a directory is there to hold it.
ba_extract(e) ==
    LET p == Place(e)
    IN  out' = IF InDir(p) /\ out[p].kind # "dir"
               THEN Put(p, [kind |-> "file", data |-> e, time |-> "saved"]) ELSE out

\* Mutant of ba_mkdir: the times of a directory that was there are kept.
ba_mkdir_new(e) ==
    LET p == Place(e)
    IN  out' = IF InDir(p) /\ Absent(p)
               THEN Put(p, [kind |-> "dir", data |-> NULL, time |-> "saved"]) ELSE out

\* ba_mkdir: mkdir() fails if there is no directory around it, or something there
\* already.  A directory that is there gets the times, a file does not, since the
\* path ends with a separator.
ba_mkdir(e) ==
    LET p == Place(e)
    IN  out' = CASE InDir(p) /\ Absent(p) ->
                      Put(p, [kind |-> "dir", data |-> NULL, time |-> "saved"])
                 [] out[p].kind = "dir"     -> [out EXCEPT ![p].time = "saved"]
                 [] OTHER                   -> out

\* Mutants of Following: rec_extract_func() does not go into directories, or does
\* not go on.
Following_siblings == SelectSeq(Tail(todo), LAMBDA e : e \notin Subtree(archive, Head(todo)))
Following_same == todo

Following == Tail(todo)

rec_extract_func ==
    /\ pc = "extract" /\ todo # <<>>
    /\ IF archive.info[Head(todo)].type = "file"
       THEN ba_extract(Head(todo)) ELSE ba_mkdir(Head(todo))
    /\ todo' = Following
    /\ UNCHANGED <<given, args, opts, job, archive, start, files, printed, pc, code>>

Extracted ==
    /\ pc = "extract" /\ todo = <<>>
    /\ Exit(0)
    /\ UNCHANGED <<given, args, opts, job, archive, start, world, todo, printed>>

Next ==
    \/ CountArguments \/ getopt \/ OptionsEnd \/ OpenArchive \/ StartEntry
    \/ Create \/ Extract \/ RemoveEntry \/ MoveEntry \/ List \/ Details \/ Show
    \/ ba_save \/ rec_extract_func \/ Extracted

Spec == Init /\ [][Next]_vars /\ WF_vars(Next)

(***************************************************************************)
(* Properties.                                                             *)
(***************************************************************************)
TypeOK ==
    /\ ToSet(args) \subseteq ToSet(cmd)
    /\ job \in Jobs
    /\ archive # NULL => Content(archive) \subseteq Entries
    /\ ToSet(start) \cup ToSet(todo) \subseteq Entries
    /\ \A b \in Boxes : files[b] # NULL => ~ Unreadable(files[b])
    /\ \A p \in Targets :
         /\ out[p].kind \in {"none", "file", "dir"} /\ out[p].time \in {"old", "now", "saved"}
         /\ p # <<>> /\ out[p].kind # "none" => out[Front(p)].kind = "dir"
    /\ pc \in {"args", "getopt", "open", "entry", "job", "save", "list",
               "extract", "exit", "crash"}
    /\ code \in {0, 1}

Understands(c) == Words(c) >= 2 /\ \A i \in DOMAIN c : c[i].opt # "?"
Understood == Understands(cmd)

\* Command lines that do not fall into the traps of the program: they name a job, and
\* do not ask to move an entry into or onto itself.
Careful(c) ==
    Understands(c) =>
      /\ LastJob(c) # "NONE"
      /\ LastJob(c) = "MOVE" /\ NULL \notin {LastArg(c, "F"), LastArg(c, "m")} =>
           ~ IsPrefix(LastArg(c, "F"), LastArg(c, "m"))

Box == before.box

AtPath(path) == {e \in Content(Box) : Box.info[e].path = path}

AskedEntries ==
    IF Arg("F") = NULL THEN Content(Box)
    ELSE UNION {Subtree(Box, e) : e \in AtPath(Arg("F"))}

\* Where each file and directory of a tree is.
Items(t) == {<<NamesTo(t, e), t.info[e].type, e>> : e \in Content(t) \ Untyped(t)}

\* The items there should be after entry e was moved to entry d, a directory or a
\* file to be replaced.
ItemsMoved(e, d) ==
    LET old  == NamesTo(Box, e)
        into == IF d \in Dirs(Box) THEN NamesTo(Box, d) ELSE Front(NamesTo(Box, d))
        Below(i) == IsPrefix(old, i[1])
    IN  {i \in Items(Box) : ~ Below(i) /\ (i[3] = d => d \in Dirs(Box))}
          \cup {<<into \o SubSeq(i[1], Len(old), Len(i[1])), i[2], i[3]>> :
                  i \in {j \in Items(Box) : Below(j)}}

\* All that the command line may make of an archive; nothing if it does not ask for
\* a change, or asks for one of an entry that is not there.
Wanted ==
    CASE Arg("f") = NULL -> {}
      [] Asked = "CREATE" /\ Arg("F") = NULL /\ Arg("f") # NULL -> {Items(Sources[Arg("c")])}
      [] Asked = "REMOVE" /\ Arg("f") # NULL ->
           {{i \in Items(Box) : ~ IsPrefix(NamesTo(Box, e), i[1])} : e \in AtPath(Arg("F"))}
      [] Asked = "MOVE" /\ Arg("f") # NULL ->
           {ItemsMoved(p[1], p[2]) : p \in AtPath(Arg("F")) \X AtPath(Arg("m"))}
      [] OTHER -> {}

\* When the program is done, the archive to be written holds what the command line
\* asks for, and no other archive has changed, nor this one if nothing was asked
\* for or it cannot be written (main.c:139, :164).
SavedAsAsked ==
    LET target == IF Arg("o") # NULL THEN Arg("o") ELSE Arg("f")
    IN  pc = "exit" =>
          \A b \in Boxes :
             IF b = target /\ b \notin Unwritable /\ Understood /\ Wanted # {}
             THEN Items(Loaded(files[b])) \in Wanted
             ELSE files[b] = FirstFiles[b]

\* What LIST prints, and MOVE after it has saved, are the entries asked for, with
\* what is below them and nothing else, each once, under the paths they were opened
\* with (main.c:155, :223).
ListedAsAsked ==
    pc = "exit" /\ printed # <<>> /\ Asked \in {"LIST", "MOVE"} =>
      /\ ToSet(printed) = {Box.info[e].path : e \in AskedEntries}
      /\ Len(printed) = Cardinality(AskedEntries)

ExtractEnded == pc = "exit" /\ code = 0 /\ Asked = "EXTRACT" /\ Understood

\* Something on the way to p, or at p, keeps a file from being made there: a file
\* where a directory should be, a directory that is not there and not among the
\* places of the entries asked for, or a directory at p.
Blocked(p, places) ==
    \/ before.out[p].kind = "dir"
    \/ \E q \in Prefixes(p) \ {p} :
         before.out[q].kind = "file" \/ (before.out[q].kind = "none" /\ q \notin places)

\* Extracting puts each file asked for in its place with its contents, unless that
\* is blocked, and leaves everything else but times as it was (main.c:360).
ExtractedUnlessBlocked ==
    ExtractEnded =>
      LET asked  == AskedEntries
          places == {NamesTo(Box, e) : e \in asked}
      IN  /\ \A e \in asked \cap Files(Box) :
               LET p == NamesTo(Box, e) IN (out[p].data = e) <=> ~ Blocked(p, places)
          /\ \A p \in Targets \ places :
               out[p].kind = before.out[p].kind /\ out[p].data = before.out[p].data

\* An extracted file has its times from the archive; a directory has them exactly if
\* nothing was made in it after ba_mkdir() had set them (filesystem.c:42).
TimesKept ==
    ExtractEnded =>
      LET New    == {q \in Targets : before.out[q].kind = "none" /\ out[q].kind # "none"}
          InNew(p) == \E q \in New \ {<<>>} : Front(q) = p
      IN  \A e \in AskedEntries :
            LET p == NamesTo(Box, e)
            IN  /\ e \in Files(Box) /\ out[p].data = e => out[p].time = "saved"
                /\ e \in Dirs(Box) /\ out[p].kind = "dir" => (out[p].time = "saved" <=> ~ InNew(p))

\* The program ends by itself: a job neither loops nor crashes.
Exits == <>(pc = "exit")
=============================================================================
