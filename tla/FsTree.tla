-------------------------------- MODULE FsTree --------------------------------
(***************************************************************************)
(* ba_load_fs_tree(): an entry tree made from a directory of the           *)
(* filesystem, while other programs may change what is in it.  Every call  *)
(* of the system is a step: opendir(), one readdir_r(), the stat() of      *)
(* ba_get_metadata(), the stat() of ba_fsize().                            *)
(*                                                                         *)
(* A place in the filesystem is the sequence of names that leads to it     *)
(* from the given directory; the entry made for it is named by the place.  *)
(* A directory stream returns, in any order, what the directory held when  *)
(* it was opened.                                                          *)
(***************************************************************************)
EXTENDS Integers, SequencesExt, SizeSum

CONSTANTS Names, Places,    \* names in a directory, places there can be something at
          Sizes,            \* file sizes
          FirstSizes,       \* those among them of files before the walk
          MaxChanges,       \* how often other programs change something
          DataSize,         \* the data_size argument is not NULL
          KnowsTypes        \* d_type is filled in, not DT_UNKNOWN

ASSUME FsAssumption ==
    /\ Places \subseteq Seq(Names) /\ <<>> \in Places
    /\ \A p \in Places : Prefixes(p) \subseteq Places
    /\ FirstSizes \subseteq Sizes /\ Sizes \subseteq Nat /\ MaxChanges \in Nat
    /\ {DataSize, KnowsTypes} \subseteq BOOLEAN

VARIABLES
    disk,       \* the filesystem: what is at each place
    changed,    \* places other programs have changed
    stack,      \* activations of __rec_getdir_func(), the innermost last
    pc,         \* the next system call of the innermost one
    entry,      \* the entries made so far
    kids,       \* the lists they are linked in
    data_size

fs   == <<disk, changed>>
made == <<entry, kids, data_size>>
vars == <<fs, stack, pc, made>>

Root == <<>>

(***************************************************************************)
(* The filesystem.  "other" is a device, a socket or a link, "locked" a    *)
(* directory that may not be read.                                         *)
(***************************************************************************)
Node(kind, size) == [kind |-> kind, size |-> size]
Nothing == Node("none", 0)
Nodes == {Node(kind, 0) : kind \in {"none", "dir", "locked", "other"}}
            \cup {Node("file", s) : s \in Sizes}

\* What is somewhere is in a directory, and so are the places above it.
Sound(d) ==
    \A p \in Places \ {Root} : d[p] # Nothing =>
        \A q \in Prefixes(p) \ {p} : d[q].kind = "dir"

Disks == {d \in [Places -> Nodes] : Sound(d)}

Above(p) == Prefixes(p) \ {Root}

\* Another program puts something else at p.
Change(p) ==
    /\ Cardinality(changed) < MaxChanges
    /\ disk[Front(p)].kind = "dir"
    /\ \E node \in Nodes \ {disk[p]} :
         disk' = [x \in Places |->
                    CASE x = p          -> node
                      [] p \in Above(x) /\ x # p -> Nothing
                      [] OTHER          -> disk[x]]
    /\ changed' = changed \cup {p}
    /\ UNCHANGED <<stack, pc, made>>

(***************************************************************************)
(* __rec_getdir_func.                                                      *)
(***************************************************************************)
NoEntry == [type |-> "none", meta |-> FALSE, size |-> 0, start |-> -1]

Activation(dir) == [dir |-> dir, left |-> <<>>, at |-> Root]
Top    == Last(stack)
Reading(frame) == stack' = Append(Front(stack), frame)

Init ==
    /\ disk \in {d \in Disks : \A p \in Places : d[p].kind = "file" => d[p].size \in FirstSizes}
    /\ changed = {}
    /\ stack = <<Activation(Root)>>
    /\ pc = "opendir"
    /\ entry = [p \in Places |-> NoEntry]
    /\ kids = [p \in Places |-> <<>>]
    /\ data_size = 0

\* Mutant of Link: everything is linked in the first list.
Link_root(p) == kids' = [kids EXCEPT ![Root] = Append(@, p)]

Link(p) == kids' = [kids EXCEPT ![Front(p)] = Append(@, p)]

\* The function returns: its caller links the directory it was called for.
Return ==
    IF Len(stack) = 1
    THEN pc' = "done" /\ UNCHANGED <<stack, kids>>
    ELSE /\ pc' = "readdir"
         /\ stack' = Front(stack)
         /\ Link(Top.dir)

\* Mutants of Error: a directory that cannot be read is tried again; the callers
\* give up too.
Error_retries == pc' = "opendir" /\ UNCHANGED <<stack, kids>>
Error_in_callers == pc' = "done" /\ UNCHANGED <<stack, kids>>

\* The label error: what was not read of the directory is left out.
Error == Return

\* What readdir_r() will say of a directory.
Listing(dir) ==
    [n \in {x \in Names : Append(dir, x) \in Places /\ disk[Append(dir, x)] # Nothing} |->
       LET kind == disk[Append(dir, n)].kind
       IN  IF ~ KnowsTypes THEN "unknown" ELSE IF kind = "locked" THEN "dir" ELSE kind]

opendir ==
    /\ pc = "opendir"
    /\ IF disk[Top.dir].kind = "dir"
       THEN /\ pc' = "readdir"
            /\ Reading([Top EXCEPT !.left = Listing(Top.dir)])
            /\ UNCHANGED kids
       ELSE Error
    /\ UNCHANGED <<fs, entry, data_size>>

Without(f, n) == [x \in DOMAIN f \ {n} |-> f[x]]

\* The next name: a file or a directory is looked at more closely, anything else is
\* linked as an entry with no type, name or path.
readdir_r(n) ==
    LET p == Append(Top.dir, n)
    IN  /\ pc = "readdir"
        /\ n \in DOMAIN Top.left
        /\ Reading([Top EXCEPT !.left = Without(@, n), !.at = p])
        /\ IF Top.left[n] \in {"file", "dir"}
           THEN pc' = "stat" /\ entry' = [entry EXCEPT ![p].type = Top.left[n]] /\ UNCHANGED kids
           ELSE UNCHANGED pc /\ entry' = [entry EXCEPT ![p].type = "untyped"] /\ Link(p)
        /\ UNCHANGED <<fs, data_size>>

\* readdir_r() has nothing left.
closedir ==
    /\ pc = "readdir"
    /\ DOMAIN Top.left = {}
    /\ Return
    /\ UNCHANGED <<fs, entry, data_size>>

\* Mutant of Metadata: only files have any.
Metadata_files_only(p) == disk[p].kind = "file"

\* ba_get_metadata() finds something.
Metadata(p) == disk[p] # Nothing

ba_get_metadata ==
    /\ pc = "stat"
    /\ entry' = [entry EXCEPT ![Top.at].meta = Metadata(Top.at)]
    /\ IF entry[Top.at].type = "file"
       THEN pc' = "fsize" /\ UNCHANGED stack
       ELSE pc' = "opendir" /\ stack' = Append(stack, Activation(Top.at))
    /\ UNCHANGED <<fs, kids, data_size>>

\* Mutant of NextStart: the size of the file is part of the offset it starts at.
NextStart_after(p) == data_size + disk[p].size

\* Where the data of the file at p will start.
NextStart(p) == data_size

\* ba_fsize() gives a size, not -1.
HasSize(p) == disk[p].kind = "file"

\* The size is taken, and the file linked if it is still a file.
ba_fsize ==
    LET p == Top.at
    IN  /\ pc = "fsize"
        /\ CASE ~ DataSize -> pc' = "crash" /\ UNCHANGED <<stack, made>>
             [] DataSize /\ ~ HasSize(p) ->
                  Error /\ UNCHANGED <<entry, data_size>>
             [] OTHER ->
                  /\ entry' = [entry EXCEPT ![p].size = disk[p].size, ![p].start = NextStart(p)]
                  /\ data_size' = data_size + disk[p].size
                  /\ Link(p)
                  /\ pc' = "readdir"
                  /\ UNCHANGED stack
        /\ UNCHANGED fs

Walk ==
    \/ opendir
    \/ \E n \in Names : readdir_r(n)
    \/ closedir
    \/ ba_get_metadata
    \/ ba_fsize

Running == pc \notin {"done", "crash"}

Next == Walk \/ (Running /\ \E p \in Places \ {Root} : Change(p))

\* The walk goes on as long as it can; nobody has to change anything.
Spec == Init /\ [][Next]_vars /\ WF_vars(Walk)

(***************************************************************************)
(* Properties.                                                             *)
(***************************************************************************)
\* The entry of p is in the list of its directory.
Linked(p) == p \in ToSet(kids[Front(p)])

\* What the walks come to: an entry is only in the list of its own directory (TypeOK), so
\* that it is reached from the root if it and everything above it is linked.
Loaded == {p \in Places \ {Root} : \A q \in Above(p) : Linked(q)}

\* Nothing was changed at p or above.
Untouched(p) == Above(p) \cap changed = {}

TypeOK ==
    /\ disk \in Disks
    /\ changed \subseteq Places
    /\ \A i \in DOMAIN stack :
         DOMAIN stack[i].left \subseteq Names /\ {stack[i].dir, stack[i].at} \subseteq Places
    /\ pc \in {"opendir", "readdir", "stat", "fsize", "done", "crash"}
    /\ \A p \in Places :
         /\ entry[p].type \in {"none", "file", "dir", "untyped"}
         /\ entry[p].size \in Nat
         /\ entry[p].type \in {"none", "untyped"} =>
              entry[p] = [NoEntry EXCEPT !.type = entry[p].type]
         /\ \A i \in DOMAIN kids[p] : Front(kids[p][i]) = p
    /\ data_size \in Nat

\* p is in the list of its directory, and q is not there up to p.
Ahead(p, q) ==
    LET list == kids[Front(p)]
    IN  /\ Front(p) = Front(q)
        /\ \E i \in DOMAIN list : list[i] = p /\ \A j \in 1 .. i : list[j] # q

\* The walks come to the file at p first: it is ahead where the ways to both part.
Before(p, q) == \E x \in Above(p), y \in Above(q) : Ahead(x, y)

\* The data of the files will be laid end to end in the order of the walks that
\* save them, whatever was left out (filesystem.c:150, box_archive.c:283).
StartsInWalkOrder ==
    pc = "done" =>
      LET files == {p \in Loaded : entry[p].type = "file"}
          size  == [p \in files |-> entry[p].size]
      IN  /\ \A p \in files : entry[p].start = SizeSum(size, {q \in files : Before(q, p)})
          /\ data_size = SizeSum(size, files)

\* A file or directory that nobody touched is missing in the end only if it was
\* out of reach, or something else in the same directory, or in one above, was
\* changed in time (filesystem.c:153).
LossIsLocal ==
    pc = "done" =>
      \A p \in Places \ ({Root} \cup Loaded) :
         disk[p] # Nothing /\ Untouched(p) /\ disk[Root].kind = "dir" =>
           \E x \in changed, top \in Above(p) : Front(x) = Front(top)

\* What was loaded and not touched is what it is on the disk, with its times.
LoadedAsItIs ==
    \A p \in Loaded :
       Untouched(p) =>
         /\ disk[p].kind \in (CASE entry[p].type = "file" -> {"file"}
                                [] entry[p].type = "dir"  -> {"dir", "locked"}
                                [] OTHER                  -> {"other"})
         /\ entry[p].type = "file" => entry[p].size = disk[p].size
         /\ entry[p].type # "untyped" => entry[p].meta

\* ba_load_fs_tree() returns, whatever other programs do to the directories
\* meanwhile.
WalkEnds == <>(pc = "done")
===============================================================================
