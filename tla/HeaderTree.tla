------------------------------ MODULE HeaderTree ------------------------------
(***************************************************************************)
(* Names, paths and the XML header over the life of an archive: it is      *)
(* made from a filesystem tree or call by call, changed, saved, opened     *)
(* again, changed, and so on.  What the pointers do is in EntryTree, where *)
(* contents are in BoxArchive: here ba_save() is the header it makes, and  *)
(* ba_open() the tree it reads out of the header.                          *)
(*                                                                         *)
(* An entry keeps its identity when it is saved and opened again.          *)
(***************************************************************************)
EXTENDS EntryPaths

CONSTANTS Sizes,     \* file sizes
          Calls      \* what happens besides the basic calls, out of
                     \*   "special_files"  loading a tree that has entries which
                     \*                    are neither files nor directories
                     \*   "damaged"        other programs take something out of
                     \*                    the header
                     \*   "same_name"      two entries of a directory get one name

ASSUME SessionAssumption ==
    Sizes \subseteq Nat /\ Calls \subseteq {"special_files", "damaged", "same_name"}

VARIABLES
    tree,     \* arch->entry_tree
    header,   \* the header in the archive file, NoHeader once nothing will read it
    native,   \* entries that come from loading a filesystem tree or a header
    moved,    \* entries that were moved since
    opened,   \* how often the archive was opened since it, or the header,
              \* was last changed (0..2)
    status    \* "loading" by ba_load_fs_tree(), "open", "saved", or "crash"

vars == <<tree, header, native, moved, opened, status>>

In(d) == ToSet(tree.kids[d])

\* The path of e does not lead to where e is.
Stale(e) == Stripped(tree.info[e].path) # NamesTo(tree, e)

NoHeader == Header(NoTree)

Init ==   \* ba_new
    /\ tree = NoTree
    /\ header = NoHeader
    /\ native = {} /\ moved = {} /\ opened = 0
    /\ status = "loading"

\* No name is given twice in a directory; what has no name does not count.
NameFree(d, e, n) ==
    (\E x \in In(d) \ {e} : tree.info[x].name = n) => "same_name" \in Calls

(***************************************************************************)
(* Making and changing the tree.                                           *)
(***************************************************************************)
\* __rec_getdir_func() comes to an entry of the filesystem.
ba_load_fs_tree(d, e, n, type, s, time) ==
    /\ status = "loading"
    /\ e \notin Content(tree)
    /\ d = NULL \/ d \in Dirs(tree)
    /\ NameFree(d, e, n)
    /\ type = "untyped" => "special_files" \in Calls
    /\ tree' = Added(tree, d, e, n, type, s, time, "loaded")
    /\ native' = native \cup {e}
    /\ UNCHANGED <<header, moved, opened, status>>

\* A call of the client changes the tree: the next save makes another header.
Change(t) ==
    /\ status \in {"loading", "open"}
    /\ tree' = t
    /\ header' = NoHeader
    /\ opened' = 0
    /\ status' = "open"

\* ba_add_file, ba_add_dir.  ba_add_dir() finds times if the filesystem happens to
\* have something under the name of the directory.
ba_add(d, e, n, type, s, time) ==
    /\ e \notin Content(tree)
    /\ d = NULL \/ d \in Dirs(tree)
    /\ NameFree(d, e, n)
    /\ Change(Added(tree, d, e, n, type, s, time, "added"))
    /\ UNCHANGED <<native, moved>>

\* Clients move an entry once, and remove none they moved (see EntryTree).
ba_remove(e) ==
    /\ e \notin moved
    /\ Change(Removed(tree, e))
    /\ native' = native \ Subtree(tree, e)
    /\ moved' = moved \ Subtree(tree, e)

ba_move_into_dir(src, dir) ==
    /\ src \notin moved
    /\ dir \in Dirs(tree) \ Subtree(tree, src)
    /\ NameFree(dir, src, tree.info[src].name)
    /\ Change(MovedInto(tree, src, dir))
    /\ moved' = moved \cup {src}
    /\ UNCHANGED native

ba_move_onto_file(src, file) ==
    /\ src \in Files(tree) \ moved
    /\ file \in Files(tree) \ (moved \cup {src})
    /\ Parent(tree, file) # NULL
    /\ NameFree(Parent(tree, file), src, tree.info[src].name)
    /\ Change(MovedOnto(tree, src, file))
    /\ native' = native \ {file}
    /\ moved' = moved \cup {src}

(***************************************************************************)
(* Saving and opening.                                                     *)
(***************************************************************************)
\* __ba_rearrange and __ba_create_header
ba_save ==
    /\ status \in {"loading", "open"}
    /\ tree' = Rearranged(tree)
    /\ header' = Header(tree')
    /\ status' = "saved"
    /\ UNCHANGED <<native, moved, opened>>

\* A node loses an attribute, or gets a tag the library does not know.
Damage(e) ==
    /\ status = "saved"
    /\ "damaged" \in Calls
    /\ header = Header(tree)
    /\ \/ \E a \in {"name", "size", "start", "time"} : header' = [header EXCEPT !.node[e][a] = NULL]
       \/ header' = [header EXCEPT !.node[e].tag = "untyped"]
    /\ opened' = 0
    /\ UNCHANGED <<tree, native, moved, status>>

\* ba_close, ba_open, __ba_load_dir_tree
ba_open ==
    /\ status = "saved"
    /\ IF Unreadable(header)
       THEN status' = "crash" /\ UNCHANGED <<tree, header, native, moved, opened>>
       ELSE /\ tree' = Loaded(header)
            /\ native' = Content(tree')
            /\ moved' = {}
            /\ opened' = (IF opened = 2 THEN 2 ELSE opened + 1)
            /\ status' = "open"
            /\ UNCHANGED header

Next ==
    \/ \E d \in Places, e \in Entries, n \in Names :
         \/ \E s \in Sizes :
              ba_load_fs_tree(d, e, n, "file", s, "own") \/ ba_add(d, e, n, "file", s, "own")
         \/ ba_load_fs_tree(d, e, n, "dir", 0, "own")
         \/ \E time \in {"own", NULL} : ba_add(d, e, n, "dir", 0, time)
         \/ ba_load_fs_tree(d, e, n, "untyped", 0, NULL)
    \/ \E e \in Content(tree) \ Untyped(tree) :
         \/ ba_remove(e)
         \/ \E dest \in Content(tree) : ba_move_into_dir(e, dest) \/ ba_move_onto_file(e, dest)
    \/ ba_save
    \/ \E e \in Content(tree) : Damage(e)
    \/ ba_open

Spec == Init /\ [][Next]_vars

(***************************************************************************)
(* Properties.                                                             *)
(***************************************************************************)
TypeOK ==
    /\ \A d \in Places : In(d) \subseteq Entries
    /\ \A e \in Content(tree) :
         LET i == tree.info[e]
         IN  /\ i.type \in {"file", "dir", "untyped"}
             /\ i.name \in Names \cup {NULL}
             /\ IF i.type = "untyped" THEN i.path = NULL
                ELSE i.path # <<>> /\ ToSet(i.path) \subseteq Names \cup {SEP}
             /\ i.size \in Int /\ i.start \in Int /\ i.time \in {NULL, "own", "epoch"}
    /\ native \subseteq Content(tree) /\ moved \subseteq Content(tree)
    /\ opened \in 0 .. 2
    /\ status \in {"loading", "open", "saved", "crash"}

\* Opening a header that ba_save() wrote and nobody changed never crashes,
\* whatever is in the tree (box_archive.c:480, :512).
OwnHeaderOpens == status = "crash" => header # Header(tree)

\* ba_get() with the path of an entry gives that entry, except that an entry that
\* was moved away may answer to the path, and that the walk crashes when it comes
\* to an entry without a path first (box_archive.c:987).
FoundUnderOwnPath ==
    \A e \in Content(tree) \ Untyped(tree) :
       LET found == ba_get(tree, tree.info[e].path)
       IN  \/ Stale(e) \/ found = e
           \/ found # NULL /\ (found \in Untyped(tree) \/ Stale(found))

\* Only ba_move() makes paths wrong: that of the entry, of what is in it and of
\* what is added to it later (box_archive.c:832).
StaleOnlyBelowMoved ==
    \A e \in Content(tree) \ Untyped(tree) :
       Stale(e) => \E top \in moved : e \in Subtree(tree, top)

Opening == status = "saved" /\ status' = "open"

\* The entries the loader can come to: all directories above are there.
Known(e) ==
    \A top \in Content(tree) : e \in Subtree(tree, top) => header.node[top].tag # "untyped"

InOrder(list, x, y) == \E i, j \in DOMAIN list : i < j /\ list[i] = x /\ list[j] = y

\* What is opened is what was saved: each file and directory is in its place with
\* its name, files among files and directories among directories in the same order.
\* What is neither goes, and with it what is below it.
TreeSurvives ==
    [][Opening =>
         /\ Content(tree') = {e \in Content(tree) : Known(e)}
         /\ \A e \in Content(tree') :
              /\ NamesTo(tree', e) = NamesTo(tree, e)
              /\ tree'.info[e].type = tree.info[e].type
              /\ \A x \in Content(tree'), d \in Places :
                   tree.info[x].type = tree.info[e].type /\ InOrder(tree.kids[d], x, e)
                     => InOrder(tree'.kids[d], x, e)]_vars

\* A path survives saving and opening exactly if the entry was loaded, not added,
\* and has not been moved elsewhere (box_archive.c:512, :558, :674, :755).
PathSurvives ==
    [][Opening =>
         \A e \in Content(tree') :
            (tree'.info[e].path = tree.info[e].path) <=> (e \in native /\ ~ Stale(e))]_vars

\* Sizes and starts that fit an int, and times, survive saving and opening; only
\* an entry that has no times becomes one of 1970 (box_archive.c:533, :537, :578).
AttributesSurvive ==
    [][Opening /\ header = Header(tree) =>
         \A e \in Content(tree') :
            LET old == tree.info[e]
                new == tree'.info[e]
            IN  /\ old.size \in 0 .. IntMax => new.size = old.size
                /\ old.type = "file" /\ old.start \in 0 .. IntMax => new.start = old.start
                /\ new.time = "epoch" <=> old.time \in {NULL, "epoch"}]_vars

\* Opening and saving an archive that was opened and saved before without a change
\* writes the header that is there: entries are put in order, odd ones are dropped
\* and sizes are cut once, not each time.
ResavingIsStable ==
    [][status = "open" /\ status' = "saved" /\ opened = 2 => header' = header]_vars
=============================================================================
