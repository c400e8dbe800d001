------------------------------ MODULE EntryPaths ------------------------------
(***************************************************************************)
(* Entry trees with names and paths, as operators: what the calls of the   *)
(* library do to them, how ba_save() describes them in the XML header and  *)
(* what ba_open() makes of a header.  HeaderTree and BoxProgram use them.  *)
(*                                                                         *)
(* A tree is a record                                                      *)
(*   kids[d]  the entries of directory d in list order; kids[NULL] is the  *)
(*            root (arch->entry_tree);                                     *)
(*   info[e]  the members of entry e that are not pointers.                *)
(* EntryTree models the pointers behind it.  Entries move at most once     *)
(* before the archive is opened again, so that parent_dir can be trusted.  *)
(* A path is a sequence of names and separators (BA_SEP).                  *)
(***************************************************************************)
EXTENDS Integers, SequencesExt

CONSTANTS Entries, Names, NULL, SEP,
          IntMax            \* the largest int of the host

ASSUME PathsAssumption ==
    /\ NULL \notin Entries \cup Names \cup Int \cup Seq(Names \cup {SEP})
    /\ SEP \notin Names \cup {NULL}
    /\ IntMax \in Nat

Places == Entries \cup {NULL}

\* time stands for the times in ->meta: "own" are those of the source, NULL none.
NoInfo ==
    [type |-> "none", name |-> NULL, path |-> NULL, size |-> 0, start |-> -1, time |-> NULL]
NoTree == [kids |-> [d \in Places |-> <<>>], info |-> [e \in Entries |-> NoInfo]]

\* What the members may be.  An entry that is neither a file nor a directory has none.
Parts == Names \cup {SEP}
Times == {NULL, "own", "epoch"}
FileInfos ==
    [type : {"file"}, name : Names, path : Seq(Parts) \ {<<>>}, size : Int, start : Int,
     time : Times]
DirInfos ==
    [type : {"dir"}, name : Names, path : Seq(Parts) \ {<<>>}, size : {0}, start : {-1},
     time : Times]
UntypedInfo == [NoInfo EXCEPT !.type = "untyped"]
Infos == FileInfos \cup DirInfos \cup {UntypedInfo, NoInfo}

(***************************************************************************)
(* Sequences.  SelectSeq() is not known to the provers, sets instead of    *)
(* tests are.                                                              *)
(***************************************************************************)
\* What there is of the set T in the sequence s, in the same order.
Only(s, T) ==
    LET only[i \in 0 .. Len(s)] ==
          IF i = 0 THEN <<>>
          ELSE IF s[i] \in T THEN Append(only[i - 1], s[i]) ELSE only[i - 1]
    IN  only[Len(s)]

\* Where each of some pieces begins when pieces of these sizes lie end to end.
Begins(sizes) ==
    LET begin[i \in 1 .. Len(sizes)] ==
          IF i = 1 THEN 0 ELSE begin[i - 1] + sizes[i - 1]
    IN  begin

(***************************************************************************)
(* Walks.                                                                  *)
(***************************************************************************)
\* Each entry of a list, followed by what walk says of it.
Walked(list, walk) ==
    LET walked[i \in 0 .. Len(list)] ==
          IF i = 0 THEN <<>> ELSE walked[i - 1] \o <<list[i]>> \o walk[list[i]]
    IN  walked[Len(list)]

\* The order in which the recursive walks over ->next and ->child_entries come
\* to the entries below top.
Preorder(kids, top) ==
    LET walk[d \in Places] == Walked(kids[d], walk)
    IN  walk[top]

Descendants(kids, d) == ToSet(Preorder(kids, d))

Content(t) == Descendants(t.kids, NULL)
Subtree(t, e) == {e} \cup Descendants(t.kids, e)
Parent(t, e) == CHOOSE d \in Places : e \in ToSet(t.kids[d])
Dirs(t) == {e \in Content(t) : t.info[e].type = "dir"}
Files(t) == {e \in Content(t) : t.info[e].type = "file"}
Untyped(t) == {e \in Content(t) : t.info[e].type = "untyped"}

\* The names from the root to e.
NamesTo(t, e) ==
    LET names[x \in Content(t)] ==
          Append(IF Parent(t, x) = NULL THEN <<>> ELSE names[Parent(t, x)], t.info[x].name)
    IN  names[e]

Stripped(path) == Only(path, Names)

\* The ->path of directory d, "" for the root.
PathOf(t, d) == IF d = NULL THEN <<>> ELSE t.info[d].path

(***************************************************************************)
(* ba_get: a depth-first walk that ends at the first entry with the path,  *)
(* or dereferences the path of an entry that has none.                     *)
(***************************************************************************)
\* Mutant of Hits: only the root and the entries of its directories are compared.
Hits_two_levels(t, path) ==
    Only(Preorder(t.kids, NULL),
         {e \in Content(t) : t.info[e].path \in {path, NULL} /\ Len(NamesTo(t, e)) <= 2})

Hits(t, path) ==
    Only(Preorder(t.kids, NULL), {e \in Entries : t.info[e].path \in {path, NULL}})

ba_get(t, path) == IF Hits(t, path) = <<>> THEN NULL ELSE Head(Hits(t, path))

(***************************************************************************)
(* Adding, moving and removing.                                            *)
(***************************************************************************)
\* Mutant of FormedPath: added entries get the name for their path.
FormedPath_name_only(parent, name, type, how) ==
    IF how = "added" THEN <<SEP, name>>
    ELSE parent \o (IF type = "file" THEN <<name>> ELSE <<name, SEP>>)

\* The path of a new entry in a directory with the path parent: ba_add_file() and
\* ba_add_dir() put a separator before the name, the loaders put one after the name
\* of a directory.
FormedPath(parent, name, type, how) ==
    parent \o (CASE how = "added"                   -> <<SEP, name>>
                 [] how = "loaded" /\ type = "file" -> <<name>>
                 [] how = "loaded" /\ type = "dir"  -> <<name, SEP>>)

\* A new entry at the end of directory d.  What is neither a file nor a directory
\* has no members set.
Added(t, d, e, name, type, size, time, how) ==
    [kids |-> [t.kids EXCEPT ![d] = Append(@, e)],
     info |-> [t.info EXCEPT ![e] =
                 IF type = "untyped" THEN UntypedInfo
                 ELSE [type |-> type, name |-> name, size |-> size, start |-> -1,
                       time |-> time, path |-> FormedPath(PathOf(t, d), name, type, how)]]]

Unlinked(kids, e) == [d \in Places |-> Only(kids[d], Entries \ {e})]

\* Mutant of Removed: a removed entry is freed and stays in its list.
Removed_linked(t, e) == [t EXCEPT !.info[e] = NoInfo]

\* ba_remove
Removed(t, e) ==
    LET gone == Subtree(t, e)
    IN  [kids |-> [d \in Places |-> IF d \in gone THEN <<>> ELSE Unlinked(t.kids, e)[d]],
         info |-> [x \in Entries |-> IF x \in gone THEN NoInfo ELSE t.info[x]]]

\* ba_move into a directory: src goes to the end of it and keeps its path.
MovedInto(t, src, dir) ==
    [t EXCEPT !.kids = [Unlinked(t.kids, src) EXCEPT ![dir] = Append(@, src)]]

\* ba_move onto a file: src goes to the end of the file's directory, the file is
\* removed.
MovedOnto(t, src, file) == Removed(MovedInto(t, src, Parent(t, file)), file)

(***************************************************************************)
(* The header.  A header has the shape of the tree it was made from, and a *)
(* node for each entry; NULL stands for an attribute that is not there.    *)
(***************************************************************************)
\* __ba_rearrange: where each file starts in the data chunk.
Rearranged(t) ==
    LET order == Preorder(t.kids, NULL)
        begin == Begins([i \in DOMAIN order |-> t.info[order[i]].size])
        At(e) == CHOOSE i \in DOMAIN order : order[i] = e
    IN  [t EXCEPT !.info = [e \in Entries |->
            IF e \in Files(t) THEN [t.info[e] EXCEPT !.start = begin[At(e)]] ELSE t.info[e]]]

\* Mutant of Described: the node of an untyped entry is a file node.
Described_untyped_as_file(i) ==
    [tag |-> IF i.type = "untyped" THEN "file" ELSE i.type, name |-> i.name,
     size |-> i.size, start |-> i.start, time |-> i.time]

\* The node __ba_dir_entry_to_xml() makes for an entry.
Described(i) ==
    [tag |-> i.type, name |-> i.name,
     size  |-> IF i.type = "file" THEN i.size ELSE NULL,
     start |-> IF i.type = "file" THEN i.start ELSE NULL,
     time  |-> i.time]

\* __ba_create_header
Header(t) == [kids |-> t.kids, node |-> [e \in Entries |-> Described(t.info[e])]]

\* Mutant of atoi: sizes are cut to 16 bits.
atoi_half(n) == n % ((IntMax + 1) \div 2)

\* What atoi() makes of a number that may not fit an int.
atoi(n) == ((n + IntMax + 1) % (2 * (IntMax + 1))) - (IntMax + 1)

Tagged(h, tag) == {e \in Entries : h.node[e].tag = tag}

\* Mutants of LoadedKids: directories are not read after the files; nodes are put
\* at the front of their list.
LoadedKids_files_only(h) == [d \in Places |-> Only(h.kids[d], Tagged(h, "file"))]

LoadedKids_reversed(h) ==
    [d \in Places |-> Only(Reverse(h.kids[d]), Tagged(h, "file"))
                      \o Only(Reverse(h.kids[d]), Tagged(h, "dir"))]

\* __ba_process_xml_dir: the files of a directory, then its directories.
LoadedKids(h) ==
    [d \in Places |-> Only(h.kids[d], Tagged(h, "file")) \o Only(h.kids[d], Tagged(h, "dir"))]

\* Opening crashes on a node without a name (dupcat() reads it before the check)
\* and on a file without a size or a start (bael_add() of the NULL returned).
Unreadable(h) ==
    \E e \in Descendants(LoadedKids(h), NULL) :
       \/ h.node[e].name = NULL
       \/ h.node[e].tag = "file" /\ NULL \in {h.node[e].size, h.node[e].start}

\* Mutant of LoadedEntry: the path of the directory is left out.
LoadedEntry_name_only(n, parent) ==
    [type  |-> n.tag, name |-> n.name, path |-> <<n.name>>, size |-> 0, start |-> 0,
     time  |-> n.time]

\* __ba_get_file_metadata(), __ba_get_dir_metadata(): the entry made of a node in a
\* directory.  Times that are not there are read as 0, the first second of 1970.
LoadedEntry(n, parent) ==
    [type  |-> n.tag,
     name  |-> n.name,
     path  |-> FormedPath(parent, n.name, n.tag, "loaded"),
     size  |-> IF n.tag = "file" THEN atoi(n.size) ELSE 0,
     start |-> IF n.tag = "file" THEN atoi(n.start) ELSE -1,
     time  |-> IF n.time = NULL THEN "epoch" ELSE n.time]

\* The tree ba_open() builds from a header.
Loaded(h) ==
    LET kids   == LoadedKids(h)
        read   == Descendants(kids, NULL)
        Dir(e) == CHOOSE d \in Places : e \in ToSet(kids[d])
        info[e \in read] ==
          LoadedEntry(h.node[e], IF Dir(e) = NULL THEN <<>> ELSE info[Dir(e)].path)
    IN  [kids |-> [d \in Places |-> IF d \in read \cup {NULL} THEN kids[d] ELSE <<>>],
         info |-> [e \in Entries |-> IF e \in read THEN info[e] ELSE NoInfo]]
=============================================================================
