------------------------------ MODULE EntryTree ------------------------------
(***************************************************************************)
(* The entry tree of an open archive and the memory it lives in: ba_new,   *)
(* ba_add_file, ba_add_dir, ba_add, ba_move, ba_remove, the contents calls *)
(* as far as they allocate, the accounting of __data_size, and ba_close.   *)
(*                                                                         *)
(* The library checks hardly any of its arguments, so what it guarantees   *)
(* depends on the calls a client makes.  Adding entries, moving one into   *)
(* another directory once, removing single entries and closing are always  *)
(* possible; Calls names the other kinds of calls the client of a run      *)
(* makes, all of them legal by the documentation:                          *)
(*   "stale"      moving or removing an entry that an earlier ba_move took *)
(*                out of the directory its parent_dir names                *)
(*   "inside"     moving an entry onto itself or into its own subtree      *)
(*   "onto_file"  moving a file onto a file of a subdirectory              *)
(*   "onto_root"  moving an entry onto a file of the root                  *)
(*   "dir_onto"   moving a directory onto a file of a subdirectory         *)
(*   "full_dir"   removing a directory that is not empty                   *)
(*   "buffered"   removing a file whose contents are in its buffer         *)
(*   "contents"   reading contents, and setting others of the same size   *)
(*   "resize"     setting contents of another size                        *)
(***************************************************************************)
EXTENDS EntryList, Integers, SizeSum

CONSTANTS Sizes,        \* file sizes
          MaxDataSize,  \* bound on the drift of __data_size that is explored
          Calls

ASSUME SizesAssumption == Sizes \subseteq Nat /\ 0 \in Sizes /\ MaxDataSize \in Nat
ASSUME CallsAssumption ==
    Calls \subseteq {"stale", "inside", "onto_file", "onto_root", "dir_onto",
                        "full_dir", "contents", "buffered", "resize"}

VARIABLES
    alive,        \* ba_Entry structs that are malloc'ed and not freed
    files,        \* those of type ba_EntryType_FILE; they own a ba_File
    meta,         \* entries whose ->meta points to a live ba_Meta
    buffers,      \* addresses of entries whose file_data->buffer block is live
    parent_dir,   \* the ->parent_dir pointers
    links,        \* the ->child_entries and ->next pointers, arch->entry_tree
    size,         \* file_data->__size
    data_size,    \* arch->__data_size
    double_free,  \* some block has been given to free() twice
    state         \* "open", "closed", or how the process went wrong

memory == <<alive, files, meta, buffers>>
vars   == <<memory, parent_dir, links, size, data_size, double_free, state>>

States == {"open", "closed", "null_deref", "corrupt"}

dirs == alive \ files
Tree == Reach(links, links.head[NULL])

\* The bytes of the files among S.
Total(S) == SizeSum(size, S \cap files)

\* parent_dir names the directory the entry is in.
InOwnList(e) == e \in Listed(links, parent_dir[e])

(***************************************************************************)
(* When the pointer walks of the list functions are defined.               *)
(***************************************************************************)
Walkable(next, first) ==
    Chain(next, first) \subseteq alive /\ Terminates(next, first)

\* bael_add() clears e's ->next before it looks for the end of the list of dir,
\* bael_remove() stops at e: both come to a null pointer, or to e.
CanWalk(l, dir, e) ==
    dir \in alive \cup {NULL} /\ Walkable([l.next EXCEPT ![e] = NULL], l.head[dir])

CanFree(l, first) == IsTree(l, first) /\ Reach(l, first) \subseteq alive

\* Undefined behaviour: the run is not followed any further.
Fault(how) ==
    /\ state' = how
    /\ UNCHANGED <<memory, parent_dir, links, size, data_size, double_free>>

Init ==   \* ba_new
    /\ alive = {} /\ files = {} /\ meta = {} /\ buffers = {}
    /\ parent_dir = [e \in Entries |-> NULL]
    /\ links = NoLinks
    /\ size = [e \in Entries |-> 0]
    /\ data_size = 0
    /\ double_free = FALSE
    /\ state = "open"

(***************************************************************************)
(* Adding.                                                                 *)
(***************************************************************************)
\* A new entry e in directory dir (NULL: the root), whatever its type.
Insert(dir, e) ==
    /\ alive' = alive \cup {e}
    /\ parent_dir' = [parent_dir EXCEPT ![e] = dir]
    /\ links' = bael_add(links, dir, e)
    /\ UNCHANGED <<buffers, double_free, state>>

\* malloc() hands out an address that is free.
Fresh(e) == e \notin alive \cup buffers

ba_add_file(dir, e, s) ==
    /\ state = "open"
    /\ Fresh(e)
    /\ IF CanWalk(links, dir, e)
       THEN /\ Insert(dir, e)
            /\ files' = files \cup {e}
            /\ meta' = meta \cup {e}
            /\ size' = [size EXCEPT ![e] = s]
            /\ data_size' = data_size + s
       ELSE Fault("corrupt")

\* found: ba_get_metadata() found a filesystem entry of that name.
ba_add_dir(dir, e, found) ==
    /\ state = "open"
    /\ Fresh(e)
    /\ IF CanWalk(links, dir, e)
       THEN /\ Insert(dir, e)
            /\ meta' = IF found THEN meta \cup {e} ELSE meta
            /\ UNCHANGED <<files, size, data_size>>
       ELSE Fault("corrupt")

(***************************************************************************)
(* Contents: the buffer a file's contents are kept in.                     *)
(***************************************************************************)
ba_get_file_contents(e) ==
    /\ state = "open"
    /\ "contents" \in Calls
    /\ buffers' = buffers \cup {e}
    /\ UNCHANGED <<alive, files, meta, parent_dir, links, size, data_size, double_free, state>>

ba_set_file_contents(e, s) ==
    /\ state = "open"
    /\ (IF s = size[e] THEN "contents" ELSE "resize") \in Calls
    /\ buffers' = buffers \cup {e}
    /\ size' = [size EXCEPT ![e] = s]
    /\ UNCHANGED <<alive, files, meta, parent_dir, links, data_size, double_free, state>>

(***************************************************************************)
(* ba_remove.                                                              *)
(***************************************************************************)
\* Mutant of Below: the entries of directories in the directory are kept.
Below_one_level(l, e) == IF e \in files THEN {} ELSE Listed(l, e)

\* What bael_free() frees besides e: everything below a directory.
Below(l, e) == IF e \in files THEN {} ELSE Reach(l, l.head[e])

CanDiscard(l, e) == e \in files \/ (CanFree(l, l.head[e]) /\ e \notin Below(l, e))

\* e, already unlinked in l, is freed.  bael_free() frees the buffers of the
\* entries below a directory but frees their ->meta twice; for a file free()
\* releases the ba_File and forgets its buffer.
Discard(l, e) ==
    LET gone == {e} \cup Below(l, e)
    IN  /\ alive' = alive \ gone
        /\ files' = files \ gone
        /\ meta' = meta \ gone
        /\ buffers' = buffers \ Below(l, e)
        /\ double_free' = (double_free \/ Below(l, e) \cap meta # {})
        /\ parent_dir' = [x \in Entries |-> IF x \in gone THEN NULL ELSE parent_dir[x]]
        /\ size' = [x \in Entries |-> IF x \in gone THEN 0 ELSE size[x]]
        /\ links' = Forget(l, gone)

RemoveCalls(e) ==
    /\ ~ InOwnList(e) => "stale" \in Calls
    /\ links.head[e] # NULL => "full_dir" \in Calls
    /\ e \in buffers => "buffered" \in Calls

\* Mutant of Subtracted: __data_size is not brought up to date.
Subtracted_nothing(e) == 0

Subtracted(e) == IF e \in files THEN size[e] ELSE 0

ba_remove(e) ==
    LET dir == parent_dir[e]
        l   == bael_remove(links, dir, e)
    IN  /\ state = "open"
        /\ RemoveCalls(e)
        /\ IF CanWalk(links, dir, e) /\ CanDiscard(l, e)
           THEN /\ Discard(l, e)
                /\ data_size' = data_size - Subtracted(e)
                /\ UNCHANGED state
           ELSE Fault("corrupt")

(***************************************************************************)
(* ba_move.  Neither the path nor the parent_dir of the entry is changed.  *)
(***************************************************************************)
Inside(src, dest) == dest \in {src} \cup Reach(links, links.head[src])

MoveCalls(src, dest) ==
    /\ ~ InOwnList(src) => "stale" \in Calls
    /\ Inside(src, dest) => "inside" \in Calls
    /\ dest \in files =>
         /\ ~ InOwnList(dest) => "stale" \in Calls
         /\ dest \in buffers => "buffered" \in Calls
         /\ IF parent_dir[dest] = NULL THEN "onto_root" \in Calls
            ELSE IF src \in dirs THEN "dir_onto" \in Calls
            ELSE "onto_file" \in Calls

ba_move_into_dir(src, dest) ==
    LET l == bael_remove(links, parent_dir[src], src)
    IN  /\ state = "open"
        /\ dest \in dirs
        /\ MoveCalls(src, dest)
        /\ IF CanWalk(links, parent_dir[src], src) /\ CanWalk(l, dest, src)
           THEN /\ links' = bael_add(l, dest, src)
                /\ UNCHANGED <<memory, parent_dir, size, data_size, double_free, state>>
           ELSE Fault("corrupt")

\* How ba_add(arch, &into, src) ends: it dereferences a parent directory that is
\* NULL for the root, and the ->file_data that a directory does not have.
ba_add_outcome(l, into, src) ==
    IF into # NULL /\ ~ CanWalk(l, into, src) THEN "corrupt"
    ELSE IF into = NULL \/ src \in dirs THEN "null_deref"
    ELSE "open"

\* ba_add() of src to the directory of dest, then ba_remove() of dest.
ba_move_onto_file(src, dest) ==
    LET into  == parent_dir[dest]
        l     == bael_remove(links, parent_dir[src], src)
        added == bael_add(l, into, src)
        freed == bael_remove(added, into, dest)
    IN  /\ state = "open"
        /\ dest \in files
        /\ MoveCalls(src, dest)
        /\ IF ~ CanWalk(links, parent_dir[src], src) THEN Fault("corrupt")
           ELSE IF ba_add_outcome(l, into, src) # "open" THEN Fault(ba_add_outcome(l, into, src))
           ELSE IF ~ CanWalk(added, into, dest) THEN Fault("corrupt")
           ELSE /\ Discard(freed, dest)
                /\ data_size' = data_size + size[src] - size[dest]
                /\ UNCHANGED state

(***************************************************************************)
(* ba_save as far as it concerns the tree: __ba_rearrange recomputes       *)
(* __data_size, __ba_save_entry_dir computes it a second time.             *)
(***************************************************************************)
ba_save ==
    /\ state = "open"
    /\ IF CanFree(links, links.head[NULL])
       THEN /\ data_size' = Total(Tree)
            /\ UNCHANGED <<memory, parent_dir, links, size, double_free, state>>
       ELSE Fault("corrupt")

ba_close ==
    /\ state = "open"
    /\ IF CanFree(links, links.head[NULL])
       THEN /\ alive' = alive \ Tree
            /\ files' = files \ Tree
            /\ meta' = meta \ Tree
            /\ buffers' = buffers \ Tree
            /\ double_free' = (double_free \/ Tree \cap meta # {})
            /\ parent_dir' = [x \in Entries |-> IF x \in Tree THEN NULL ELSE parent_dir[x]]
            /\ size' = [x \in Entries |-> IF x \in Tree THEN 0 ELSE size[x]]
            /\ links' = NoLinks
            /\ data_size' = 0
            /\ state' = "closed"
       ELSE Fault("corrupt")

\* Clients get at entries through ba_get() and ba_get_entries().
Handles == Tree \cap alive

Step ==
    \/ \E e \in Entries, d \in (Handles \cap dirs) \cup {NULL} :
         \/ \E s \in Sizes : ba_add_file(d, e, s)
         \/ \E found \in BOOLEAN : ba_add_dir(d, e, found)
    \/ \E e \in Handles \cap files :
         \/ ba_get_file_contents(e)
         \/ \E s \in Sizes : ba_set_file_contents(e, s)
    \/ \E e \in Handles : ba_remove(e)
    \/ \E src \in Handles, dest \in Handles :
         ba_move_into_dir(src, dest) \/ ba_move_onto_file(src, dest)
    \/ ba_save
    \/ ba_close

Next == Step /\ data_size' \in -MaxDataSize .. MaxDataSize

Spec == Init /\ [][Next]_vars

(***************************************************************************)
(* Properties.                                                             *)
(***************************************************************************)
TypeOK ==
    /\ alive \subseteq Entries /\ files \subseteq alive /\ meta \subseteq alive
    /\ buffers \subseteq Entries
    /\ parent_dir \in [Entries -> Pointer]
    /\ links \in Links
    /\ size \in [Entries -> Nat]
    /\ data_size \in Int
    /\ double_free \in BOOLEAN
    /\ state \in States

\* No call ends in a null dereference, a freed entry or an endless walk
\* (box_archive.c, all callers of the list functions).
NoFault == state \in {"open", "closed"}

\* The entries that can be reached from the root are exactly the live ones:
\* no call loses an entry, none leaves a pointer to a freed one.
NoneLost == NoFault => Tree = alive

\* A live entry is pointed to by one ->next or ->child_entries, never by two:
\* no entry is in two directories, no list runs into another or into itself.
SingleReferrer == Unshared(links, Entries, Pointer)

\* Only ba_move() of the entry itself makes its parent_dir wrong: whatever else
\* happens in the archive, an entry is found where parent_dir says.
StaleOnlyByMove ==
    [][\A e \in alive \cap alive' :
         InOwnList(e) => \/ InOwnList(e)'
                         \/ \E d \in alive : ba_move_into_dir(e, d) \/ ba_move_onto_file(e, d)]_vars

Drift == data_size - Total(Tree)

\* __data_size is the sum of the file sizes but for three kinds of calls, each wrong
\* by what it forgets: what was below a removed directory, the change in the size of
\* contents that are set, the file that is moved onto another and counted again.
\* ba_save() puts it right (box_archive.c:244, :799, :837, :1084).
DriftExplained ==
    [][NoFault' =>
         \/ Drift' = Drift
         \/ (ba_save \/ ba_close) /\ Drift' = 0
         \/ \E d \in dirs : ba_remove(d) /\ Drift' = Drift + Total(Below(links, d))
         \/ \E f \in files, s \in Sizes :
              ba_set_file_contents(f, s) /\ Drift' = Drift + size[f] - s
         \/ \E src \in files, dest \in files :
              ba_move_onto_file(src, dest) /\ Drift' = Drift + size[src]]_vars

\* After ba_close() nothing of the archive is left in memory.
ClosedMeansFreed == state = "closed" => alive = {} /\ buffers = {}

\* No block is freed twice.
NoDoubleFree == ~ double_free

\* The list of every directory ends in a null pointer.
ListsEnd == \A d \in dirs \cup {NULL} : Terminates(links.next, links.head[d])

\* The tree implements the abstract directory tree.
Place(e) == CHOOSE d \in Pointer : e \in Listed(links, d)
Abstract == INSTANCE DirTree WITH where <- [e \in Tree |-> Place(e)]
ImplementsDirTree == Abstract!Spec
=============================================================================
