----------------------------- MODULE BoxArchive -----------------------------
(***************************************************************************)
(* Where the contents of an archive's files are, and what ba_save() and    *)
(* ba_open() make of them: the buffer, the source file on the filesystem,  *)
(* the data chunk of the archive file; __start and __old_start; the FILE*  *)
(* of the archive with its unwritten output; and the archive file itself.  *)
(*                                                                         *)
(* An archive file is a sequence of cells: the magic number, the header    *)
(* (one cell), the second byte of the end-of-header marker, the bytes of   *)
(* the data chunk, the two bytes of the end-of-file marker.  The tree is   *)
(* the files of the root and one directory, SubNames being the files of    *)
(* that directory; EntryTree models the tree itself.  The client names     *)
(* files uniquely, and no path is both a source file and an archive.       *)
(*                                                                         *)
(* Calls names what the client and its surroundings do beyond opening,     *)
(* changing, saving once and closing:                                      *)
(*   "add_then_overwrite"  saving over the open archive while a file added *)
(*                         with a source has not been read into its buffer *)
(*   "use_after_save"      going on with an archive after ba_save()        *)
(*   "failing_save"        saving to a path that cannot be opened for      *)
(*                         writing, or with too large a header             *)
(*   "empty_new"           reading a zero-byte file never saved            *)
(*   "source_changes", "source_gone"   another program rewrites or deletes *)
(*                         the source of an added file                     *)
(*   "torn"                opening what a crash left of an archive         *)
(***************************************************************************)
EXTENDS Naturals, Integers, Sequences, FiniteSets, SequencesExt, SizeSum

CONSTANTS
    Names, SubNames,      \* of files; of those in the directory
    Bytes,                \* byte values
    Sources,              \* the source files: a map from paths to contents
    Archives,             \* paths of archives
    Unwritable,           \* those that fopen() cannot open for writing
    MaxFiles,             \* with more files the XML header is too large
    Replacements,         \* contents the client or another program sets
    BufSize,              \* cells that the C library writes to the disk at once
    HeapResidue,          \* malloc() returns memory that is not all zero
    Calls,
    NULL, MISSING, MAGIC, MARK, NUL, JUNK, WILD

ASSUME NamesAssumption == SubNames \subseteq Names /\ IsFiniteSet(Names)
ASSUME PathsAssumption ==
    /\ DOMAIN Sources \cap Archives = {}
    /\ Unwritable \subseteq Archives
    /\ {NULL, WILD} \cap (DOMAIN Sources \cup Archives) = {}
ASSUME BytesAssumption ==
    /\ \A p \in DOMAIN Sources : Sources[p] \in Seq(Bytes)
    /\ Replacements \subseteq Seq(Bytes)
    /\ MaxFiles \in Nat /\ BufSize \in Nat \ {0} /\ HeapResidue \in BOOLEAN

Contents == Seq(Bytes)

\* The header of an archive with the files N, in the order of their lists; the
\* cells of archive files; the streams that they are read and written through.
Header(N) == [root : Seq(Names), sub : Seq(Names), at : [N -> [size : Nat, start : Nat]]]
Cells     == Bytes \cup {MAGIC, MARK, NUL, JUNK}
AnyCell   == Cells \cup UNION {Header(N) : N \in SUBSET Names}
Streams   == [path : Archives, mode : {"r", "w"}, pos : Nat, pending : Seq(AnyCell)]

\* Null pointers and missing files are told from what else may be in their place.
ASSUME ValuesAssumption ==
    /\ NULL \notin {WILD} \cup Seq(Cells) \cup Streams
    /\ MISSING \notin Seq(AnyCell)
    /\ \A N \in SUBSET Names :
         /\ NULL \notin [N -> Seq(Cells)] \cup [path : Archives, map : [N -> Seq(Cells)]]
         /\ NUL \notin Header(N)

VARIABLES
    disk,       \* the cells of the file at each path, or MISSING
    status,     \* "none", "open", "saving" (inside ba_save), "crash" (undefined behaviour)
    loc, file,  \* arch->loc, arch->file
    root, sub,  \* the file entries of the root and of the directory, in list order
    loaded,     \* the tree comes from a header: files stand before the directory
    entry,      \* the ba_Entry and ba_File members of each name present
    out, todo,  \* ba_save: outfile, and the entries it has not come to
    put,        \* history: the contents the client gave to each name
    written     \* history: put at the last ba_save() of this archive, or NULL

tree == <<root, sub, loaded>>
vars == <<disk, status, loc, file, tree, entry, out, todo, put, written>>

Paths   == DOMAIN Sources \cup Archives
Present == DOMAIN entry
Nothing == [n \in {} |-> NULL]

\* The order in which every recursion over the tree comes to the files.  A new
\* archive gets its directory before the files.
Order == IF loaded THEN root \o sub ELSE sub \o root

Total(E, S) == SizeSum([n \in S |-> E[n].size], S)

\* Mutant of Before: off by one, the file itself is counted.
Before_inclusive(n) == {Order[i] : i \in {i \in DOMAIN Order : n \notin {Order[j] : j \in 1 .. i - 1}}}

\* The files the recursion comes to before it comes to n.
Before(n) == {Order[i] : i \in {i \in DOMAIN Order : n \notin {Order[j] : j \in 1 .. i}}}

(***************************************************************************)
(* Streams and the archive file.  The C library writes what is put into a  *)
(* stream to the disk in blocks of BufSize, the rest when it is closed.    *)
(***************************************************************************)
Stream(p, m) == [path |-> p, mode |-> m, pos |-> 0, pending |-> <<>>]

Overwrite(old, pos, cells) ==
    [i \in 1 .. Max({Len(old), pos + Len(cells)}) |->
        CASE i \in pos + 1 .. pos + Len(cells) -> cells[i - pos]
          [] i \in 1 .. pos /\ i > Len(old)    -> NUL
          [] OTHER                             -> old[i]]

\* Disk d once the first k pending cells of stream s are written, and s then.
Flushed(d, s, k) == [d EXCEPT ![s.path] = Overwrite(@, s.pos, SubSeq(s.pending, 1, k))]
Drained(s, k)    == [s EXCEPT !.pos = @ + k, !.pending = SubSeq(@, k + 1, Len(@))]

\* Cells are put into s, fputc() and fwrite(): full blocks go to the disk.
Write(d, s, cells) ==
    LET t    == [s EXCEPT !.pending = @ \o cells]
        full == (Len(t.pending) \div BufSize) * BufSize
    IN  [disk |-> Flushed(d, t, full), stream |-> Drained(t, full)]

\* fclose()
Closed(d, s) == IF s = NULL \/ s.mode = "r" THEN d ELSE Flushed(d, s, Len(s.pending))

ChunkStart == 3

\* At most size cells of the data chunk from offset start, as fgetc() finds them.
Chunk(cells, start, size) ==
    SubSeq(cells, ChunkStart + start + 1, Min({Len(cells), ChunkStart + start + size}))

\* What reading from a stream gives: a stream opened with "w" cannot be read.
Read(s, start, size) ==
    IF s.mode = "w" THEN <<>> ELSE Chunk(disk[s.path], start, size)

\* The names and contents an archive file holds; NULL when it is not complete.
Parse(cells) ==
    IF cells = MISSING \/ Len(cells) < ChunkStart \/ cells[2] = NUL THEN NULL
    ELSE LET at == cells[2].at
         IN  IF \E n \in DOMAIN at : ChunkStart + at[n].start + at[n].size > Len(cells) THEN NULL
             ELSE [n \in DOMAIN at |-> Chunk(cells, at[n].start, at[n].size)]

\* The file of stream s with everything that is still to be written.
Image(s) == Closed(disk, s)[s.path]

saved == file # NULL /\ file.mode = "w"

\* Where the contents of a file are: buffer, source, archive, or nowhere.
ContentsOf(n) ==
    LET e     == entry[n]
        start == IF status = "saving" THEN e.old_start ELSE e.start
    IN  IF e.buffer # NULL THEN e.buffer
        ELSE IF e.orig_loc = WILD THEN JUNK
        ELSE IF e.orig_loc # NULL THEN disk[e.orig_loc]
        ELSE IF start >= 0 /\ file # NULL THEN Read(file, start, e.size)
        ELSE <<>>

Fault ==
    /\ status' = "crash"
    /\ UNCHANGED <<disk, loc, file, tree, entry, out, todo, put, written>>

Init ==
    /\ disk = [p \in Paths |-> IF p \in DOMAIN Sources THEN Sources[p] ELSE MISSING]
    /\ status = "none"
    /\ loc = NULL /\ file = NULL
    /\ root = <<>> /\ sub = <<>> /\ loaded = FALSE
    /\ entry = Nothing /\ put = Nothing
    /\ out = NULL /\ todo = <<>> /\ written = NULL

\* The client may change or read the archive.
Usable == status = "open" /\ (saved => "use_after_save" \in Calls)

(***************************************************************************)
(* ba_new, ba_open, ba_close.                                              *)
(***************************************************************************)
ba_new ==
    /\ status = "none"
    /\ status' = "open"
    /\ UNCHANGED <<disk, loc, file, tree, entry, out, todo, put, written>>

\* __ba_get_file_metadata() leaves ->__orig_loc as malloc() returned it.
LoadedEntry(at, orig) ==
    [orig_loc |-> orig, buffer |-> NULL, size |-> at.size, start |-> at.start, old_start |-> -1]

\* Mutant of ba_open: the file is opened with "w+", which empties it.
ba_open_truncating(p) ==
    /\ status = "none"
    /\ disk[p] \notin {MISSING, <<>>}
    /\ disk' = [disk EXCEPT ![p] = <<>>]
    /\ status' = "open"
    /\ loc' = p
    /\ file' = Stream(p, "r")
    /\ UNCHANGED <<tree, entry, out, todo, put, written>>

\* What malloc() may leave in a pointer that is not initialised.
Unset == IF HeapResidue THEN {NULL, WILD} ELSE {NULL}

\* A missing or empty file is refused and changes nothing.  entry_tree is not
\* initialised: entries are added to whatever it points to, and a file without
\* entries in its header leaves it as it is.
ba_open(p) ==
    /\ status = "none"
    /\ disk[p] \notin {MISSING, <<>>}
    /\ Parse(disk[p]) = NULL => "torn" \in Calls
    /\ \E entry_tree \in Unset :
         IF entry_tree = WILD \/ Len(disk[p]) < 2 \/ disk[p][2] = NUL
         THEN Fault
         ELSE LET header == disk[p][2]
              IN  /\ status' = "open"
                  /\ loc' = p
                  /\ file' = Stream(p, "r")
                  /\ root' = header.root /\ sub' = header.sub /\ loaded' = TRUE
                  /\ \E orig \in Unset :
                       entry' = [n \in DOMAIN header.at |-> LoadedEntry(header.at[n], orig)]
                  /\ put' = IF Parse(disk[p]) = NULL
                            THEN [n \in DOMAIN header.at |-> JUNK] ELSE Parse(disk[p])
                  /\ UNCHANGED <<disk, out, todo, written>>

Gone ==
    /\ status' = "none"
    /\ loc' = NULL /\ file' = NULL
    /\ root' = <<>> /\ sub' = <<>> /\ loaded' = FALSE
    /\ entry' = Nothing /\ put' = Nothing
    /\ out' = NULL /\ todo' = <<>> /\ written' = NULL

\* free() of an uninitialised pointer is undefined.
Wild == {n \in Present : entry[n].orig_loc = WILD}

ba_close ==
    /\ status = "open"
    /\ IF Wild = {} THEN Gone /\ disk' = Closed(disk, file) ELSE Fault

(***************************************************************************)
(* Changing the archive.                                                   *)
(***************************************************************************)
\* src = NULL: a zero-byte file.  With a missing source nothing is added.
ba_add_file(n, src) ==
    /\ Usable
    /\ n \notin Present
    /\ src # NULL => disk[src] # MISSING
    /\ LET contents == IF src = NULL THEN <<>> ELSE disk[src]
           new == [orig_loc |-> src, buffer |-> NULL, size |-> Len(contents),
                   start |-> -1, old_start |-> -1]
       IN  /\ entry' = [m \in Present \cup {n} |-> IF m = n THEN new ELSE entry[m]]
           /\ put' = [m \in Present \cup {n} |-> IF m = n THEN contents ELSE put[m]]
    /\ IF n \in SubNames
       THEN sub' = Append(sub, n) /\ UNCHANGED root
       ELSE root' = Append(root, n) /\ UNCHANGED sub
    /\ UNCHANGED <<disk, status, loc, file, loaded, out, todo, written>>

\* Mutant of Unlinked: entries are looked for in the root only.
Unlinked_root_only(list, n) == IF list = sub THEN list ELSE RemoveFirst(list, n)

Unlinked(list, n) == RemoveFirst(list, n)

ba_remove(n) ==
    /\ Usable
    /\ n \in Present \ Wild
    /\ entry' = [m \in Present \ {n} |-> entry[m]]
    /\ put' = [m \in Present \ {n} |-> put[m]]
    /\ root' = Unlinked(root, n)
    /\ sub' = Unlinked(sub, n)
    /\ UNCHANGED <<disk, status, loc, file, loaded, out, todo, written>>

ba_set_file_contents(n, c) ==
    /\ Usable
    /\ n \in Present
    /\ entry' = [entry EXCEPT ![n].buffer = c, ![n].size = Len(c)]
    /\ put' = [put EXCEPT ![n] = c]
    /\ UNCHANGED <<disk, status, loc, file, tree, out, todo, written>>

(***************************************************************************)
(* Reading contents into the buffer.                                       *)
(***************************************************************************)
\* A buffer of malloc(size), of which bytes were filled.
Buffer(bytes, size) ==
    [i \in 1 .. size |-> IF i <= Len(bytes) THEN bytes[i] ELSE JUNK]

\* __ba_buffer_file, with the archive's file open
__ba_buffer_file(e) ==
    IF e.buffer # NULL THEN e
    ELSE [e EXCEPT !.buffer = Buffer(Read(file, e.start, e.size), e.size)]

ba_get_file_contents(n) ==
    /\ Usable
    /\ n \in Present
    /\ LET e == entry[n]
           Load(new) == /\ entry' = [entry EXCEPT ![n] = new]
                        /\ UNCHANGED <<disk, status, loc, file, tree, out, todo, put, written>>
       IN  CASE e.buffer # NULL -> Load(e)
             [] e.buffer = NULL /\ e.orig_loc = WILD -> Fault
             [] e.buffer = NULL /\ e.orig_loc \notin {NULL, WILD} ->
                  IF disk[e.orig_loc] = MISSING THEN Fault
                  ELSE Load([e EXCEPT !.buffer = Buffer(disk[e.orig_loc], e.size)])
             [] e.buffer = NULL /\ e.orig_loc = NULL ->
                  IF file = NULL THEN "empty_new" \in Calls /\ Fault  \* fseek(NULL, ...)
                  ELSE Load(__ba_buffer_file(e))

(***************************************************************************)
(* ba_save: buffering, __ba_rearrange, __ba_create_header and the opening  *)
(* of the output in one step, then one step per file entry, and the end.   *)
(***************************************************************************)
\* Mutant of __ba_buffer_entries: nothing is read before the file is overwritten.
__ba_buffer_entries_not(p) == entry

__ba_buffer_entries(p) ==
    IF loc = p THEN [n \in Present |-> __ba_buffer_file(entry[n])] ELSE entry

\* Mutant of __ba_rearrange: the old starts are not saved.
__ba_rearrange_forgets(E) == [n \in Present |-> [E[n] EXCEPT !.start = Total(E, Before(n))]]

__ba_rearrange(E) ==
    [n \in Present |-> [E[n] EXCEPT !.old_start = E[n].start, !.start = Total(E, Before(n))]]

\* Mutant of __ba_create_header: the recursion into the directory is forgotten.
__ba_create_header_root(E) ==
    [root |-> root, sub |-> <<>>,
     at |-> [n \in ToSet(root) |-> [size |-> E[n].size, start |-> E[n].start]]]

__ba_create_header(E) ==
    [root |-> root, sub |-> sub,
     at |-> [n \in Present |-> [size |-> E[n].size, start |-> E[n].start]]]

Unread(n) == entry[n].orig_loc # NULL /\ entry[n].buffer = NULL

ba_save(p) ==
    LET arranged == __ba_rearrange(__ba_buffer_entries(p))
        fits     == Cardinality(Present) <= MaxFiles
        opened   == Write([disk EXCEPT ![p] = <<>>], Stream(p, "w"),
                          <<MAGIC, __ba_create_header(arranged), MARK>>)
    IN  /\ Usable
        /\ loc = p /\ (\E n \in Present : Unread(n)) => "add_then_overwrite" \in Calls
        /\ p \in Unwritable \/ ~ fits => "failing_save" \in Calls
        /\ entry' = arranged
        /\ CASE p \in Unwritable ->
                  UNCHANGED <<disk, status, out, todo, written>>
             [] p \notin Unwritable /\ ~ fits ->
                  /\ disk' = [disk EXCEPT ![p] = <<MAGIC>>]
                  /\ UNCHANGED <<status, out, todo, written>>
             [] p \notin Unwritable /\ fits ->
                  /\ disk' = opened.disk
                  /\ out' = opened.stream
                  /\ todo' = Order
                  /\ status' = "saving"
                  /\ written' = put
        /\ UNCHANGED <<loc, file, tree, put>>

\* Mutant of FromArchive: off by one, -1 passes for an offset.
FromArchive_unset(e) == e.buffer = NULL /\ e.orig_loc = NULL /\ e.old_start >= -1

FromArchive(e) == e.buffer = NULL /\ e.orig_loc = NULL /\ e.old_start >= 0

\* What the three sources of an entry give, and whether the save goes on.
Given(bytes, ok) == [bytes |-> bytes, ok |-> ok]

FromOrigLoc(e) ==
    IF e.orig_loc = WILD \/ disk[e.orig_loc] = MISSING
    THEN Given(<<>>, FALSE) ELSE Given(disk[e.orig_loc], TRUE)

FromChunk(e) ==
    LET bytes == Read(file, e.old_start, e.size) IN Given(bytes, Len(bytes) = e.size)

\* Mutant of Source: the source file goes before the buffer.
Source_orig_first(e) ==
    CASE e.orig_loc # NULL                    -> FromOrigLoc(e)
      [] e.orig_loc = NULL /\ e.buffer # NULL -> Given(e.buffer, TRUE)
      [] FromArchive(e)                       -> FromChunk(e)
      [] OTHER                                -> Given(<<>>, TRUE)

\* What __ba_save_entry_dir() writes for an entry: the buffer goes before the
\* source file, the source file before the data chunk.
Source(e) ==
    CASE e.buffer # NULL                      -> Given(e.buffer, TRUE)
      [] e.buffer = NULL /\ e.orig_loc # NULL -> FromOrigLoc(e)
      [] FromArchive(e)                       -> FromChunk(e)
      [] OTHER                                -> Given(<<>>, TRUE)

\* After an error the rest of the entry's directory is not written.  The files of
\* the root come after it in an archive that is new.
Rest(n) == IF n \in SubNames /\ ~ loaded THEN root ELSE <<>>

__ba_save_entry_dir ==
    /\ status = "saving"
    /\ todo # <<>>
    /\ LET e    == entry[Head(todo)]
           from == Source(e)
       IN  IF FromArchive(e) /\ file = NULL
           THEN Fault                                       \* fseek(NULL, ...)
           ELSE /\ disk' = Write(disk, out, from.bytes).disk
                /\ out' = Write(disk, out, from.bytes).stream
                /\ todo' = IF from.ok THEN Tail(todo) ELSE Rest(Head(todo))
                /\ UNCHANGED <<status, loc, file, tree, entry, put, written>>

\* The end of __ba_create_archive_file.
SaveEnd ==
    /\ status = "saving"
    /\ todo = <<>>
    /\ LET ended == Write(disk, out, <<NUL, MARK>>)
       IN  /\ disk' = Closed(ended.disk, file)
           /\ file' = ended.stream
    /\ loc' = out.path
    /\ out' = NULL
    /\ status' = "open"
    /\ UNCHANGED <<tree, entry, todo, put, written>>

(***************************************************************************)
(* Other programs, and the end of the process.                             *)
(***************************************************************************)
SourceChanges ==
    /\ \E p \in DOMAIN Sources, new \in
            (IF "source_gone" \in Calls THEN {MISSING} ELSE {}) \cup
            (IF "source_changes" \in Calls THEN Replacements ELSE {}) :
         disk' = [disk EXCEPT ![p] = new]
    /\ UNCHANGED <<status, loc, file, tree, entry, out, todo, put, written>>

Crash ==
    /\ status \in {"open", "saving"}
    /\ Gone
    /\ UNCHANGED disk

Next ==
    \/ ba_new
    \/ \E p \in Archives : ba_open(p) \/ ba_save(p)
    \/ ba_close
    \/ \E n \in Names :
         \/ \E src \in DOMAIN Sources \cup {NULL} : ba_add_file(n, src)
         \/ ba_remove(n)
         \/ \E c \in Replacements : ba_set_file_contents(n, c)
         \/ ba_get_file_contents(n)
    \/ __ba_save_entry_dir
    \/ SaveEnd
    \/ SourceChanges
    \/ Crash

Spec == Init /\ [][Next]_vars

(***************************************************************************)
(* Properties.                                                             *)
(***************************************************************************)
\* No call runs into undefined behaviour.
NoCrash == status # "crash"

EntryOK(e) ==
    /\ e \in [orig_loc : DOMAIN Sources \cup {NULL, WILD}, buffer : {NULL} \cup Seq(Cells),
              size : Nat, start : Nat \cup {-1}, old_start : Nat \cup {-1}]
    /\ e.buffer # NULL => Len(e.buffer) = e.size

TypeOK ==
    /\ DOMAIN disk = Paths
    /\ status \in {"none", "open", "saving", "crash"}
    /\ loc \in Archives \cup {NULL}
    /\ (file = NULL) = (loc = NULL)
    /\ ToSet(root) \cup ToSet(sub) = Present /\ Present \subseteq Names
    /\ ToSet(root) \cap ToSet(sub) = {}
    /\ \A n \in Present : EntryOK(entry[n])
    /\ DOMAIN put = Present
    /\ NoCrash => (out # NULL) = (status = "saving")
    /\ ToSet(todo) \subseteq Present

\* Every file still has the contents the client gave it, wherever they are,
\* until the archive is saved and while it is being saved.
ContentsKept ==
    status \in {"open", "saving"} /\ ~ saved => \A n \in Present : ContentsOf(n) = put[n]

\* What ba_save() has written, once all of it is on the disk, is an archive
\* with the names and contents that the client put into it.
SavedWhole == status = "open" /\ saved => Parse(Image(file)) = written

\* After ba_save() the files can be read as before.
ReadableAfterSave == status = "open" /\ saved => \A n \in Present : ContentsOf(n) = put[n]

\* While the data chunk is written, it has grown to just where the next entry
\* starts according to the header.
ChunkAtStart ==
    status = "saving" /\ todo # <<>> =>
        Len(Image(out)) = ChunkStart + entry[Head(todo)].start

\* Whatever fails while saving, only the file that is saved to is written: the
\* archive the contents come from and the source files stay as they are.
OnlyTargetWritten ==
    [][\A p \in Archives : disk'[p] # disk[p] =>
          \/ ba_save(p)
          \/ status = "saving" /\ out.path = p
          \/ file # NULL /\ file.mode = "w" /\ file.path = p]_vars

\* Whatever fails while the data chunk is written, the header of the saved
\* archive lists all files, those without contents included.
HeaderListsAll ==
    status = "open" /\ saved => DOMAIN Image(file)[2].at = DOMAIN written

\* The archive implements the abstract store.
StoreContents ==
    IF status \in {"none", "crash"} THEN NULL
    ELSE IF status = "open" /\ saved THEN Parse(Image(file))
    ELSE [n \in Present |-> ContentsOf(n)]

StoreTarget ==
    IF status = "saving" THEN [path |-> out.path, map |-> StoreContents]
    ELSE IF status = "open" /\ saved THEN [path |-> file.path, map |-> StoreContents]
    ELSE NULL

StoredMaps == [p \in Archives |-> Parse(disk[p])]

Store == INSTANCE ArchiveStore WITH
    Contents <- Contents,
    Paths    <- Archives,
    contents <- StoreContents,
    target   <- StoreTarget,
    stored   <- StoredMaps
ImplementsStore == Store!Spec
=============================================================================
