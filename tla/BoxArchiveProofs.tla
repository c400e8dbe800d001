--------------------------- MODULE BoxArchiveProofs ---------------------------
(***************************************************************************)
(* What saving writes, and where, whatever else goes wrong; what is at any *)
(* time on the disk and in memory; that nothing is lost, and that the      *)
(* archive implements ArchiveStore.                                        *)
(***************************************************************************)
EXTENDS BoxArchive, SizeSumProofs, SequenceTheorems

(***************************************************************************)
(* Sequences.                                                              *)
(***************************************************************************)
LEMMA MaxOfTwo == ASSUME NEW a \in Int, NEW b \in Int PROVE Max({a, b}) = IF a >= b THEN a ELSE b
<1> DEFINE m == IF a >= b THEN a ELSE b
<1>1. m \in {a, b} /\ \A y \in {a, b} : m >= y
  OBVIOUS
<1>2. \A x \in {a, b} : (\A y \in {a, b} : x >= y) => x = m
  OBVIOUS
<1> QED  BY <1>1, <1>2 DEF Max

LEMMA MinOfTwo == ASSUME NEW a \in Int, NEW b \in Int PROVE Min({a, b}) = IF a <= b THEN a ELSE b
<1> DEFINE m == IF a <= b THEN a ELSE b
<1>1. m \in {a, b} /\ \A y \in {a, b} : m <= y
  OBVIOUS
<1>2. \A x \in {a, b} : (\A y \in {a, b} : x <= y) => x = m
  OBVIOUS
<1> QED  BY <1>1, <1>2 DEF Min

\* Writing at the end of a file appends.
LEMMA OverwriteAppends ==
    ASSUME NEW C, NEW old \in Seq(C), NEW cells \in Seq(C)
    PROVE  Overwrite(old, Len(old), cells) = old \o cells
<1> DEFINE n == Len(old) + Len(cells)
           o == Overwrite(old, Len(old), cells)
<1>1. Len(old) \in Nat /\ Len(cells) \in Nat
  BY LenProperties
<1>2. Max({Len(old), n}) = n
  BY <1>1, MaxOfTwo
<1>3. \A i \in 1 .. n : i \notin Len(old) + 1 .. n => i \in 1 .. Len(old)
  BY <1>1
<1>4. \A i \in 1 .. n : i <= Len(old) <=> i \notin Len(old) + 1 .. n
  BY <1>1
<1>5. o = [i \in 1 .. n |-> IF i <= Len(old) THEN old[i] ELSE cells[i - Len(old)]]
  <2>1. o = [i \in 1 .. n |->
               CASE i \in Len(old) + 1 .. n               -> cells[i - Len(old)]
                 [] i \in 1 .. Len(old) /\ i > Len(old)   -> NUL
                 [] OTHER                                 -> old[i]]
    BY <1>2 DEF Overwrite
  <2>2. \A i \in 1 .. n : ~ (i \in 1 .. Len(old) /\ i > Len(old))
    BY <1>1
  <2> QED  BY <1>4, <2>1, <2>2
<1>6. /\ old \o cells \in Seq(C) /\ Len(old \o cells) = n
      /\ \A i \in 1 .. n : (old \o cells)[i] = IF i <= Len(old) THEN old[i] ELSE cells[i - Len(old)]
  BY ConcatProperties
<1>7. old \o cells = [i \in 1 .. n |-> (old \o cells)[i]]
  BY <1>6, LenProperties
<1> QED  BY <1>5, <1>6, <1>7

LEMMA FullBlocks ==
    ASSUME NEW L \in Nat PROVE (L \div BufSize) * BufSize \in 0 .. L
BY BytesAssumption

\* What is put together of the first k elements and the rest is the whole.
LEMMA SplitSeq ==
    ASSUME NEW C, NEW q \in Seq(C), NEW k \in 0 .. Len(q)
    PROVE  /\ SubSeq(q, 1, k) \in Seq(C) /\ Len(SubSeq(q, 1, k)) = k
           /\ SubSeq(q, k + 1, Len(q)) \in Seq(C) /\ Len(SubSeq(q, k + 1, Len(q))) = Len(q) - k
           /\ SubSeq(q, 1, k) \o SubSeq(q, k + 1, Len(q)) = q
<1>1. Len(q) \in Nat /\ \A i \in 1 .. Len(q) : q[i] \in C
  BY LenProperties, ElementOfSeq
<1>2. SubSeq(q, 1, k) \in Seq(C) /\ Len(SubSeq(q, 1, k)) = k
  <2>1. \A i \in 1 .. k : q[i] \in C
    BY <1>1
  <2>2. /\ SubSeq(q, 1, k) \in Seq(C)
        /\ Len(SubSeq(q, 1, k)) = IF 1 <= k THEN k - 1 + 1 ELSE 0
    BY <1>1, <2>1, SubSeqProperties
  <2> QED  BY <2>2
<1>3. SubSeq(q, k + 1, Len(q)) \in Seq(C) /\ Len(SubSeq(q, k + 1, Len(q))) = Len(q) - k
  <2>1. \A i \in k + 1 .. Len(q) : q[i] \in C
    BY <1>1
  <2>2. k + 1 \in Int /\ Len(q) \in Int
    BY <1>1
  <2>3. /\ SubSeq(q, k + 1, Len(q)) \in Seq(C)
        /\ Len(SubSeq(q, k + 1, Len(q))) = IF k + 1 <= Len(q) THEN Len(q) - (k + 1) + 1 ELSE 0
    BY <2>1, <2>2, SubSeqProperties
  <2> QED  BY <1>1, <2>3
<1>4. SubSeq(q, 1, k) \o SubSeq(q, k + 1, Len(q)) = SubSeq(q, 1, Len(q))
  <2>1. 1 \in 1 .. Len(q) + 1 /\ k \in 1 - 1 .. Len(q) /\ Len(q) \in k .. Len(q)
    BY <1>1
  <2> QED  BY <2>1, ConcatAdjacentSubSeq
<1>5. SubSeq(q, 1, Len(q)) = q
  BY SubSeqFull
<1> QED  BY <1>2, <1>3, <1>4, <1>5

(***************************************************************************)
(* Streams.  A file that is written from its start on grows: what is on    *)
(* the disk and what is pending together are what has been put into it.    *)
(***************************************************************************)
Growing(d, s) ==
    /\ s \in Streams
    /\ s.path \in DOMAIN d
    /\ d[s.path] \in Seq(AnyCell)
    /\ s.pos = Len(d[s.path])

Whole(d, s) == d[s.path] \o s.pending

\* Writing to a stream leaves other files alone.
LEMMA WriteElsewhere ==
    ASSUME NEW d, NEW s, NEW cells, DOMAIN s = {"path", "mode", "pos", "pending"}
    PROVE  LET w == Write(d, s, cells)
           IN  /\ DOMAIN w.disk = DOMAIN d
               /\ \A p \in DOMAIN d \ {s.path} : w.disk[p] = d[p]
               /\ DOMAIN w.stream = {"path", "mode", "pos", "pending"}
               /\ w.stream.path = s.path /\ w.stream.mode = s.mode
BY DEF Write, Flushed, Drained

LEMMA ClosedElsewhere ==
    ASSUME NEW d, NEW s
    PROVE  /\ DOMAIN Closed(d, s) = DOMAIN d
           /\ \A p \in DOMAIN d : Closed(d, s)[p] # d[p] => s # NULL /\ s.mode # "r" /\ s.path = p
BY DEF Closed, Flushed

LEMMA CellsAssociative ==
    \A a, b, c \in Seq(AnyCell) : (a \o b) \o c = a \o (b \o c)
BY ConcatAssociative

LEMMA FlushGrows ==
    ASSUME NEW d, NEW s, Growing(d, s), NEW k \in 0 .. Len(s.pending)
    PROVE  /\ Flushed(d, s, k)[s.path] = d[s.path] \o SubSeq(s.pending, 1, k)
           /\ Growing(Flushed(d, s, k), Drained(s, k))
           /\ Whole(Flushed(d, s, k), Drained(s, k)) = Whole(d, s)
<1> DEFINE old  == d[s.path]
           pend == s.pending
           head == SubSeq(pend, 1, k)
           rest == SubSeq(pend, k + 1, Len(pend))
           f    == Flushed(d, s, k)
           t    == Drained(s, k)
<1>1. /\ s \in Streams /\ s.path \in DOMAIN d /\ old \in Seq(AnyCell) /\ pend \in Seq(AnyCell)
      /\ s.pos = Len(old) /\ s.path \in Archives /\ s.mode \in {"r", "w"}
  BY DEF Growing, Streams
<1>2. /\ head \in Seq(AnyCell) /\ Len(head) = k
      /\ rest \in Seq(AnyCell) /\ head \o rest = pend
  BY <1>1, SplitSeq
<1>3. Overwrite(old, s.pos, head) = old \o head
  BY <1>1, <1>2, OverwriteAppends
<1>4. f = [d EXCEPT ![s.path] = old \o head]
  BY <1>3 DEF Flushed
<1>5. t.path = s.path /\ t.mode = s.mode /\ t.pending = rest /\ t.pos = s.pos + k
  BY <1>1 DEF Drained, Streams
<1>6. f[s.path] = old \o head /\ s.path \in DOMAIN f
  BY <1>1, <1>4
<1>7. old \o head \in Seq(AnyCell) /\ Len(old \o head) = s.pos + k
  <2>1. old \o head \in Seq(AnyCell) /\ Len(old \o head) = Len(old) + Len(head)
    <3> HIDE DEF old, head
    <3> QED  BY <1>1, <1>2, ConcatProperties
  <2> QED  BY <1>1, <1>2, <2>1
<1>8. t \in Streams
  <2>1. s.pos + k \in Nat
    BY <1>1, LenProperties
  <2> QED  BY Zenon, <1>1, <1>2, <2>1 DEF Streams, Drained
<1> HIDE DEF f, t, head, rest
<1>9. Growing(f, t)
  BY <1>1, <1>5, <1>6, <1>7, <1>8 DEF Growing
<1>10. (old \o head) \o rest = old \o pend
  <2>1. (old \o head) \o rest = old \o (head \o rest)
    BY Zenon, <1>1, <1>2, CellsAssociative
  <2> QED  BY <1>2, <2>1
<1>11. Whole(f, t) = Whole(d, s)
  BY <1>5, <1>6, <1>10 DEF Whole
<1> QED  BY <1>6, <1>9, <1>11 DEF f, t, head

\* Putting cells into a growing file appends them to the whole.
Grown(w, d, s, cells) ==
    /\ Growing(w.disk, w.stream)
    /\ w.stream.path = s.path /\ w.stream.mode = s.mode
    /\ Whole(w.disk, w.stream) = Whole(d, s) \o cells
    /\ \E more \in Seq(AnyCell) : w.disk[s.path] = d[s.path] \o more

LEMMA WriteGrows ==
    ASSUME NEW d, NEW s, Growing(d, s), NEW cells \in Seq(AnyCell)
    PROVE  Grown(Write(d, s, cells), d, s, cells)
<1> DEFINE t    == [s EXCEPT !.pending = @ \o cells]
           full == (Len(t.pending) \div BufSize) * BufSize
           w    == Write(d, s, cells)
<1>1. /\ s \in Streams /\ s.path \in DOMAIN d
      /\ d[s.path] \in Seq(AnyCell) /\ s.pending \in Seq(AnyCell) /\ s.pos = Len(d[s.path])
  BY DEF Growing, Streams
<1>2. s.pending \o cells \in Seq(AnyCell)
  BY <1>1, ConcatProperties
<1>3. /\ t \in Streams /\ t.path = s.path /\ t.mode = s.mode /\ t.pos = s.pos
      /\ t.pending = s.pending \o cells
  BY <1>1, <1>2 DEF Streams
<1> HIDE DEF t
<1>4. Growing(d, t)
  BY <1>1, <1>3 DEF Growing
<1>5. full \in 0 .. Len(t.pending)
  BY <1>2, <1>3, LenProperties, FullBlocks
<1> HIDE DEF full
<1>6. w.disk = Flushed(d, t, full) /\ w.stream = Drained(t, full)
  BY DEF Write, t, full
<1> HIDE DEF w
<1>7. /\ w.disk[t.path] = d[t.path] \o SubSeq(t.pending, 1, full)
      /\ Growing(w.disk, w.stream) /\ Whole(w.disk, w.stream) = Whole(d, t)
  <2>1. /\ Flushed(d, t, full)[t.path] = d[t.path] \o SubSeq(t.pending, 1, full)
        /\ Growing(Flushed(d, t, full), Drained(t, full))
        /\ Whole(Flushed(d, t, full), Drained(t, full)) = Whole(d, t)
    BY <1>4, <1>5, FlushGrows
  <2> QED  BY <1>6, <2>1
<1>8. Whole(d, t) = Whole(d, s) \o cells
  <2>1. (d[s.path] \o s.pending) \o cells = d[s.path] \o (s.pending \o cells)
    BY Zenon, <1>1, CellsAssociative
  <2> QED  BY <1>3, <2>1 DEF Whole
<1>9. w.stream.path = s.path /\ w.stream.mode = s.mode
  BY <1>3, <1>6 DEF Drained, Streams
<1>10. SubSeq(t.pending, 1, full) \in Seq(AnyCell) /\ w.disk[s.path] = d[s.path] \o SubSeq(t.pending, 1, full)
  BY <1>1, <1>2, <1>3, <1>5, <1>7, SplitSeq
<1>11. Grown(w, d, s, cells)
  BY <1>3, <1>7, <1>8, <1>9, <1>10 DEF Grown
<1> QED  BY <1>11 DEF w

\* Closing a growing file puts the whole on the disk.
LEMMA ClosedGrown ==
    ASSUME NEW d, NEW s, Growing(d, s), s # NULL, s.mode = "w"
    PROVE  Closed(d, s)[s.path] = Whole(d, s)
<1>1. s.pending \in Seq(AnyCell) /\ Len(s.pending) \in 0 .. Len(s.pending)
  BY LenProperties DEF Growing, Streams
<1>2. Flushed(d, s, Len(s.pending))[s.path] = d[s.path] \o SubSeq(s.pending, 1, Len(s.pending))
  BY <1>1, FlushGrows
<1>3. SubSeq(s.pending, 1, Len(s.pending)) = s.pending
  BY <1>1, SubSeqFull
<1> QED  BY <1>2, <1>3 DEF Whole, Closed

(***************************************************************************)
(* Who writes what, whatever the client and its surroundings do.           *)
(***************************************************************************)
IsStream(s) == DOMAIN s = {"path", "mode", "pos", "pending"} /\ s.mode \in {"r", "w"}

StreamsOK ==
    /\ DOMAIN disk = Paths
    /\ status = "saving" => IsStream(out) /\ out.mode = "w"
    /\ file # NULL => IsStream(file)

LEMMA StreamIsStream ==
    ASSUME NEW p, NEW m \in {"r", "w"}
    PROVE  IsStream(Stream(p, m)) /\ Stream(p, m).mode = m /\ Stream(p, m).path = p
BY DEF IsStream, Stream

\* What one step does to the streams and to the files on the disk.
StepWrites ==
    \A p \in Archives : disk'[p] # disk[p] =>
        \/ ba_save(p)
        \/ status = "saving" /\ out.path = p
        \/ file # NULL /\ file.mode = "w" /\ file.path = p

LEMMA QuietStep ==
    ASSUME StreamsOK, disk' = disk, file' = file,
           status' = "saving" => status = "saving" /\ out' = out
    PROVE  StreamsOK' /\ StepWrites
BY DEF StreamsOK, StepWrites

LEMMA FaultStep == ASSUME StreamsOK, Fault PROVE StreamsOK' /\ StepWrites
BY QuietStep DEF Fault

LEMMA OpenStep ==
    ASSUME StreamsOK, NEW p, ba_open(p) PROVE StreamsOK' /\ StepWrites
<1>1. CASE file' = Stream(p, "r") /\ disk' = disk /\ status' = "open"
  BY <1>1, StreamIsStream DEF StreamsOK, StepWrites
<1> QED  BY <1>1, FaultStep DEF ba_open

LEMMA CloseStep ==
    ASSUME StreamsOK, ba_close PROVE StreamsOK' /\ StepWrites
<1>1. CASE Gone /\ disk' = Closed(disk, file)
  BY <1>1, ClosedElsewhere DEF Gone, StreamsOK, StepWrites, IsStream, Paths
<1> QED  BY <1>1, FaultStep DEF ba_close

LEMMA SaveStep ==
    ASSUME StreamsOK, NEW p \in Archives, ba_save(p) PROVE StreamsOK' /\ StepWrites
<1> DEFINE new    == [disk EXCEPT ![p] = <<>>]
           header == <<MAGIC, __ba_create_header(__ba_rearrange(__ba_buffer_entries(p))), MARK>>
           opened == Write(new, Stream(p, "w"), header)
<1>0. p \in Paths /\ DOMAIN disk = Paths
  BY DEF StreamsOK, Paths
<1> HIDE DEF header
<1>1. /\ DOMAIN opened.disk = DOMAIN new
      /\ \A q \in DOMAIN new \ {p} : opened.disk[q] = new[q]
      /\ IsStream(opened.stream) /\ opened.stream.mode = "w"
  <2>1. IsStream(Stream(p, "w")) /\ Stream(p, "w").mode = "w" /\ Stream(p, "w").path = p
    BY StreamIsStream
  <2> DEFINE s == Stream(p, "w")
  <2> HIDE DEF new, s
  <2>2. /\ DOMAIN Write(new, s, header).disk = DOMAIN new
        /\ \A q \in DOMAIN new \ {p} : Write(new, s, header).disk[q] = new[q]
        /\ IsStream(Write(new, s, header).stream) /\ Write(new, s, header).stream.mode = "w"
    BY <2>1, WriteElsewhere DEF IsStream, s
  <2> QED  BY <2>2 DEF s
<1> HIDE DEF opened
<1>2. file' = file
  BY DEF ba_save
<1>3. \/ disk' = disk /\ status' = status /\ out' = out
      \/ disk' = [disk EXCEPT ![p] = <<MAGIC>>] /\ status' = status /\ out' = out
      \/ disk' = opened.disk /\ out' = opened.stream
  BY DEF ba_save, opened, header
<1>4. StreamsOK'
  <2>1. DOMAIN disk' = Paths
    BY <1>0, <1>1, <1>3
  <2>2. status' = "saving" => IsStream(out') /\ out'.mode = "w"
    BY <1>1, <1>3 DEF StreamsOK
  <2> QED  BY <1>2, <2>1, <2>2 DEF StreamsOK, IsStream
<1>5. \A q \in Archives \ {p} : disk'[q] = disk[q]
  BY <1>0, <1>1, <1>3 DEF Paths
<1> QED  BY <1>4, <1>5 DEF StepWrites

LEMMA EntryStep ==
    ASSUME StreamsOK, __ba_save_entry_dir PROVE StreamsOK' /\ StepWrites
<1> DEFINE bytes == Source(entry[Head(todo)]).bytes
           w     == Write(disk, out, bytes)
<1>1. CASE Fault
  BY <1>1, FaultStep
<1>2. CASE disk' = w.disk /\ out' = w.stream /\ UNCHANGED <<status, file>>
  <2>1. DOMAIN disk = Paths /\ IsStream(out) /\ out.mode = "w"
    BY DEF StreamsOK, __ba_save_entry_dir
  <2> HIDE DEF bytes
  <2>2. /\ DOMAIN w.disk = DOMAIN disk
        /\ \A q \in DOMAIN disk \ {out.path} : w.disk[q] = disk[q]
        /\ IsStream(w.stream) /\ w.stream.mode = "w"
    BY <2>1, WriteElsewhere DEF IsStream
  <2> HIDE DEF w
  <2>3. status = "saving"
    BY DEF __ba_save_entry_dir
  <2> QED  BY <1>2, <2>1, <2>2, <2>3 DEF StreamsOK, StepWrites, Paths, IsStream
<1> HIDE DEF bytes
<1> QED  BY <1>1, <1>2 DEF __ba_save_entry_dir, bytes

LEMMA EndStep ==
    ASSUME StreamsOK, SaveEnd PROVE StreamsOK' /\ StepWrites
<1> DEFINE w == Write(disk, out, <<NUL, MARK>>)
<1>1. /\ disk' = Closed(w.disk, file) /\ file' = w.stream
      /\ status = "saving" /\ status' = "open"
  BY DEF SaveEnd
<1>2. DOMAIN disk = Paths /\ IsStream(out) /\ out.mode = "w"
  BY <1>1 DEF StreamsOK
<1>3. /\ DOMAIN w.disk = DOMAIN disk
      /\ \A q \in DOMAIN disk \ {out.path} : w.disk[q] = disk[q]
      /\ IsStream(w.stream)
  BY <1>2, WriteElsewhere DEF IsStream
<1> HIDE DEF w
<1>4. /\ DOMAIN disk' = DOMAIN w.disk
      /\ \A q \in DOMAIN w.disk : disk'[q] # w.disk[q] =>
            file # NULL /\ file.mode # "r" /\ file.path = q
  BY <1>1, ClosedElsewhere
<1> QED  BY <1>1, <1>2, <1>3, <1>4 DEF StreamsOK, StepWrites, Paths, IsStream

LEMMA OtherStep ==
    ASSUME StreamsOK, SourceChanges \/ Crash PROVE StreamsOK' /\ StepWrites
<1>1. CASE SourceChanges
  <2>1. PICK p \in DOMAIN Sources : \E new : disk' = [disk EXCEPT ![p] = new]
    BY <1>1 DEF SourceChanges
  <2>2. \A q \in Archives : disk'[q] = disk[q]
    BY <2>1, PathsAssumption DEF StreamsOK, Paths
  <2> QED  BY <1>1, <2>1, <2>2 DEF SourceChanges, StreamsOK, StepWrites
<1>2. CASE Crash
  BY <1>2 DEF Crash, Gone, StreamsOK, StepWrites
<1> QED  BY <1>1, <1>2

LEMMA StreamsStep ==
    ASSUME StreamsOK, [Next]_vars PROVE StreamsOK' /\ StepWrites
<1>1. CASE ba_new
  BY <1>1, QuietStep DEF ba_new
<1>2. ASSUME NEW n, NEW src, ba_add_file(n, src) PROVE StreamsOK' /\ StepWrites
  BY <1>2, QuietStep DEF ba_add_file
<1>3. ASSUME NEW n, ba_remove(n) PROVE StreamsOK' /\ StepWrites
  BY <1>3, QuietStep DEF ba_remove
<1>4. ASSUME NEW n, NEW c, ba_set_file_contents(n, c) PROVE StreamsOK' /\ StepWrites
  BY <1>4, QuietStep DEF ba_set_file_contents
<1>5. ASSUME NEW n, ba_get_file_contents(n) PROVE StreamsOK' /\ StepWrites
  <2>1. Fault \/ UNCHANGED <<disk, status, file, out>>
    BY <1>5 DEF ba_get_file_contents
  <2> QED  BY <2>1, FaultStep, QuietStep
<1>6. CASE UNCHANGED vars
  BY <1>6, QuietStep DEF vars
<1> QED  BY <1>1, <1>2, <1>3, <1>4, <1>5, <1>6, OpenStep, SaveStep, CloseStep, EntryStep,
            EndStep, OtherStep DEF Next

\* Whatever calls the client makes, in whatever order, and whatever fails: an archive
\* file is written only by a save to it, begun or finished and not closed yet.
THEOREM OnlyTheTargetIsWritten == Spec => OnlyTargetWritten
<1>1. Init => StreamsOK
  BY DEF Init, StreamsOK
<1>2. StreamsOK /\ [Next]_vars => StreamsOK'
  BY StreamsStep
<1>3. Spec => []StreamsOK
  BY <1>1, <1>2, PTL DEF Spec
<1>4. StreamsOK /\ [Next]_vars => [StepWrites]_vars
  BY StreamsStep
<1>5. Spec => [][StepWrites]_vars
  BY <1>3, <1>4, PTL DEF Spec
<1> QED  BY <1>5 DEF OnlyTargetWritten, StepWrites

(***************************************************************************)
(* Lists of files.                                                         *)
(***************************************************************************)
\* The list l has the files S in some order, each once.
ListOf(l, S) == l \in Seq(S) /\ IsInjective(l) /\ ToSet(l) = S

LEMMA ListFacts ==
    ASSUME NEW S, NEW l, ListOf(l, S)
    PROVE  /\ Len(l) \in Nat /\ DOMAIN l = 1 .. Len(l)
           /\ \A i \in 1 .. Len(l) : l[i] \in S
           /\ \A i, j \in 1 .. Len(l) : l[i] = l[j] => i = j
           /\ \A x \in S : \E i \in 1 .. Len(l) : l[i] = x
<1>1. Len(l) \in Nat /\ DOMAIN l = 1 .. Len(l)
  BY LenProperties DEF ListOf
<1> QED  BY <1>1 DEF ListOf, IsInjective, ToSet

LEMMA ListFrom ==
    ASSUME NEW S, NEW l \in Seq(S),
           \A i, j \in 1 .. Len(l) : l[i] = l[j] => i = j,
           \A x \in S : \E i \in 1 .. Len(l) : l[i] = x
    PROVE  ListOf(l, S)
<1>1. Len(l) \in Nat /\ DOMAIN l = 1 .. Len(l) /\ \A i \in 1 .. Len(l) : l[i] \in S
  BY LenProperties, ElementOfSeq
<1> QED  BY <1>1 DEF ListOf, IsInjective, ToSet

LEMMA EmptyList == ListOf(<<>>, {})
BY EmptySeq DEF ListOf, IsInjective, ToSet

LEMMA AppendList ==
    ASSUME NEW S, NEW l, ListOf(l, S), NEW n, n \notin S
    PROVE  ListOf(Append(l, n), S \cup {n})
<1> DEFINE a == Append(l, n)
<1>1. l \in Seq(S \cup {n}) /\ Len(l) \in Nat
  BY SeqMonotonic, LenProperties DEF ListOf
<1>2. /\ a \in Seq(S \cup {n}) /\ Len(a) = Len(l) + 1
      /\ \A i \in 1 .. Len(l) : a[i] = l[i]
      /\ a[Len(l) + 1] = n
  BY <1>1, AppendProperties
<1>3. \A i \in 1 .. Len(l) + 1 : i \in 1 .. Len(l) \/ i = Len(l) + 1
  BY <1>1
<1> HIDE DEF a
<1>4. \A i, j \in 1 .. Len(a) : a[i] = a[j] => i = j
  BY <1>2, <1>3, ListFacts
<1>5. \A x \in S \cup {n} : \E i \in 1 .. Len(a) : a[i] = x
  <2>1. \A i \in 1 .. Len(l) : i \in 1 .. Len(a)
    BY <1>1, <1>2
  <2>2. Len(l) + 1 \in 1 .. Len(a)
    BY <1>1, <1>2
  <2> QED  BY <1>2, <2>1, <2>2, ListFacts
<1>6. ListOf(a, S \cup {n})
  BY <1>2, <1>4, <1>5, ListFrom
<1> QED  BY <1>6 DEF a

\* Taking one file out of a list leaves the others in it.
LEMMA RemoveList ==
    ASSUME NEW S, NEW l, ListOf(l, S), NEW n
    PROVE  ListOf(RemoveFirst(l, n), S \ {n})
<1>1. /\ Len(l) \in Nat /\ l \in Seq(S)
      /\ \A i \in 1 .. Len(l) : l[i] \in S
      /\ \A i, j \in 1 .. Len(l) : l[i] = l[j] => i = j
      /\ \A x \in S : \E i \in 1 .. Len(l) : l[i] = x
  BY ListFacts DEF ListOf
<1>2. CASE ~ \E i \in 1 .. Len(l) : l[i] = n
  <2>1. n \notin S
    BY <1>1, <1>2
  <2>2. S \ {n} = S
    BY <2>1
  <2> QED  BY <1>2, <2>2 DEF RemoveFirst
<1>3. ASSUME NEW k \in 1 .. Len(l), l[k] = n PROVE ListOf(RemoveFirst(l, n), S \ {n})
  <2> DEFINE I == {i \in 1 .. Len(l) : l[i] = n}
             r == SubSeq(l, 1, k - 1) \o SubSeq(l, k + 1, Len(l))
  <2>1. I = {k}
    <3>1. k \in I
      BY <1>3
    <3>2. \A i \in I : i = k
      BY <1>1, <1>3
    <3> QED  BY <3>1, <3>2
  <2>2. SelectInSeq(l, LAMBDA v : v = n) = k
    <3>1. Min({k}) = k
      BY DEF Min
    <3> QED  BY <2>1, <3>1 DEF SelectInSeq
  <2>3. RemoveFirst(l, n) = r
    BY <1>3, <2>2 DEF RemoveFirst, RemoveAt
  <2>4. \A i \in 1 .. Len(l) : i # k => l[i] \in S \ {n}
    BY <1>1, <1>3
  <2>5. /\ SubSeq(l, 1, k - 1) \in Seq(S \ {n}) /\ Len(SubSeq(l, 1, k - 1)) = k - 1
        /\ \A i \in 1 .. k - 1 : SubSeq(l, 1, k - 1)[i] = l[i]
    <3>1. 1 \in Int /\ k - 1 \in Int /\ \A i \in 1 .. k - 1 : l[i] \in S \ {n}
      BY <1>1, <2>4
    <3>2. /\ SubSeq(l, 1, k - 1) \in Seq(S \ {n})
          /\ Len(SubSeq(l, 1, k - 1)) = IF 1 <= k - 1 THEN k - 1 - 1 + 1 ELSE 0
          /\ \A i \in 1 .. k - 1 - 1 + 1 : SubSeq(l, 1, k - 1)[i] = l[1 + i - 1]
      BY <3>1, SubSeqProperties
    <3> QED  BY <3>2
  <2>6. /\ SubSeq(l, k + 1, Len(l)) \in Seq(S \ {n}) /\ Len(SubSeq(l, k + 1, Len(l))) = Len(l) - k
        /\ \A i \in 1 .. Len(l) - k : SubSeq(l, k + 1, Len(l))[i] = l[k + i]
    <3>1. k + 1 \in Int /\ Len(l) \in Int /\ \A i \in k + 1 .. Len(l) : l[i] \in S \ {n}
      BY <1>1, <2>4
    <3>2. /\ SubSeq(l, k + 1, Len(l)) \in Seq(S \ {n})
          /\ Len(SubSeq(l, k + 1, Len(l))) = IF k + 1 <= Len(l) THEN Len(l) - (k + 1) + 1 ELSE 0
          /\ \A i \in 1 .. Len(l) - (k + 1) + 1 : SubSeq(l, k + 1, Len(l))[i] = l[k + 1 + i - 1]
      BY <3>1, SubSeqProperties
    <3>3. \A i \in 1 .. Len(l) - k : i \in 1 .. Len(l) - (k + 1) + 1 /\ k + 1 + i - 1 = k + i
      BY <1>1
    <3>4. Len(SubSeq(l, k + 1, Len(l))) = Len(l) - k
      BY <1>1, <3>2
    <3>5. \A i \in 1 .. Len(l) - k : SubSeq(l, k + 1, Len(l))[i] = l[k + i]
      BY <3>2, <3>3
    <3> QED  BY <3>2, <3>4, <3>5
  <2>7. /\ r \in Seq(S \ {n}) /\ Len(r) = Len(l) - 1
        /\ \A i \in 1 .. Len(l) - 1 : r[i] = IF i < k THEN l[i] ELSE l[i + 1]
    <3> DEFINE a == SubSeq(l, 1, k - 1)
               b == SubSeq(l, k + 1, Len(l))
    <3> HIDE DEF a, b
    <3>1. /\ a \o b \in Seq(S \ {n}) /\ Len(a \o b) = Len(a) + Len(b)
          /\ \A i \in 1 .. Len(a) + Len(b) : (a \o b)[i] = IF i <= Len(a) THEN a[i] ELSE b[i - Len(a)]
      BY <2>5, <2>6, ConcatProperties DEF a, b
    <3>2. Len(a) = k - 1 /\ Len(b) = Len(l) - k
      BY <2>5, <2>6 DEF a, b
    <3>3. ASSUME NEW i \in 1 .. Len(l) - 1
          PROVE  (a \o b)[i] = IF i < k THEN l[i] ELSE l[i + 1]
      <4>1. CASE i < k
        <5>1. i <= Len(a) /\ i \in 1 .. k - 1 /\ i \in 1 .. Len(a) + Len(b)
          BY <1>1, <3>2, <4>1
        <5> QED  BY <2>5, <3>1, <4>1, <5>1 DEF a
      <4>2. CASE ~ i < k
        <5>1. ~ i <= Len(a) /\ i - (k - 1) \in 1 .. Len(l) - k /\ i \in 1 .. Len(a) + Len(b)
              /\ k + (i - (k - 1)) = i + 1
          BY <1>1, <3>2, <4>2
        <5>2. (a \o b)[i] = b[i - (k - 1)]
          BY <3>1, <3>2, <5>1
        <5>3. b[i - (k - 1)] = l[k + (i - (k - 1))]
          BY <2>6, <5>1 DEF b
        <5> QED  BY <4>2, <5>1, <5>2, <5>3
      <4> QED  BY <4>1, <4>2
    <3>4. Len(a) + Len(b) = Len(l) - 1
      BY <1>1, <3>2
    <3> QED  BY <3>1, <3>3, <3>4 DEF a, b
  <2> HIDE DEF r
  <2>8. \A i, j \in 1 .. Len(r) : r[i] = r[j] => i = j
    <3>1. \A i \in 1 .. Len(l) - 1 : i \in 1 .. Len(l) /\ i + 1 \in 1 .. Len(l)
      BY <1>1
    <3> SUFFICES ASSUME NEW i \in 1 .. Len(l) - 1, NEW j \in 1 .. Len(l) - 1, r[i] = r[j] PROVE i = j
      BY <2>7
    <3>2. CASE i < k /\ j < k
      BY <1>1, <2>7, <3>1, <3>2
    <3>3. CASE i < k /\ ~ j < k
      <4>1. l[i] = l[j + 1]
        BY <2>7, <3>3
      <4>2. i = j + 1
        BY <1>1, <3>1, <4>1
      <4> QED  BY <3>3, <4>2
    <3>4. CASE ~ i < k /\ j < k
      <4>1. l[i + 1] = l[j]
        BY <2>7, <3>4
      <4>2. i + 1 = j
        BY <1>1, <3>1, <4>1
      <4> QED  BY <3>4, <4>2
    <3>5. CASE ~ i < k /\ ~ j < k
      <4>1. l[i + 1] = l[j + 1]
        BY <2>7, <3>5
      <4>2. i + 1 = j + 1
        BY <1>1, <3>1, <4>1
      <4> QED  BY <4>2
    <3> QED  BY <3>2, <3>3, <3>4, <3>5
  <2>9. \A x \in S \ {n} : \E i \in 1 .. Len(r) : r[i] = x
    <3> SUFFICES ASSUME NEW x \in S \ {n} PROVE \E i \in 1 .. Len(r) : r[i] = x
      OBVIOUS
    <3>1. PICK i \in 1 .. Len(l) : l[i] = x
      BY <1>1
    <3>2. i # k
      BY <1>3, <3>1
    <3>3. CASE i < k
      <4>1. i \in 1 .. Len(r) /\ i \in 1 .. Len(l) - 1
        BY <1>1, <2>7, <3>3
      <4> QED  BY <2>7, <3>1, <3>3, <4>1
    <3>4. CASE i > k
      <4>1. i - 1 \in 1 .. Len(r) /\ i - 1 \in 1 .. Len(l) - 1 /\ ~ i - 1 < k /\ (i - 1) + 1 = i
        BY <1>1, <2>7, <3>4
      <4> QED  BY <2>7, <3>1, <4>1
    <3> QED  BY <3>2, <3>3, <3>4
  <2> QED  BY <2>3, <2>7, <2>8, <2>9, ListFrom
<1> QED  BY <1>2, <1>3

\* Two lists with no file in common, one after the other.
LEMMA ConcatList ==
    ASSUME NEW S, NEW T, NEW k, NEW l, ListOf(k, S), ListOf(l, T), S \cap T = {}
    PROVE  ListOf(k \o l, S \cup T)
<1> DEFINE c == k \o l
<1>1. /\ Len(k) \in Nat /\ Len(l) \in Nat
      /\ k \in Seq(S \cup T) /\ l \in Seq(S \cup T)
  BY ListFacts, SeqMonotonic DEF ListOf
<1>2. /\ c \in Seq(S \cup T) /\ Len(c) = Len(k) + Len(l)
      /\ \A i \in 1 .. Len(k) + Len(l) : c[i] = IF i <= Len(k) THEN k[i] ELSE l[i - Len(k)]
  BY <1>1, ConcatProperties
<1> HIDE DEF c
<1>3. \A i \in 1 .. Len(k) : i \in 1 .. Len(c) /\ c[i] = k[i]
  BY <1>1, <1>2
<1>4. ASSUME NEW i \in 1 .. Len(l) PROVE Len(k) + i \in 1 .. Len(c) /\ c[Len(k) + i] = l[i]
  <2>1. Len(k) + i \in 1 .. Len(k) + Len(l) /\ ~ Len(k) + i <= Len(k) /\ (Len(k) + i) - Len(k) = i
    BY <1>1
  <2> QED  BY <1>2, <2>1
<1>5. \A i \in 1 .. Len(c) : i \in 1 .. Len(k) \/ \E j \in 1 .. Len(l) : i = Len(k) + j
  <2> SUFFICES ASSUME NEW i \in 1 .. Len(c), i \notin 1 .. Len(k)
               PROVE  \E j \in 1 .. Len(l) : i = Len(k) + j
    OBVIOUS
  <2>1. i - Len(k) \in 1 .. Len(l) /\ i = Len(k) + (i - Len(k))
    BY <1>1, <1>2
  <2> QED  BY <2>1
<1>6. /\ \A i \in 1 .. Len(k) : k[i] \in S
      /\ \A i \in 1 .. Len(l) : l[i] \in T
      /\ \A i, j \in 1 .. Len(k) : k[i] = k[j] => i = j
      /\ \A i, j \in 1 .. Len(l) : l[i] = l[j] => i = j
      /\ \A x \in S : \E i \in 1 .. Len(k) : k[i] = x
      /\ \A x \in T : \E i \in 1 .. Len(l) : l[i] = x
  BY ListFacts
<1>7. ASSUME NEW i \in 1 .. Len(c), NEW j \in 1 .. Len(c), c[i] = c[j] PROVE i = j
  <2>1. CASE i \in 1 .. Len(k) /\ j \in 1 .. Len(k)
    BY <1>3, <1>6, <1>7, <2>1
  <2>2. CASE i \notin 1 .. Len(k) /\ j \notin 1 .. Len(k)
    <3>1. PICK x \in 1 .. Len(l), y \in 1 .. Len(l) : i = Len(k) + x /\ j = Len(k) + y
      BY <1>5, <2>2
    <3>2. l[x] = l[y]
      BY <1>4, <1>7, <3>1
    <3> QED  BY <1>6, <3>1, <3>2
  <2>3. CASE i \in 1 .. Len(k) /\ j \notin 1 .. Len(k)
    <3>1. PICK y \in 1 .. Len(l) : j = Len(k) + y
      BY <1>5, <2>3
    <3>2. c[i] \in S
      BY <1>3, <1>6, <2>3
    <3>3. c[j] \in T
      BY <1>4, <1>6, <3>1
    <3> QED  BY <1>7, <3>2, <3>3
  <2>4. CASE i \notin 1 .. Len(k) /\ j \in 1 .. Len(k)
    <3>1. PICK x \in 1 .. Len(l) : i = Len(k) + x
      BY <1>5, <2>4
    <3>2. c[i] \in T
      BY <1>4, <1>6, <3>1
    <3>3. c[j] \in S
      BY <1>3, <1>6, <2>4
    <3> QED  BY <1>7, <3>2, <3>3
  <2> QED  BY <2>1, <2>2, <2>3, <2>4
<1>8. ASSUME NEW x \in S \cup T PROVE \E i \in 1 .. Len(c) : c[i] = x
  <2>1. CASE x \in S
    BY <1>3, <1>6, <2>1
  <2>2. CASE x \in T
    <3>1. PICK i \in 1 .. Len(l) : l[i] = x
      BY <1>6, <2>2
    <3> QED  BY <1>4, <3>1
  <2> QED  BY <2>1, <2>2
<1>9. ListOf(c, S \cup T)
  BY <1>2, <1>7, <1>8, ListFrom
<1> QED  BY <1>9 DEF c

(***************************************************************************)
(* Cells, and what is read from archives into buffers.                     *)
(***************************************************************************)
LEMMA FunctionSeq ==
    ASSUME NEW S, NEW n \in Nat, NEW f \in [1 .. n -> S]
    PROVE  f \in Seq(S) /\ Len(f) = n
<1>1. f \in Seq(S)
  BY SeqDef
<1>2. 1 .. Len(f) = 1 .. n /\ Len(f) \in Nat
  BY <1>1, LenProperties
<1> QED  BY <1>1, <1>2

LEMMA BufferFacts ==
    ASSUME NEW bytes \in Seq(Cells), NEW size \in Nat
    PROVE  /\ Buffer(bytes, size) \in Seq(Cells) /\ Len(Buffer(bytes, size)) = size
           /\ Len(bytes) = size => Buffer(bytes, size) = bytes
<1> DEFINE b == Buffer(bytes, size)
<1>1. Len(bytes) \in Nat /\ \A i \in 1 .. Len(bytes) : bytes[i] \in Cells
  BY LenProperties, ElementOfSeq
<1>2. JUNK \in Cells
  BY DEF Cells
<1>3. \A i \in 1 .. size : i <= Len(bytes) => i \in 1 .. Len(bytes)
  BY <1>1
<1>4. b \in [1 .. size -> Cells] /\ \A i \in 1 .. size : i <= Len(bytes) => b[i] = bytes[i]
  BY <1>1, <1>2, <1>3 DEF Buffer
<1> HIDE DEF b
<1>5. b \in Seq(Cells) /\ Len(b) = size
  BY <1>4, FunctionSeq
<1>6. ASSUME Len(bytes) = size PROVE b = bytes
  <2>1. \A i \in 1 .. Len(b) : b[i] = bytes[i]
    BY <1>4, <1>5, <1>6
  <2> QED  BY <1>5, <1>6, <2>1, SeqEqual
<1> QED  BY <1>5, <1>6 DEF b

HeaderOK(h) ==
    LET N == DOMAIN h.at
    IN  /\ N \subseteq Names /\ h \in Header(N)
        /\ ListOf(h.root, N \ SubNames) /\ ListOf(h.sub, N \cap SubNames)

\* A file, whole or cut off, that starts like an archive file.
CellsOK(c) ==
    /\ c \in Seq(AnyCell)
    /\ \A i \in 1 .. Len(c) : IF i = 2 THEN HeaderOK(c[i]) ELSE c[i] \in Cells

LEMMA CellsAreCells == Cells \subseteq AnyCell /\ Seq(Cells) \subseteq Seq(AnyCell)
<1>1. Cells \subseteq AnyCell
  BY DEF AnyCell
<1> QED  BY <1>1, SeqMonotonic

LEMMA BytesAreCells == Contents \subseteq Seq(Cells)
<1>1. Bytes \subseteq Cells
  BY DEF Cells
<1> QED  BY <1>1, SeqMonotonic DEF Contents

LEMMA HeadersAreCells == ASSUME NEW h, HeaderOK(h) PROVE h \in AnyCell
BY DEF HeaderOK, AnyCell

LEMMA PrefixOK ==
    ASSUME NEW a \in Seq(AnyCell), NEW b \in Seq(AnyCell), CellsOK(a \o b)
    PROVE  CellsOK(a)
<1>1. /\ Len(a) \in Nat /\ Len(b) \in Nat
      /\ Len(a \o b) = Len(a) + Len(b)
      /\ \A i \in 1 .. Len(a) + Len(b) : (a \o b)[i] = IF i <= Len(a) THEN a[i] ELSE b[i - Len(a)]
  BY ConcatProperties, LenProperties
<1>2. \A i \in 1 .. Len(a) : i \in 1 .. Len(a) + Len(b) /\ (a \o b)[i] = a[i]
  BY <1>1
<1> QED  BY <1>1, <1>2 DEF CellsOK

LEMMA AppendOK ==
    ASSUME NEW a, CellsOK(a), Len(a) >= 2, NEW b \in Seq(Cells)
    PROVE  CellsOK(a \o b) /\ Len(a \o b) = Len(a) + Len(b) /\ (a \o b)[2] = a[2]
<1>1. /\ a \in Seq(AnyCell) /\ b \in Seq(AnyCell)
      /\ Len(a) \in Nat /\ Len(b) \in Nat /\ \A i \in 1 .. Len(b) : b[i] \in Cells
  BY CellsAreCells, LenProperties, ElementOfSeq DEF CellsOK
<1>2. /\ a \o b \in Seq(AnyCell) /\ Len(a \o b) = Len(a) + Len(b)
      /\ \A i \in 1 .. Len(a) + Len(b) : (a \o b)[i] = IF i <= Len(a) THEN a[i] ELSE b[i - Len(a)]
  BY <1>1, ConcatProperties
<1>3. 2 \in 1 .. Len(a) + Len(b) /\ 2 <= Len(a)
  BY <1>1
<1>4. ASSUME NEW i \in 1 .. Len(a) + Len(b) PROVE IF i = 2 THEN HeaderOK((a \o b)[i]) ELSE (a \o b)[i] \in Cells
  <2>1. CASE i <= Len(a)
    <3>1. i \in 1 .. Len(a) /\ (a \o b)[i] = a[i]
      BY <1>1, <1>2, <2>1
    <3> QED  BY <3>1 DEF CellsOK
  <2>2. CASE ~ i <= Len(a)
    <3>1. i - Len(a) \in 1 .. Len(b) /\ i # 2 /\ (a \o b)[i] = b[i - Len(a)]
      BY <1>1, <1>2, <2>2
    <3> QED  BY <1>1, <3>1
  <2> QED  BY <2>1, <2>2
<1> QED  BY <1>2, <1>3, <1>4 DEF CellsOK

\* What an archive file starts with.
LEMMA FrontOK ==
    ASSUME NEW h, HeaderOK(h)
    PROVE  CellsOK(<<MAGIC, h, MARK>>) /\ CellsOK(<<MAGIC>>) /\ CellsOK(<<>>)
<1>1. MAGIC \in Cells /\ MARK \in Cells /\ h \in AnyCell /\ MAGIC \in AnyCell /\ MARK \in AnyCell
  BY HeadersAreCells, CellsAreCells DEF Cells
<1>2. <<MAGIC, h, MARK>> \in Seq(AnyCell) /\ <<MAGIC>> \in Seq(AnyCell) /\ <<>> \in Seq(AnyCell)
  BY <1>1
<1>3. CellsOK(<<MAGIC>>) /\ CellsOK(<<>>)
  BY <1>1, <1>2 DEF CellsOK
<1>4. \A i \in 1 .. 3 : i = 1 \/ i = 2 \/ i = 3
  OBVIOUS
<1>5. CellsOK(<<MAGIC, h, MARK>>)
  BY <1>1, <1>2, <1>4 DEF CellsOK
<1> QED  BY <1>3, <1>5

LEMMA ChunkCells ==
    ASSUME NEW c, CellsOK(c), NEW start \in Nat \cup {-1}, NEW size \in Nat
    PROVE  /\ Chunk(c, start, size) \in Seq(Cells)
           /\ ChunkStart + start + size <= Len(c) => Len(Chunk(c, start, size)) = size
           /\ \A i \in 1 .. size : ChunkStart + start + size <= Len(c) =>
                 Chunk(c, start, size)[i] = c[ChunkStart + start + i]
<1> DEFINE from == ChunkStart + start + 1
           to   == Min({Len(c), ChunkStart + start + size})
<1>1. Len(c) \in Nat /\ ChunkStart = 3
  BY LenProperties DEF CellsOK, ChunkStart
<1>2. to = IF Len(c) <= ChunkStart + start + size THEN Len(c) ELSE ChunkStart + start + size
  BY <1>1, MinOfTwo
<1>3. from \in Int /\ to \in Int /\ to <= Len(c) /\ from >= 3
  BY <1>1, <1>2
<1>4. \A i \in from .. to : c[i] \in Cells
  <2>1. \A i \in from .. to : i \in 1 .. Len(c) /\ i # 2
    BY <1>1, <1>3
  <2> QED  BY <2>1 DEF CellsOK
<1> HIDE DEF from, to
<1>5. /\ SubSeq(c, from, to) \in Seq(Cells)
      /\ Len(SubSeq(c, from, to)) = IF from <= to THEN to - from + 1 ELSE 0
      /\ \A i \in 1 .. to - from + 1 : SubSeq(c, from, to)[i] = c[from + i - 1]
  BY <1>3, <1>4, SubSeqProperties
<1>6. Chunk(c, start, size) = SubSeq(c, from, to)
  BY DEF Chunk, from, to
<1>7. ASSUME ChunkStart + start + size <= Len(c)
      PROVE  /\ Len(Chunk(c, start, size)) = size
             /\ \A i \in 1 .. size : Chunk(c, start, size)[i] = c[ChunkStart + start + i]
  <2>1. to = ChunkStart + start + size /\ to - from + 1 = size /\ from = ChunkStart + start + 1
    BY <1>1, <1>2, <1>7 DEF from
  <2>2. (IF from <= to THEN to - from + 1 ELSE 0) = size
    BY <1>1, <2>1
  <2>3. \A i \in 1 .. size : i \in 1 .. to - from + 1 /\ from + i - 1 = ChunkStart + start + i
    BY <1>1, <2>1
  <2> QED  BY <1>5, <1>6, <2>2, <2>3
<1> QED  BY <1>5, <1>6, <1>7

(***************************************************************************)
(* What an archive, its entries and its files on the disk are at any time, *)
(* and what a header says, as long as the client does not go on with an    *)
(* archive after saving it.                                                *)
(***************************************************************************)
ArchiveOK(c) == c = MISSING \/ CellsOK(c)

DiskOK ==
    /\ DOMAIN disk = Paths
    /\ \A p \in DOMAIN Sources : disk[p] \in Contents \cup {MISSING}
    /\ \A p \in Archives : ArchiveOK(disk[p])

FileOK ==
    \/ file = NULL /\ loc = NULL
    \/ loc \in Archives /\ file \in Streams /\ file.path = loc /\ disk[loc] # MISSING

TreeOK ==
    /\ Present \subseteq Names
    /\ ListOf(root, Present \ SubNames) /\ ListOf(sub, Present \cap SubNames)
    /\ \A n \in Present : EntryOK(entry[n])
    /\ DOMAIN put = Present

\* What has been put into the file that is saved to: it starts with the header of
\* all files of the archive.
WrittenOK(c) == CellsOK(c) /\ Len(c) >= ChunkStart /\ DOMAIN c[2].at = DOMAIN written

SaveOK ==
    /\ status \in {"none", "open", "saving", "crash"}
    /\ status = "none" => file = NULL
    /\ status \in {"none", "open"} => out = NULL /\ todo = <<>>
    /\ status = "saving" =>
         ~ saved /\ out.mode = "w" /\ Growing(disk, out) /\ WrittenOK(Whole(disk, out))
    /\ status = "open" /\ saved => Growing(disk, file) /\ WrittenOK(Whole(disk, file))
    /\ todo \in Seq(Present)

TypesInv == DiskOK /\ FileOK /\ TreeOK /\ SaveOK

(***************************************************************************)
(* The helpers.                                                            *)
(***************************************************************************)
LEMMA OrderIsList == ASSUME TreeOK PROVE ListOf(Order, Present)
<1>1. /\ (Present \ SubNames) \cup (Present \cap SubNames) = Present
      /\ (Present \cap SubNames) \cup (Present \ SubNames) = Present
      /\ (Present \ SubNames) \cap (Present \cap SubNames) = {}
      /\ (Present \cap SubNames) \cap (Present \ SubNames) = {}
  OBVIOUS
<1>2. ListOf(root, Present \ SubNames) /\ ListOf(sub, Present \cap SubNames)
  BY DEF TreeOK
<1>3. ListOf(root \o sub, (Present \ SubNames) \cup (Present \cap SubNames))
  BY <1>1, <1>2, ConcatList
<1>4. ListOf(sub \o root, (Present \cap SubNames) \cup (Present \ SubNames))
  BY <1>1, <1>2, ConcatList
<1> QED  BY <1>1, <1>3, <1>4 DEF Order

LEMMA BeforePart == ASSUME TreeOK, NEW n PROVE Before(n) \subseteq Present
<1>1. \A i \in DOMAIN Order : Order[i] \in Present
  BY OrderIsList, ListFacts
<1> QED  BY <1>1 DEF Before

LEMMA TotalType ==
    ASSUME TreeOK, NEW E, \A n \in Present : E[n].size \in Nat, NEW S \in SUBSET Present
    PROVE  Total(E, S) \in Nat
<1>1. IsFiniteSet(S)
  BY NamesAssumption, FS_Subset DEF TreeOK
<1>2. Sizeable([n \in S |-> E[n].size], S)
  BY <1>1 DEF Sizeable
<1> QED  BY <1>2, SumType DEF Total

LEMMA NullIsNoPath == ASSUME NEW p \in Archives PROVE p # NULL /\ p # WILD /\ p \in Paths
<1>1. NULL \notin Archives /\ WILD \notin Archives
  BY PathsAssumption
<1> QED  BY <1>1 DEF Paths

LEMMA StreamIsNotNull == NULL \notin Streams /\ NULL # WILD
BY ValuesAssumption

LEMMA ReadCells ==
    ASSUME DiskOK, FileOK, file # NULL, NEW start \in Nat \cup {-1}, NEW size \in Nat
    PROVE  Read(file, start, size) \in Seq(Cells)
<1>1. <<>> \in Seq(Cells)
  OBVIOUS
<1>2. loc \in Archives /\ file.path = loc /\ disk[loc] # MISSING
  BY DEF FileOK
<1>3. CellsOK(disk[file.path])
  BY <1>2 DEF DiskOK, ArchiveOK
<1>4. Chunk(disk[file.path], start, size) \in Seq(Cells)
  BY <1>3, ChunkCells
<1> QED  BY <1>1, <1>4 DEF Read

\* A buffer of the size of the entry is a buffer for it.
LEMMA BufferSet ==
    ASSUME NEW e, EntryOK(e), NEW c \in Seq(Cells), Len(c) = e.size
    PROVE  EntryOK([e EXCEPT !.buffer = c])
<1> DEFINE f == [e EXCEPT !.buffer = c]
<1>1. f \in [orig_loc : DOMAIN Sources \cup {NULL, WILD}, buffer : {NULL} \cup Seq(Cells),
             size : Nat, start : Nat \cup {-1}, old_start : Nat \cup {-1}]
  BY Zenon DEF EntryOK
<1>2. f.buffer = c /\ f.size = e.size
  BY DEF EntryOK
<1> QED  BY <1>1, <1>2 DEF EntryOK

LEMMA BufferedOK ==
    ASSUME DiskOK, FileOK, file # NULL, NEW e, EntryOK(e)
    PROVE  EntryOK(__ba_buffer_file(e))
<1>1. e.start \in Nat \cup {-1} /\ e.size \in Nat
  BY DEF EntryOK
<1>2. Read(file, e.start, e.size) \in Seq(Cells)
  BY <1>1, ReadCells
<1>3. /\ Buffer(Read(file, e.start, e.size), e.size) \in Seq(Cells)
      /\ Len(Buffer(Read(file, e.start, e.size), e.size)) = e.size
  BY <1>1, <1>2, BufferFacts
<1>4. EntryOK([e EXCEPT !.buffer = Buffer(Read(file, e.start, e.size), e.size)])
  BY <1>3, BufferSet
<1> QED  BY <1>4 DEF __ba_buffer_file

\* What a save makes of the entries before it writes them, and the header it writes.
LEMMA ArrangedOK ==
    ASSUME TypesInv, NEW p \in Archives
    PROVE  LET A == __ba_rearrange(__ba_buffer_entries(p))
           IN  /\ DOMAIN A = Present
               /\ \A n \in Present : EntryOK(A[n]) /\ A[n].start \in Nat
               /\ HeaderOK(__ba_create_header(A)) /\ DOMAIN __ba_create_header(A).at = Present
<1> DEFINE E == __ba_buffer_entries(p)
           A == __ba_rearrange(E)
           h == __ba_create_header(A)
<1>1. \A n \in Present : EntryOK(E[n])
  <2>1. CASE loc = p
    <3>1. file # NULL
      BY <2>1, NullIsNoPath, StreamIsNotNull DEF TypesInv, FileOK
    <3> QED  BY <2>1, <3>1, BufferedOK DEF TypesInv, TreeOK, __ba_buffer_entries
  <2>2. CASE loc # p
    BY <2>2 DEF TypesInv, TreeOK, __ba_buffer_entries
  <2> QED  BY <2>1, <2>2
<1> HIDE DEF E
<1>2. DOMAIN A = Present
  BY DEF __ba_rearrange
<1>3. ASSUME NEW n \in Present
      PROVE  EntryOK(A[n]) /\ A[n].start \in Nat /\ A[n].size \in Nat
  <2>1. EntryOK(E[n])
    BY <1>1
  <2>2. Total(E, Before(n)) \in Nat
    <3>1. \A m \in Present : E[m].size \in Nat
      BY <1>1 DEF EntryOK
    <3> QED  BY <3>1, BeforePart, TotalType DEF TypesInv
  <2>3. A[n] = [E[n] EXCEPT !.old_start = E[n].start, !.start = Total(E, Before(n))]
    BY DEF __ba_rearrange
  <2> DEFINE e == E[n]
             t == Total(E, Before(n))
  <2> HIDE DEF e, t
  <2>4. EntryOK(e) /\ t \in Nat /\ A[n] = [e EXCEPT !.old_start = e.start, !.start = t]
    BY <2>1, <2>2, <2>3 DEF e, t
  <2> HIDE DEF A
  <2>5. A[n] \in [orig_loc : DOMAIN Sources \cup {NULL, WILD}, buffer : {NULL} \cup Seq(Cells),
                  size : Nat, start : Nat \cup {-1}, old_start : Nat \cup {-1}]
    <3>1. e.start \in Nat \cup {-1}
      BY <2>4 DEF EntryOK
    <3>2. t \in Nat \cup {-1}
      BY <2>4
    <3> QED  BY Zenon, <2>4, <3>1, <3>2 DEF EntryOK
  <2>6. A[n].start = t /\ A[n].size = e.size /\ A[n].buffer = e.buffer
    BY <2>4 DEF EntryOK
  <2>7. e.buffer # NULL => Len(e.buffer) = e.size
    BY <2>4 DEF EntryOK
  <2> QED  BY <2>4, <2>5, <2>6, <2>7 DEF EntryOK
<1> HIDE DEF A
<1>4. h.root = root /\ h.sub = sub /\ DOMAIN h.at = Present
      /\ h = [root |-> root, sub |-> sub, at |-> h.at]
  BY DEF __ba_create_header
<1>5. h.at \in [Present -> [size : Nat, start : Nat]]
  BY <1>3 DEF __ba_create_header
<1>6. Present \in SUBSET Names /\ root \in Seq(Names) /\ sub \in Seq(Names)
  <2>1. root \in Seq(Present \ SubNames) /\ sub \in Seq(Present \cap SubNames)
        /\ Present \subseteq Names
    BY DEF TypesInv, TreeOK, ListOf
  <2> QED  BY <2>1, SeqMonotonic
<1> HIDE DEF h
<1>7. h \in Header(Present)
  BY <1>4, <1>5, <1>6 DEF Header
<1>8. HeaderOK(h)
  BY <1>4, <1>6, <1>7 DEF HeaderOK, TypesInv, TreeOK
<1> QED  BY <1>2, <1>3, <1>4, <1>8 DEF E, A, h

(***************************************************************************)
(* One lemma for each action.                                              *)
(***************************************************************************)
LEMMA FaultTypes == ASSUME TypesInv, Fault PROVE TypesInv'
BY DEF Fault, tree, TypesInv, DiskOK, FileOK, TreeOK, SaveOK, ArchiveOK, Present, WrittenOK, saved,
       Growing, Whole

LEMMA NewTypes == ASSUME TypesInv, ba_new PROVE TypesInv'
<1>1. file = NULL /\ status = "none"
  BY DEF ba_new, TypesInv, SaveOK
<1> QED  BY <1>1 DEF ba_new, tree, TypesInv, DiskOK, FileOK, TreeOK, SaveOK, Present, saved

\* A header becomes the tree of an archive.
LEMMA LoadedTree ==
    ASSUME NEW h, HeaderOK(h), NEW orig \in {NULL, WILD},
           root' = h.root, sub' = h.sub,
           entry' = [n \in DOMAIN h.at |-> LoadedEntry(h.at[n], orig)],
           DOMAIN put' = DOMAIN h.at
    PROVE  TreeOK'
<1>1. /\ DOMAIN h.at \subseteq Names /\ h.at \in [DOMAIN h.at -> [size : Nat, start : Nat]]
      /\ ListOf(h.root, DOMAIN h.at \ SubNames) /\ ListOf(h.sub, DOMAIN h.at \cap SubNames)
  BY DEF HeaderOK, Header
<1>2. Present' = DOMAIN h.at
  BY DEF Present
<1>3. ASSUME NEW n \in DOMAIN h.at PROVE EntryOK(entry'[n])
  <2>1. entry'[n] = LoadedEntry(h.at[n], orig)
    OBVIOUS
  <2>2. h.at[n].size \in Nat /\ h.at[n].start \in Nat
    BY <1>1
  <2> QED  BY <2>1, <2>2 DEF LoadedEntry, EntryOK
<1> QED  BY <1>1, <1>2, <1>3 DEF TreeOK

LEMMA OpenTypes == ASSUME TypesInv, NEW p \in Archives, ba_open(p) PROVE TypesInv'
<1>1. CASE Fault
  BY <1>1, FaultTypes
<1>2. CASE ~ Fault
  <2> DEFINE h == disk[p][2]
  <2>1. /\ status = "none" /\ disk[p] # MISSING /\ Len(disk[p]) >= 2
        /\ status' = "open" /\ loc' = p /\ file' = Stream(p, "r")
        /\ root' = h.root /\ sub' = h.sub
        /\ \E orig \in Unset : entry' = [n \in DOMAIN h.at |-> LoadedEntry(h.at[n], orig)]
        /\ put' = IF Parse(disk[p]) = NULL THEN [n \in DOMAIN h.at |-> JUNK] ELSE Parse(disk[p])
        /\ UNCHANGED <<disk, out, todo, written>>
    <3>1. CellsOK(disk[p]) /\ Len(disk[p]) \in Nat
      BY LenProperties DEF ba_open, TypesInv, DiskOK, ArchiveOK, CellsOK
    <3> QED  BY <1>2, <3>1 DEF ba_open
  <2>2. CellsOK(disk[p]) /\ 2 \in 1 .. Len(disk[p])
    BY <2>1, LenProperties DEF TypesInv, DiskOK, ArchiveOK, CellsOK
  <2>3. HeaderOK(h)
    BY <2>2 DEF CellsOK
  <2>4. DOMAIN put' = DOMAIN h.at
    BY <2>1 DEF Parse
  <2>5. TreeOK'
    <3>1. PICK orig \in {NULL, WILD} : entry' = [n \in DOMAIN h.at |-> LoadedEntry(h.at[n], orig)]
      BY <2>1 DEF Unset
    <3> HIDE DEF h
    <3> QED  BY <2>1, <2>3, <2>4, <3>1, LoadedTree
  <2>6. Stream(p, "r") \in Streams /\ Stream(p, "r").path = p /\ Stream(p, "r").mode = "r"
    BY DEF Stream, Streams
  <2>7. DiskOK' /\ FileOK'
    BY <2>1, <2>6 DEF TypesInv, DiskOK, FileOK
  <2>8. SaveOK'
    BY <2>1, <2>6 DEF TypesInv, SaveOK, saved
  <2> QED  BY <2>5, <2>7, <2>8 DEF TypesInv
<1> QED  BY <1>1, <1>2

LEMMA GoneTypes == ASSUME DiskOK', Gone PROVE TypesInv'
<1>1. FileOK' /\ SaveOK'
  BY DEF Gone, FileOK, SaveOK, saved
<1>2. TreeOK'
  <2>1. Present' = {} /\ DOMAIN put' = {} /\ root' = <<>> /\ sub' = <<>>
    BY DEF Gone, Present, Nothing
  <2>2. {} \ SubNames = {} /\ {} \cap SubNames = {}
    OBVIOUS
  <2> QED  BY <2>1, <2>2, EmptyList DEF TreeOK
<1> QED  BY <1>1, <1>2 DEF TypesInv

\* Closing puts a saved archive on the disk, and changes nothing else.
LEMMA CloseTypes == ASSUME TypesInv, ba_close PROVE TypesInv'
<1>1. CASE Fault
  BY <1>1, FaultTypes
<1>2. CASE Gone /\ disk' = Closed(disk, file)
  <2>1. CASE saved
    <3>1. Growing(disk, file) /\ CellsOK(Whole(disk, file)) /\ file # NULL /\ file.mode = "w"
      BY <2>1 DEF ba_close, TypesInv, SaveOK, WrittenOK, saved
    <3>2. disk'[file.path] = Whole(disk, file)
      BY <1>2, <3>1, ClosedGrown
    <3>3. DOMAIN disk' = DOMAIN disk /\ \A p \in DOMAIN disk \ {file.path} : disk'[p] = disk[p]
      BY <1>2, ClosedElsewhere
    <3>4. file.path \in Archives
      BY <3>1 DEF Growing, Streams
    <3>5. DiskOK'
      BY <3>1, <3>2, <3>3, <3>4, PathsAssumption DEF TypesInv, DiskOK, ArchiveOK, Paths
    <3> QED  BY <1>2, <3>5, GoneTypes
  <2>2. CASE ~ saved
    <3>1. disk' = disk
      BY <1>2, <2>2 DEF Closed, saved, TypesInv, FileOK, Streams
    <3>2. DiskOK'
      BY <3>1 DEF TypesInv, DiskOK
    <3> QED  BY <1>2, <3>2, GoneTypes
  <2> QED  BY <2>1, <2>2
<1> QED  BY <1>1, <1>2 DEF ba_close

LEMMA CrashTypes == ASSUME TypesInv, Crash PROVE TypesInv'
<1>1. DiskOK'
  BY DEF Crash, TypesInv, DiskOK
<1> QED  BY <1>1, GoneTypes DEF Crash

\* Changes to the tree of an archive that has not been saved.
LEMMA EditTypes ==
    ASSUME TypesInv, TreeOK', status = "open", ~ saved,
           UNCHANGED <<disk, status, loc, file, out, todo, written>>
    PROVE  TypesInv'
<1>1. DiskOK' /\ FileOK'
  BY DEF TypesInv, DiskOK, FileOK
<1>2. todo' = <<>> /\ out' = NULL /\ ~ saved' /\ status' = "open"
  BY DEF TypesInv, SaveOK, saved
<1>3. SaveOK'
  BY <1>2 DEF SaveOK
<1> QED  BY <1>1, <1>3 DEF TypesInv

LEMMA AddTypes ==
    ASSUME TypesInv, NEW n \in Names, NEW src \in DOMAIN Sources \cup {NULL},
           ~ saved, ba_add_file(n, src)
    PROVE  TypesInv'
<1> DEFINE contents == IF src = NULL THEN <<>> ELSE disk[src]
           new == [orig_loc |-> src, buffer |-> NULL, size |-> Len(contents),
                   start |-> -1, old_start |-> -1]
<1>1. /\ status = "open" /\ n \notin Present /\ (src # NULL => disk[src] # MISSING)
      /\ entry' = [m \in Present \cup {n} |-> IF m = n THEN new ELSE entry[m]]
      /\ put' = [m \in Present \cup {n} |-> IF m = n THEN contents ELSE put[m]]
      /\ IF n \in SubNames THEN sub' = Append(sub, n) /\ root' = root
         ELSE root' = Append(root, n) /\ sub' = sub
      /\ UNCHANGED <<disk, status, loc, file, out, todo, written>>
  BY DEF ba_add_file, Usable
<1>2. contents \in Contents /\ Len(contents) \in Nat
  <2>1. contents \in Contents
    BY <1>1 DEF TypesInv, DiskOK, Contents
  <2> QED  BY <2>1, LenProperties DEF Contents
<1>3. EntryOK(new)
  BY <1>2 DEF EntryOK
<1> HIDE DEF new, contents
<1>4. Present' = Present \cup {n} /\ DOMAIN put' = Present \cup {n}
  BY <1>1 DEF Present
<1>5. \A m \in Present' : EntryOK(entry'[m])
  BY <1>1, <1>3, <1>4 DEF TypesInv, TreeOK
<1>6. ListOf(root', Present' \ SubNames) /\ ListOf(sub', Present' \cap SubNames)
  <2>1. ListOf(root, Present \ SubNames) /\ ListOf(sub, Present \cap SubNames)
    BY DEF TypesInv, TreeOK
  <2>2. CASE n \in SubNames
    <3>1. /\ (Present \cup {n}) \cap SubNames = (Present \cap SubNames) \cup {n}
          /\ (Present \cup {n}) \ SubNames = Present \ SubNames
          /\ n \notin Present \cap SubNames
      BY <1>1, <2>2
    <3>2. ListOf(Append(sub, n), (Present \cap SubNames) \cup {n})
      BY <2>1, <3>1, AppendList
    <3> QED  BY <1>1, <1>4, <2>1, <2>2, <3>1, <3>2
  <2>3. CASE n \notin SubNames
    <3>1. /\ (Present \cup {n}) \ SubNames = (Present \ SubNames) \cup {n}
          /\ (Present \cup {n}) \cap SubNames = Present \cap SubNames
          /\ n \notin Present \ SubNames
      BY <1>1, <2>3
    <3>2. ListOf(Append(root, n), (Present \ SubNames) \cup {n})
      BY <2>1, <3>1, AppendList
    <3> QED  BY <1>1, <1>4, <2>1, <2>3, <3>1, <3>2
  <2> QED  BY <2>2, <2>3
<1>7. TreeOK'
  BY <1>4, <1>5, <1>6 DEF TypesInv, TreeOK
<1> QED  BY <1>1, <1>7, EditTypes

LEMMA RemoveTypes ==
    ASSUME TypesInv, NEW n \in Names, ~ saved, ba_remove(n)
    PROVE  TypesInv'
<1>1. /\ status = "open"
      /\ entry' = [m \in Present \ {n} |-> entry[m]]
      /\ put' = [m \in Present \ {n} |-> put[m]]
      /\ root' = RemoveFirst(root, n) /\ sub' = RemoveFirst(sub, n)
      /\ UNCHANGED <<disk, status, loc, file, out, todo, written>>
  BY DEF ba_remove, Usable, Unlinked
<1>2. Present' = Present \ {n} /\ DOMAIN put' = Present \ {n}
  BY <1>1 DEF Present
<1>3. ListOf(root', Present' \ SubNames) /\ ListOf(sub', Present' \cap SubNames)
  <2>1. ListOf(root, Present \ SubNames) /\ ListOf(sub, Present \cap SubNames)
    BY DEF TypesInv, TreeOK
  <2>2. /\ (Present \ {n}) \ SubNames = (Present \ SubNames) \ {n}
        /\ (Present \ {n}) \cap SubNames = (Present \cap SubNames) \ {n}
    OBVIOUS
  <2> QED  BY <1>1, <1>2, <2>1, <2>2, RemoveList
<1>4. TreeOK'
  BY <1>1, <1>2, <1>3 DEF TypesInv, TreeOK
<1> QED  BY <1>1, <1>4, EditTypes

\* One entry is replaced by another that is as good.
LEMMA EntryTypes ==
    ASSUME TypesInv, NEW n \in Present, ~ saved, status = "open",
           NEW e, EntryOK(e), entry' = [entry EXCEPT ![n] = e],
           DOMAIN put' = DOMAIN put,
           UNCHANGED <<disk, status, loc, file, tree, out, todo, written>>
    PROVE  TypesInv'
<1>1. Present' = Present
  BY DEF Present
<1>2. \A m \in Present : EntryOK(entry'[m])
  BY DEF TypesInv, TreeOK, Present
<1>3. TreeOK'
  BY <1>1, <1>2 DEF TypesInv, TreeOK, tree
<1> QED  BY <1>3, EditTypes

LEMMA SetTypes ==
    ASSUME TypesInv, NEW n \in Names, NEW c \in Replacements,
           ~ saved, ba_set_file_contents(n, c)
    PROVE  TypesInv'
<1> DEFINE e == [entry[n] EXCEPT !.buffer = c, !.size = Len(c)]
<1>1. /\ status = "open" /\ n \in Present
      /\ entry' = [entry EXCEPT ![n] = e]
      /\ put' = [put EXCEPT ![n] = c]
      /\ UNCHANGED <<disk, status, loc, file, tree, out, todo, written>>
  BY DEF ba_set_file_contents, Usable
<1>2. c \in Seq(Cells) /\ Len(c) \in Nat
  BY BytesAssumption, BytesAreCells, LenProperties DEF Contents
<1>3. EntryOK(e)
  <2>1. EntryOK(entry[n])
    BY <1>1 DEF TypesInv, TreeOK
  <2>2. e \in [orig_loc : DOMAIN Sources \cup {NULL, WILD}, buffer : {NULL} \cup Seq(Cells),
               size : Nat, start : Nat \cup {-1}, old_start : Nat \cup {-1}]
    BY Zenon, <1>2, <2>1 DEF EntryOK
  <2>3. e.buffer = c /\ e.size = Len(c)
    BY <2>1 DEF EntryOK
  <2> QED  BY <2>2, <2>3 DEF EntryOK
<1> HIDE DEF e
<1> QED  BY <1>1, <1>3, EntryTypes

LEMMA GetTypes ==
    ASSUME TypesInv, NEW n \in Names, ~ saved, ba_get_file_contents(n)
    PROVE  TypesInv'
<1> DEFINE e == entry[n]
<1>1. CASE Fault
  BY <1>1, FaultTypes
<1>2. CASE ~ Fault
  <2>0. n \in Present /\ status = "open" /\ EntryOK(e)
    BY DEF ba_get_file_contents, Usable, TypesInv, TreeOK
  <2>1. PICK new : /\ entry' = [entry EXCEPT ![n] = new]
                   /\ UNCHANGED <<disk, status, loc, file, tree, out, todo, put, written>>
                   /\ \/ new = e
                      \/ /\ e.orig_loc \in DOMAIN Sources /\ disk[e.orig_loc] # MISSING
                         /\ new = [e EXCEPT !.buffer = Buffer(disk[e.orig_loc], e.size)]
                      \/ file # NULL /\ new = __ba_buffer_file(e)
    <3>1. e.orig_loc \in DOMAIN Sources \cup {NULL, WILD}
      BY <2>0 DEF EntryOK
    <3>2. CASE e.buffer # NULL
      BY <3>2 DEF ba_get_file_contents
    <3>3. CASE e.buffer = NULL /\ e.orig_loc = WILD
      BY <1>2, <3>3, StreamIsNotNull DEF ba_get_file_contents
    <3>4. CASE e.buffer = NULL /\ e.orig_loc \notin {NULL, WILD}
      BY <1>2, <3>1, <3>4 DEF ba_get_file_contents
    <3>5. CASE e.buffer = NULL /\ e.orig_loc = NULL
      BY <1>2, <3>5, StreamIsNotNull DEF ba_get_file_contents
    <3> QED  BY <3>1, <3>2, <3>3, <3>4, <3>5
  <2>2. EntryOK(new)
    <3>1. CASE new = e
      BY <2>0, <3>1
    <3>2. CASE /\ e.orig_loc \in DOMAIN Sources /\ disk[e.orig_loc] # MISSING
               /\ new = [e EXCEPT !.buffer = Buffer(disk[e.orig_loc], e.size)]
      <4>1. disk[e.orig_loc] \in Seq(Cells) /\ e.size \in Nat
        BY <2>0, <3>2, BytesAreCells DEF TypesInv, DiskOK, EntryOK
      <4>2. /\ Buffer(disk[e.orig_loc], e.size) \in Seq(Cells)
            /\ Len(Buffer(disk[e.orig_loc], e.size)) = e.size
        BY <4>1, BufferFacts
      <4> QED  BY <2>0, <3>2, <4>2, BufferSet
    <3>3. CASE file # NULL /\ new = __ba_buffer_file(e)
      BY <2>0, <3>3, BufferedOK DEF TypesInv
    <3> QED  BY <2>1, <3>1, <3>2, <3>3
  <2>3. DOMAIN put' = DOMAIN put
    BY <2>1
  <2>4. UNCHANGED <<disk, status, loc, file, tree, out, todo, written>>
    BY <2>1
  <2> HIDE DEF e
  <2> QED  BY <2>0, <2>1, <2>2, <2>3, <2>4, EntryTypes
<1> QED  BY <1>1, <1>2

(***************************************************************************)
(* Saving.                                                                 *)
(***************************************************************************)
\* What is already on the disk of a file that is written.
LEMMA GrowingOK ==
    ASSUME NEW d, NEW s, Growing(d, s), CellsOK(Whole(d, s))
    PROVE  CellsOK(d[s.path]) /\ d[s.path] # MISSING
<1>1. d[s.path] \in Seq(AnyCell) /\ s.pending \in Seq(AnyCell)
  BY DEF Growing, Streams
<1> QED  BY <1>1, PrefixOK, ValuesAssumption DEF Whole

\* The other files of the disk do not change while one grows.
LEMMA OneGrows ==
    ASSUME DiskOK, FileOK, NEW p \in Archives, loc' = loc, file' = file,
           DOMAIN disk' = DOMAIN disk, \A q \in Paths \ {p} : disk'[q] = disk[q],
           CellsOK(disk'[p]), disk'[p] # MISSING
    PROVE  DiskOK' /\ FileOK'
<1>1. DiskOK'
  BY PathsAssumption DEF DiskOK, ArchiveOK, Paths
<1>2. FileOK'
  BY DEF FileOK, Paths
<1> QED  BY <1>1, <1>2

\* The file that a save begins: the front of an archive with this header.
Begun(w, d, p, front) ==
    /\ Growing(w.disk, w.stream) /\ Whole(w.disk, w.stream) = front
    /\ w.stream.path = p /\ w.stream.mode = "w"
    /\ DOMAIN w.disk = DOMAIN d /\ \A q \in DOMAIN d \ {p} : w.disk[q] = d[q]

LEMMA BeginSave ==
    ASSUME NEW d, NEW p \in Archives, p \in DOMAIN d, NEW h, HeaderOK(h)
    PROVE  Begun(Write([d EXCEPT ![p] = <<>>], Stream(p, "w"), <<MAGIC, h, MARK>>),
                 d, p, <<MAGIC, h, MARK>>)
<1> DEFINE new == [d EXCEPT ![p] = <<>>]
           s == Stream(p, "w")
           front == <<MAGIC, h, MARK>>
<1>1. s.path = p /\ s.mode = "w" /\ s.pending = <<>> /\ s.pos = 0 /\ s \in Streams
      /\ DOMAIN s = {"path", "mode", "pos", "pending"}
  BY DEF Stream, Streams
<1>2. new[p] = <<>> /\ DOMAIN new = DOMAIN d /\ (\A q \in DOMAIN d \ {p} : new[q] = d[q])
  OBVIOUS
<1>3. front \in Seq(AnyCell)
  BY FrontOK DEF CellsOK
<1>4. <<>> \in Seq(AnyCell) /\ Len(<<>>) = 0 /\ <<>> \o <<>> = <<>> /\ <<>> \o front = front
  BY <1>3, EmptySeq, ConcatEmptySeq
<1> HIDE DEF new, s, front
<1>5. Growing(new, s)
  BY <1>1, <1>2, <1>4 DEF Growing
<1>6. Whole(new, s) = <<>>
  BY <1>1, <1>2, <1>4 DEF Whole
<1> DEFINE w == Write(new, s, front)
<1>7. Grown(w, new, s, front)
  BY <1>3, <1>5, WriteGrows
<1>8. DOMAIN w.disk = DOMAIN new /\ \A q \in DOMAIN new \ {s.path} : w.disk[q] = new[q]
  BY <1>1, WriteElsewhere
<1> HIDE DEF w
<1>9. Begun(w, d, p, front)
  BY <1>1, <1>2, <1>4, <1>6, <1>7, <1>8 DEF Begun, Grown
<1> QED  BY <1>9 DEF new, s, front, w

LEMMA SaveTypes ==
    ASSUME TypesInv, NEW p \in Archives, ~ saved, ba_save(p)
    PROVE  TypesInv'
<1> DEFINE A == __ba_rearrange(__ba_buffer_entries(p))
           h == __ba_create_header(A)
           w == Write([disk EXCEPT ![p] = <<>>], Stream(p, "w"), <<MAGIC, h, MARK>>)
<1>1. /\ DOMAIN A = Present /\ \A n \in Present : EntryOK(A[n])
      /\ HeaderOK(h) /\ DOMAIN h.at = Present
  BY ArrangedOK
<1>2. /\ status = "open" /\ entry' = A /\ UNCHANGED <<loc, file, tree, put>>
      /\ \/ UNCHANGED <<disk, status, out, todo, written>>
         \/ disk' = [disk EXCEPT ![p] = <<MAGIC>>] /\ UNCHANGED <<status, out, todo, written>>
         \/ /\ disk' = w.disk /\ out' = w.stream /\ todo' = Order
            /\ status' = "saving" /\ written' = put
  BY DEF ba_save, Usable
<1> HIDE DEF A
<1>3. Present' = Present /\ ~ saved' /\ p \in Paths /\ DOMAIN disk = Paths
  BY <1>1, <1>2 DEF Present, saved, Paths, TypesInv, DiskOK
<1>4. TreeOK'
  BY <1>1, <1>2, <1>3 DEF TypesInv, TreeOK, tree
<1> HIDE DEF h, w
<1>5. CASE UNCHANGED <<disk, status, out, todo, written>>
  BY <1>2, <1>4, <1>5, EditTypes
<1>6. CASE disk' = [disk EXCEPT ![p] = <<MAGIC>>] /\ UNCHANGED <<status, out, todo, written>>
  <2>1. disk'[p] = <<MAGIC>> /\ CellsOK(disk'[p]) /\ disk'[p] # MISSING
    <3>1. CellsOK(<<MAGIC>>)
      BY <1>1, FrontOK
    <3>2. <<MAGIC>> \in Seq(AnyCell)
      BY <3>1 DEF CellsOK
    <3> QED  BY <1>3, <1>6, <3>1, <3>2, ValuesAssumption
  <2>2. DOMAIN disk' = DOMAIN disk /\ \A q \in Paths \ {p} : disk'[q] = disk[q]
    BY <1>3, <1>6
  <2>3. DiskOK' /\ FileOK'
    BY <1>2, <2>1, <2>2, OneGrows DEF TypesInv
  <2>4. SaveOK'
    BY <1>2, <1>3, <1>6 DEF TypesInv, SaveOK
  <2> QED  BY <1>4, <2>3, <2>4 DEF TypesInv
<1>7. CASE /\ disk' = w.disk /\ out' = w.stream /\ todo' = Order
           /\ status' = "saving" /\ written' = put
  <2>1. /\ Growing(w.disk, w.stream) /\ Whole(w.disk, w.stream) = <<MAGIC, h, MARK>>
        /\ w.stream.path = p /\ w.stream.mode = "w"
        /\ DOMAIN w.disk = DOMAIN disk /\ \A q \in DOMAIN disk \ {p} : w.disk[q] = disk[q]
    <3>1. p \in DOMAIN disk /\ HeaderOK(h)
      BY <1>1, <1>3
    <3>2. Begun(w, disk, p, <<MAGIC, h, MARK>>)
      BY <3>1, BeginSave DEF w
    <3> QED  BY <3>2 DEF Begun
  <2>2. Growing(disk', out') /\ Whole(disk', out') = <<MAGIC, h, MARK>> /\ out'.path = p
    BY <1>7, <2>1
  <2>3. CellsOK(Whole(disk', out'))
    BY <1>1, <2>2, FrontOK
  <2>4. CellsOK(disk'[p]) /\ disk'[p] # MISSING
    BY <2>2, <2>3, GrowingOK
  <2>5. DiskOK' /\ FileOK'
    BY <1>2, <1>3, <1>7, <2>1, <2>4, OneGrows DEF TypesInv
  <2>6. Len(<<MAGIC, h, MARK>>) = 3 /\ <<MAGIC, h, MARK>>[2] = h
    OBVIOUS
  <2>7. DOMAIN h.at = DOMAIN written'
    BY <1>1, <1>7 DEF TypesInv, TreeOK
  <2>8. WrittenOK(Whole(disk, out))'
    BY <2>2, <2>3, <2>6, <2>7 DEF WrittenOK, ChunkStart, Whole
  <2>9. todo' \in Seq(Present')
    BY <1>3, <1>7, OrderIsList DEF ListOf, TypesInv
  <2>10. Growing(disk, out)' /\ WrittenOK(Whole(disk, out))' /\ (out.mode)' = "w"
    BY <1>7, <2>1, <2>2, <2>8
  <2>11. SaveOK'
    BY <1>3, <1>7, <2>9, <2>10 DEF SaveOK
  <2> QED  BY <1>4, <2>5, <2>11 DEF TypesInv
<1> QED  BY <1>2, <1>5, <1>6, <1>7

\* What __ba_save_entry_dir() puts into the archive file for an entry.
LEMMA SourceCells ==
    ASSUME TypesInv, NEW e, EntryOK(e), FromArchive(e) => file # NULL
    PROVE  Source(e).bytes \in Seq(Cells)
<1>1. <<>> \in Seq(Cells)
  OBVIOUS
<1>2. /\ e.buffer # NULL => e.buffer \in Seq(Cells)
      /\ e.orig_loc \in DOMAIN Sources \cup {NULL, WILD}
      /\ e.old_start \in Nat \cup {-1} /\ e.size \in Nat
  BY DEF EntryOK
<1>3. e.orig_loc # NULL => FromOrigLoc(e).bytes \in Seq(Cells)
  <2>1. CASE e.orig_loc = WILD
    BY <1>1, <2>1 DEF FromOrigLoc, Given
  <2>2. CASE e.orig_loc \in DOMAIN Sources
    BY <1>1, <2>2, BytesAreCells DEF FromOrigLoc, Given, TypesInv, DiskOK
  <2> QED  BY <1>2, <2>1, <2>2
<1>4. FromArchive(e) => FromChunk(e).bytes \in Seq(Cells)
  BY <1>2, ReadCells DEF FromChunk, Given, TypesInv
<1>5. CASE e.buffer # NULL
  <2>1. Source(e) = Given(e.buffer, TRUE)
    BY <1>5 DEF Source, FromArchive
  <2> QED  BY <1>2, <1>5, <2>1 DEF Given
<1>6. CASE e.buffer = NULL /\ e.orig_loc # NULL
  <2>1. Source(e) = FromOrigLoc(e)
    BY <1>6 DEF Source, FromArchive
  <2> QED  BY <1>3, <1>6, <2>1
<1>7. CASE e.buffer = NULL /\ e.orig_loc = NULL /\ FromArchive(e)
  BY <1>4, <1>7 DEF Source
<1>8. CASE e.buffer = NULL /\ e.orig_loc = NULL /\ ~ FromArchive(e)
  BY <1>1, <1>8 DEF Source, Given
<1> QED  BY <1>5, <1>6, <1>7, <1>8

LEMMA EntryStepTypes == ASSUME TypesInv, __ba_save_entry_dir PROVE TypesInv'
<1>1. CASE Fault
  BY <1>1, FaultTypes
<1>2. CASE ~ Fault
  <2> DEFINE from == Source(entry[Head(todo)])
             w    == Write(disk, out, from.bytes)
  <2>1. /\ status = "saving" /\ todo # <<>>
        /\ FromArchive(entry[Head(todo)]) => file # NULL
        /\ disk' = w.disk /\ out' = w.stream
        /\ todo' = IF from.ok THEN Tail(todo) ELSE Rest(Head(todo))
        /\ UNCHANGED <<status, loc, file, tree, entry, put, written>>
    BY <1>2 DEF __ba_save_entry_dir
  <2>2. /\ todo \in Seq(Present) /\ ~ saved /\ Growing(disk, out) /\ out.mode = "w"
        /\ CellsOK(Whole(disk, out)) /\ Len(Whole(disk, out)) >= 3
        /\ DOMAIN Whole(disk, out)[2].at = DOMAIN written
    BY <2>1 DEF TypesInv, SaveOK, WrittenOK, ChunkStart
  <2>3. Head(todo) \in Present /\ Tail(todo) \in Seq(Present)
    BY <2>1, <2>2, HeadTailProperties
  <2>4. from.bytes \in Seq(Cells)
    BY <2>1, <2>3, SourceCells DEF TypesInv, TreeOK
  <2>5. from.bytes \in Seq(AnyCell)
    BY <2>4, CellsAreCells
  <2> HIDE DEF from
  <2>6. Grown(w, disk, out, from.bytes)
    BY <2>2, <2>5, WriteGrows
  <2>7. out \in Streams /\ out.path \in Archives /\ DOMAIN disk = Paths
        /\ DOMAIN out = {"path", "mode", "pos", "pending"}
    BY <2>2 DEF Growing, Streams, TypesInv, DiskOK
  <2>8. DOMAIN w.disk = Paths /\ \A q \in Paths \ {out.path} : w.disk[q] = disk[q]
    BY <2>7, WriteElsewhere
  <2> HIDE DEF w
  <2>9. /\ Growing(disk', out') /\ out'.path = out.path /\ out'.mode = "w"
        /\ Whole(disk', out') = Whole(disk, out) \o from.bytes
    BY <2>1, <2>2, <2>6 DEF Grown
  <2>10. CellsOK(Whole(disk', out')) /\ Len(Whole(disk', out')) >= 3
         /\ DOMAIN Whole(disk', out')[2].at = DOMAIN written'
    <3>1. /\ CellsOK(Whole(disk, out) \o from.bytes)
          /\ Len(Whole(disk, out) \o from.bytes) = Len(Whole(disk, out)) + Len(from.bytes)
          /\ (Whole(disk, out) \o from.bytes)[2] = Whole(disk, out)[2]
      <4>1. Len(Whole(disk, out)) >= 2
        BY <2>2, LenProperties DEF CellsOK
      <4> QED  BY <2>2, <2>4, <4>1, AppendOK
    <3>2. Len(Whole(disk, out)) \in Nat /\ Len(from.bytes) \in Nat
      BY <2>2, <2>4, LenProperties DEF CellsOK
    <3> QED  BY <2>1, <2>2, <2>9, <3>1, <3>2
  <2>11. CellsOK(disk'[out.path]) /\ disk'[out.path] # MISSING
    BY <2>9, <2>10, GrowingOK
  <2>12. DiskOK' /\ FileOK'
    BY <2>1, <2>7, <2>8, <2>11, OneGrows DEF TypesInv
  <2>13. TreeOK'
    BY <2>1 DEF TypesInv, TreeOK, tree, Present
  <2>14. todo' \in Seq(Present')
    <3>1. root \in Seq(Present) /\ <<>> \in Seq(Present)
      BY SeqMonotonic, EmptySeq DEF TypesInv, TreeOK, ListOf
    <3>2. Rest(Head(todo)) \in Seq(Present)
      BY <3>1 DEF Rest
    <3> QED  BY <2>1, <2>3, <3>2 DEF Present
  <2>15. WrittenOK(Whole(disk, out))' /\ Growing(disk, out)' /\ (out.mode)' = "w"
    BY <2>9, <2>10 DEF WrittenOK, ChunkStart
  <2>16. SaveOK'
    BY <2>1, <2>2, <2>14, <2>15 DEF SaveOK, saved
  <2> QED  BY <2>12, <2>13, <2>16 DEF TypesInv
<1> QED  BY <1>1, <1>2

LEMMA EndTypes == ASSUME TypesInv, SaveEnd PROVE TypesInv'
<1> DEFINE tail == <<NUL, MARK>>
           w == Write(disk, out, tail)
<1>1. /\ status = "saving" /\ todo = <<>> /\ status' = "open" /\ loc' = out.path /\ out' = NULL
      /\ disk' = Closed(w.disk, file) /\ file' = w.stream
      /\ UNCHANGED <<tree, entry, todo, put, written>>
  BY DEF SaveEnd
<1>2. /\ ~ saved /\ Growing(disk, out) /\ out.mode = "w"
      /\ CellsOK(Whole(disk, out)) /\ Len(Whole(disk, out)) >= 3
      /\ DOMAIN Whole(disk, out)[2].at = DOMAIN written
  BY <1>1 DEF TypesInv, SaveOK, WrittenOK, ChunkStart
<1>3. tail \in Seq(Cells) /\ tail \in Seq(AnyCell)
  <2>1. NUL \in Cells /\ MARK \in Cells
    BY DEF Cells
  <2>2. tail \in Seq(Cells)
    BY <2>1
  <2> QED  BY <2>2, CellsAreCells
<1> HIDE DEF tail
<1>4. Grown(w, disk, out, tail)
  BY <1>2, <1>3, WriteGrows
<1>5. out \in Streams /\ out.path \in Archives /\ DOMAIN disk = Paths
      /\ DOMAIN out = {"path", "mode", "pos", "pending"}
  BY <1>2 DEF Growing, Streams, TypesInv, DiskOK
<1>6. DOMAIN w.disk = Paths /\ \A q \in Paths \ {out.path} : w.disk[q] = disk[q]
  BY <1>5, WriteElsewhere
<1> HIDE DEF w
<1>7. disk' = w.disk
  BY <1>1, <1>2 DEF Closed, saved, TypesInv, FileOK, Streams
<1>8. /\ Growing(disk', file') /\ file'.path = out.path /\ file'.mode = "w"
      /\ Whole(disk', file') = Whole(disk, out) \o tail
  BY <1>1, <1>2, <1>4, <1>7 DEF Grown
<1>9. CellsOK(Whole(disk', file')) /\ Len(Whole(disk', file')) >= 3
      /\ DOMAIN Whole(disk', file')[2].at = DOMAIN written'
  <2>1. /\ CellsOK(Whole(disk, out) \o tail)
        /\ Len(Whole(disk, out) \o tail) = Len(Whole(disk, out)) + Len(tail)
        /\ (Whole(disk, out) \o tail)[2] = Whole(disk, out)[2]
    <3>1. Len(Whole(disk, out)) >= 2
      BY <1>2, LenProperties DEF CellsOK
    <3> QED  BY <1>2, <1>3, <3>1, AppendOK
  <2>2. Len(Whole(disk, out)) \in Nat /\ Len(tail) \in Nat
    BY <1>2, <1>3, LenProperties DEF CellsOK
  <2> QED  BY <1>1, <1>2, <1>8, <2>1, <2>2
<1>10. CellsOK(disk'[out.path]) /\ disk'[out.path] # MISSING
  BY <1>8, <1>9, GrowingOK
<1>11. DiskOK'
  BY <1>5, <1>6, <1>7, <1>10, PathsAssumption DEF TypesInv, DiskOK, ArchiveOK, Paths
<1>12. FileOK'
  BY <1>1, <1>5, <1>8, <1>10 DEF FileOK, Growing
<1>13. TreeOK'
  BY <1>1 DEF TypesInv, TreeOK, tree, Present
<1>14. WrittenOK(Whole(disk, file))' /\ Growing(disk, file)' /\ todo' \in Seq(Present')
  BY <1>1, <1>8, <1>9, EmptySeq DEF WrittenOK, ChunkStart
<1>15. SaveOK'
  BY <1>1, <1>14 DEF SaveOK
<1> QED  BY <1>11, <1>12, <1>13, <1>15 DEF TypesInv

LEMMA SourceTypes == ASSUME TypesInv, SourceChanges PROVE TypesInv'
<1>1. PICK p \in DOMAIN Sources, new \in Contents \cup {MISSING} : disk' = [disk EXCEPT ![p] = new]
  BY BytesAssumption DEF SourceChanges, Contents
<1>2. UNCHANGED <<status, loc, file, tree, entry, out, todo, put, written>>
  BY DEF SourceChanges
<1>3. DOMAIN disk' = DOMAIN disk /\ \A q \in Archives : disk'[q] = disk[q]
  BY <1>1, PathsAssumption DEF TypesInv, DiskOK, Paths
<1>4. DiskOK'
  <2>1. \A q \in DOMAIN Sources : disk'[q] \in Contents \cup {MISSING}
    BY <1>1 DEF TypesInv, DiskOK, Paths
  <2> QED  BY <1>3, <2>1 DEF TypesInv, DiskOK, ArchiveOK
<1>5. FileOK' /\ TreeOK'
  BY <1>2, <1>3 DEF TypesInv, FileOK, TreeOK, tree, Present
<1>6. \A s \in Streams : Growing(disk', s) = Growing(disk, s) /\ Whole(disk', s) = Whole(disk, s)
  BY <1>3 DEF Growing, Whole, Streams
<1>7. SaveOK'
  <2>1. status = "saving" => Growing(disk', out) /\ Whole(disk', out) = Whole(disk, out)
    BY <1>6 DEF TypesInv, SaveOK, Growing
  <2>2. status = "open" /\ saved => Growing(disk', file) /\ Whole(disk', file) = Whole(disk, file)
    BY <1>6 DEF TypesInv, SaveOK, Growing
  <2>3. \A c : WrittenOK(c)' <=> WrittenOK(c)
    BY <1>2 DEF WrittenOK
  <2> QED  BY <1>2, <2>1, <2>2 DEF TypesInv, SaveOK, saved, Present, WrittenOK
<1> QED  BY <1>4, <1>5, <1>7 DEF TypesInv

LEMMA TypesStep ==
    ASSUME "use_after_save" \notin Calls, TypesInv, [Next]_vars PROVE TypesInv'
<1>1. Usable => ~ saved
  BY DEF Usable
<1>2. CASE ba_new
  BY <1>2, NewTypes
<1>3. ASSUME NEW p \in Archives, ba_open(p) \/ ba_save(p) PROVE TypesInv'
  <2>1. ba_save(p) => ~ saved
    BY <1>1 DEF ba_save
  <2> QED  BY <1>3, <2>1, OpenTypes, SaveTypes
<1>4. CASE ba_close
  BY <1>4, CloseTypes
<1>5. ASSUME NEW n \in Names,
             \/ \E src \in DOMAIN Sources \cup {NULL} : ba_add_file(n, src)
             \/ ba_remove(n)
             \/ \E c \in Replacements : ba_set_file_contents(n, c)
             \/ ba_get_file_contents(n)
      PROVE  TypesInv'
  <2>1. ~ saved
    BY <1>1, <1>5 DEF ba_add_file, ba_remove, ba_set_file_contents, ba_get_file_contents
  <2> QED  BY <1>5, <2>1, AddTypes, RemoveTypes, SetTypes, GetTypes
<1>6. CASE __ba_save_entry_dir
  BY <1>6, EntryStepTypes
<1>7. CASE SaveEnd
  BY <1>7, EndTypes
<1>8. CASE SourceChanges
  BY <1>8, SourceTypes
<1>9. CASE Crash
  BY <1>9, CrashTypes
<1>10. CASE UNCHANGED vars
  BY <1>10 DEF vars, tree, TypesInv, DiskOK, FileOK, TreeOK, SaveOK, ArchiveOK, Present, WrittenOK,
               saved, Growing, Whole
<1> QED  BY <1>2, <1>3, <1>4, <1>5, <1>6, <1>7, <1>8, <1>9, <1>10 DEF Next

LEMMA TypesInit == Init => TypesInv
<1> SUFFICES ASSUME Init PROVE TypesInv
  OBVIOUS
<1>1. DiskOK
  BY BytesAssumption, PathsAssumption DEF Init, DiskOK, ArchiveOK, Paths, Contents
<1>2. FileOK /\ SaveOK
  BY DEF Init, FileOK, SaveOK, saved
<1>3. TreeOK
  <2>1. Present = {} /\ DOMAIN put = {} /\ root = <<>> /\ sub = <<>>
    BY DEF Init, Present, Nothing
  <2>2. {} \ SubNames = {} /\ {} \cap SubNames = {}
    OBVIOUS
  <2> QED  BY <2>1, <2>2, EmptyList DEF TreeOK
<1> QED  BY <1>1, <1>2, <1>3 DEF TypesInv

LEMMA TypesAlways == ASSUME "use_after_save" \notin Calls PROVE Spec => []TypesInv
<1>1. Init => TypesInv
  BY TypesInit
<1>2. TypesInv /\ [Next]_vars => TypesInv'
  BY TypesStep
<1> QED  BY <1>1, <1>2, PTL DEF Spec

\* Whatever the client calls and whatever fails, as long as an archive is not used after
\* it was saved: the tree, the entries and the history have the same files, each once;
\* the file of an archive goes with its path; a buffer has the size of its entry.
THEOREM ArchiveIsTyped == ASSUME "use_after_save" \notin Calls PROVE Spec => []TypeOK
<1>1. ASSUME TypesInv PROVE TypeOK
  <2>1. DOMAIN disk = Paths /\ status \in {"none", "open", "saving", "crash"}
    BY <1>1 DEF TypesInv, DiskOK, SaveOK
  <2>2. loc \in Archives \cup {NULL} /\ (file = NULL) = (loc = NULL)
    BY <1>1, NullIsNoPath, StreamIsNotNull DEF TypesInv, FileOK
  <2>3. ToSet(root) = Present \ SubNames /\ ToSet(sub) = Present \cap SubNames
    BY <1>1 DEF TypesInv, TreeOK, ListOf
  <2>4. Present \subseteq Names /\ (\A n \in Present : EntryOK(entry[n])) /\ DOMAIN put = Present
    BY <1>1 DEF TypesInv, TreeOK
  <2>5. NoCrash => (out # NULL) = (status = "saving")
    BY <1>1, StreamIsNotNull DEF TypesInv, SaveOK, Growing, NoCrash
  <2>6. ToSet(todo) \subseteq Present
    <3>1. todo \in Seq(Present)
      BY <1>1 DEF TypesInv, SaveOK
    <3>2. DOMAIN todo = 1 .. Len(todo) /\ \A i \in 1 .. Len(todo) : todo[i] \in Present
      BY <3>1, LenProperties, ElementOfSeq
    <3> QED  BY <3>2 DEF ToSet
  <2> QED  BY <2>1, <2>2, <2>3, <2>4, <2>5, <2>6 DEF TypeOK
<1>2. Spec => []TypesInv
  BY TypesAlways
<1> QED  BY <1>1, <1>2, PTL

\* Whatever fails while an archive is saved: once it is saved, its header has all files
\* that the archive had.
THEOREM HeaderHasAllFiles == ASSUME "use_after_save" \notin Calls PROVE Spec => []HeaderListsAll
<1>1. ASSUME TypesInv PROVE HeaderListsAll
  <2> SUFFICES ASSUME status = "open", saved PROVE DOMAIN Image(file)[2].at = DOMAIN written
    BY DEF HeaderListsAll
  <2>1. Growing(disk, file) /\ DOMAIN Whole(disk, file)[2].at = DOMAIN written
    BY <1>1 DEF TypesInv, SaveOK, WrittenOK
  <2>2. Image(file) = Whole(disk, file)
    BY <2>1, ClosedGrown DEF Image, saved
  <2> QED  BY <2>1, <2>2
<1>2. Spec => []TypesInv
  BY TypesAlways
<1> QED  BY <1>1, <1>2, PTL

(***************************************************************************)
(* Nothing is lost: what the client put into an archive is what the        *)
(* archive holds, what a save writes, and what opening the file gives      *)
(* back.  This is so for a client that does none of what Calls names, with *)
(* memory that is zero when it is allocated.                               *)
(***************************************************************************)

Start(e) == IF status = "saving" THEN e.old_start ELSE e.start

\* The contents of n are where its entry says.  The chunk of the archive is not
\* read from the file that is just overwritten.
EntryKept(n) ==
    LET e == entry[n]
    IN  /\ e.orig_loc # WILD
        /\ e.size = Len(put[n])
        /\ Start(e) >= 0 => file # NULL
        /\ e.buffer = NULL /\ e.orig_loc = NULL /\ e.old_start >= 0 /\ status = "saving" =>
             out.path # file.path
        /\ ContentsOf(n) = put[n]

Kept == status \in {"open", "saving"} /\ ~ saved => \A n \in Present : EntryKept(n)

\* The archive file c has a header of all entries, and at its place there whatever
\* of the contents has been put into c.
End(n) == ChunkStart + entry[n].start + entry[n].size

LaidOut(c) ==
    /\ c[2].at = [n \in Present |-> [size |-> entry[n].size, start |-> entry[n].start]]
    /\ \A n \in Present : End(n) <= Len(c) => Chunk(c, entry[n].start, entry[n].size) = put[n]

\* The entries that the save is through with are the first in the order of the tree,
\* and the data chunk has the bytes of these.
Through == Len(Order) - Len(todo)
Done    == {Order[i] : i \in 1 .. Through}

SavingOK ==
    /\ Through >= 0 /\ todo = SubSeq(Order, Through + 1, Len(Order))
    /\ \A n \in Present : entry[n].start = Total(entry, Before(n))
    /\ Len(Whole(disk, out)) = ChunkStart + Total(entry, Done)
    /\ LaidOut(Whole(disk, out))
    /\ written = put

SavedOK ==
    /\ \A n \in Present : entry[n].orig_loc # WILD
    /\ Parse(Whole(disk, file)) = put
    /\ written = put

SafeInv ==
    /\ TypesInv
    /\ NoCrash
    /\ put \in [Present -> Seq(Cells)]
    /\ \A p \in DOMAIN Sources : disk[p] = Sources[p]
    /\ status = "none" => put = Nothing
    /\ Kept
    /\ status = "saving" => SavingOK
    /\ status = "open" /\ saved => SavedOK

\* A client that does none of what Calls names.
Safe == Calls = {} /\ ~ HeapResidue

(***************************************************************************)
(* The order of the entries and their starts.                              *)
(***************************************************************************)
LEMMA BeforeIs ==
    ASSUME TreeOK, NEW i \in 1 .. Len(Order)
    PROVE  Before(Order[i]) = {Order[j] : j \in 1 .. i - 1}
<1>1. /\ Len(Order) \in Nat /\ DOMAIN Order = 1 .. Len(Order)
      /\ \A j, k \in 1 .. Len(Order) : Order[j] = Order[k] => j = k
  BY OrderIsList, ListFacts
<1>2. \A k \in DOMAIN Order : Order[i] \notin {Order[j] : j \in 1 .. k} <=> k \in 1 .. i - 1
  <2> SUFFICES ASSUME NEW k \in 1 .. Len(Order)
               PROVE  Order[i] \notin {Order[j] : j \in 1 .. k} <=> k < i
    BY <1>1
  <2>1. \A j \in 1 .. k : j \in 1 .. Len(Order)
    BY <1>1
  <2>2. Order[i] \in {Order[j] : j \in 1 .. k} <=> \E j \in 1 .. k : i = j
    BY <1>1, <2>1
  <2> QED  BY <1>1, <2>2
<1>3. \A k \in 1 .. i - 1 : k \in DOMAIN Order
  BY <1>1
<1>4. {k \in DOMAIN Order : Order[i] \notin {Order[j] : j \in 1 .. k}} = 1 .. i - 1
  BY <1>2, <1>3
<1> QED  BY <1>4 DEF Before

\* Entries that come later start later.
LEMMA TotalGrows ==
    ASSUME TreeOK, NEW E, \A n \in Present : E[n].size \in Nat,
           NEW T \in SUBSET Present, NEW S \in SUBSET T
    PROVE  Total(E, S) \in Nat /\ Total(E, T) \in Nat /\ Total(E, S) <= Total(E, T)
<1> DEFINE f == [n \in T |-> E[n].size]
<1>1. Total(E, S) \in Nat /\ Total(E, T) \in Nat
  BY TotalType
<1>2. Sizeable(f, T)
  <2>1. IsFiniteSet(T)
    BY NamesAssumption, FS_Subset DEF TreeOK
  <2> QED  BY <2>1 DEF Sizeable
<1>3. SizeSum(f, T \ S) = SizeSum(f, T) - SizeSum(f, S) /\ SizeSum(f, T \ S) \in Nat
  BY <1>2, SumWithout
<1>4. SizeSum(f, S) = Total(E, S)
  <2>1. \A n \in S : f[n] = [m \in S |-> E[m].size][n]
    OBVIOUS
  <2> QED  BY <2>1, SumSame DEF Total
<1>5. SizeSum(f, T) = Total(E, T)
  BY DEF Total
<1> HIDE DEF f
<1> QED  BY <1>1, <1>3, <1>4, <1>5

\* One entry more has its bytes more.
LEMMA TotalMore ==
    ASSUME TreeOK, NEW E, \A n \in Present : E[n].size \in Nat,
           NEW S \in SUBSET Present, NEW n \in Present \ S
    PROVE  Total(E, S \cup {n}) = Total(E, S) + E[n].size
<1> DEFINE T == S \cup {n}
           f == [m \in T |-> E[m].size]
<1>1. Sizeable(f, S)
  <2>1. IsFiniteSet(S)
    BY NamesAssumption, FS_Subset DEF TreeOK
  <2> QED  BY <2>1 DEF Sizeable
<1>2. SizeSum(f, T) = SizeSum(f, S) + f[n]
  <2>1. f[n] = E[n].size /\ f[n] \in Nat /\ n \notin S
    OBVIOUS
  <2> HIDE DEF f
  <2> QED  BY <1>1, <2>1, SumMore
<1>3. SizeSum(f, S) = Total(E, S)
  <2>1. \A m \in S : f[m] = [k \in S |-> E[k].size][m]
    OBVIOUS
  <2> QED  BY <2>1, SumSame DEF Total
<1>4. SizeSum(f, T) = Total(E, T) /\ f[n] = E[n].size
  BY DEF Total
<1> HIDE DEF f
<1> QED  BY <1>2, <1>3, <1>4

(***************************************************************************)
(* Chunks of archive files.                                                *)
(***************************************************************************)
\* What is put behind a chunk does not change it.
LEMMA ChunkSame ==
    ASSUME NEW a \in Seq(AnyCell), NEW b \in Seq(AnyCell), CellsOK(a \o b),
           NEW start \in Nat, NEW size \in Nat, ChunkStart + start + size <= Len(a)
    PROVE  /\ Chunk(a \o b, start, size) = Chunk(a, start, size)
           /\ ChunkStart + start + size <= Len(a \o b)
<1> DEFINE c == a \o b
<1>1. /\ Len(a) \in Nat /\ Len(b) \in Nat /\ Len(c) = Len(a) + Len(b)
      /\ \A i \in 1 .. Len(a) + Len(b) : c[i] = IF i <= Len(a) THEN a[i] ELSE b[i - Len(a)]
      /\ ChunkStart = 3
  BY ConcatProperties, LenProperties DEF ChunkStart
<1>2. CellsOK(a) /\ CellsOK(c)
  BY PrefixOK
<1> HIDE DEF c
<1>3. ChunkStart + start + size <= Len(c)
  BY <1>1
<1>4. /\ Chunk(a, start, size) \in Seq(Cells) /\ Len(Chunk(a, start, size)) = size
      /\ \A i \in 1 .. size : Chunk(a, start, size)[i] = a[ChunkStart + start + i]
  BY <1>2, ChunkCells
<1>5. /\ Chunk(c, start, size) \in Seq(Cells) /\ Len(Chunk(c, start, size)) = size
      /\ \A i \in 1 .. size : Chunk(c, start, size)[i] = c[ChunkStart + start + i]
  BY <1>2, <1>3, ChunkCells
<1>6. \A i \in 1 .. size : c[ChunkStart + start + i] = a[ChunkStart + start + i]
  <2>1. \A i \in 1 .. size : /\ ChunkStart + start + i \in 1 .. Len(a) + Len(b)
                             /\ ChunkStart + start + i <= Len(a)
    BY <1>1
  <2> QED  BY <1>1, <2>1
<1>7. Chunk(c, start, size) = Chunk(a, start, size)
  BY <1>4, <1>5, <1>6, SeqEqual
<1> QED  BY <1>3, <1>7 DEF c

\* What is put at the end is a chunk.
LEMMA ChunkNew ==
    ASSUME NEW a, CellsOK(a), Len(a) >= ChunkStart, NEW b \in Seq(Cells)
    PROVE  Chunk(a \o b, Len(a) - ChunkStart, Len(b)) = b
<1> DEFINE c == a \o b
           start == Len(a) - ChunkStart
<1>1. /\ ChunkStart = 3 /\ Len(a) \in Nat /\ Len(b) \in Nat
      /\ a \in Seq(AnyCell) /\ b \in Seq(AnyCell)
  BY LenProperties, CellsAreCells DEF ChunkStart, CellsOK
<1>2. /\ Len(c) = Len(a) + Len(b)
      /\ \A i \in 1 .. Len(a) + Len(b) : c[i] = IF i <= Len(a) THEN a[i] ELSE b[i - Len(a)]
  BY <1>1, ConcatProperties
<1>3. CellsOK(c)
  BY <1>1, AppendOK
<1> HIDE DEF c
<1>4. start \in Nat /\ ChunkStart + start + Len(b) <= Len(c) /\ ChunkStart + start = Len(a)
  BY <1>1, <1>2
<1> HIDE DEF start
<1>5. /\ Chunk(c, start, Len(b)) \in Seq(Cells) /\ Len(Chunk(c, start, Len(b))) = Len(b)
      /\ \A i \in 1 .. Len(b) : Chunk(c, start, Len(b))[i] = c[ChunkStart + start + i]
  BY <1>1, <1>3, <1>4, ChunkCells
<1>6. \A i \in 1 .. Len(b) : c[ChunkStart + start + i] = b[i]
  <2> SUFFICES ASSUME NEW i \in 1 .. Len(b) PROVE c[Len(a) + i] = b[i]
    BY <1>4
  <2>1. Len(a) + i \in 1 .. Len(a) + Len(b) /\ ~ Len(a) + i <= Len(a) /\ (Len(a) + i) - Len(a) = i
    BY <1>1
  <2> QED  BY <1>2, <2>1
<1>7. Chunk(c, start, Len(b)) = b
  BY <1>5, <1>6, SeqEqual
<1> QED  BY <1>7 DEF c, start

\* A chunk of no bytes.
LEMMA ChunkNone ==
    ASSUME NEW c, CellsOK(c), NEW start \in Nat, ChunkStart + start <= Len(c),
           NEW b \in Seq(Cells), Len(b) = 0
    PROVE  Chunk(c, start, 0) = b
<1>1. Chunk(c, start, 0) \in Seq(Cells) /\ Len(Chunk(c, start, 0)) = 0
  <2>1. ChunkStart + start + 0 <= Len(c)
    BY DEF ChunkStart
  <2> QED  BY <2>1, ChunkCells
<1> QED  BY <1>1, EmptySeq

(***************************************************************************)
(* What a file holds as much of as is there.                               *)
(***************************************************************************)
EntriesOK ==
    /\ put \in [Present -> Seq(Cells)]
    /\ \A n \in Present : /\ entry[n].start \in Nat
                          /\ entry[n].size \in Nat /\ entry[n].size = Len(put[n])

LEMMA LaidPrefix ==
    ASSUME EntriesOK, NEW a \in Seq(AnyCell), NEW b \in Seq(AnyCell), CellsOK(a \o b),
           LaidOut(a \o b), Len(a) >= 2
    PROVE  LaidOut(a)
<1>1. (a \o b)[2] = a[2]
  <2>1. /\ Len(a) \in Nat /\ Len(b) \in Nat
        /\ \A i \in 1 .. Len(a) + Len(b) : (a \o b)[i] = IF i <= Len(a) THEN a[i] ELSE b[i - Len(a)]
    BY ConcatProperties, LenProperties
  <2>2. 2 \in 1 .. Len(a) + Len(b) /\ 2 <= Len(a)
    BY <2>1
  <2> QED  BY <2>1, <2>2
<1>2. ASSUME NEW n \in Present, End(n) <= Len(a)
      PROVE  Chunk(a, entry[n].start, entry[n].size) = put[n]
  <2>1. entry[n].start \in Nat /\ entry[n].size \in Nat
    BY DEF EntriesOK
  <2>2. /\ Chunk(a \o b, entry[n].start, entry[n].size) = Chunk(a, entry[n].start, entry[n].size)
        /\ End(n) <= Len(a \o b)
    BY <1>2, <2>1, ChunkSame DEF End
  <2> QED  BY <2>2 DEF LaidOut
<1> QED  BY <1>1, <1>2 DEF LaidOut

\* A file that is laid out is complete or not; if it is, it holds what was put.
LEMMA LaidParse ==
    ASSUME EntriesOK, NEW c, CellsOK(c), Len(c) >= 2 => LaidOut(c)
    PROVE  Parse(c) = IF Len(c) >= ChunkStart /\ \A n \in Present : End(n) <= Len(c)
                      THEN put ELSE NULL
<1>1. Len(c) \in Nat /\ c # MISSING /\ ChunkStart = 3
  BY LenProperties, ValuesAssumption DEF CellsOK, ChunkStart
<1>2. CASE Len(c) < ChunkStart
  BY <1>1, <1>2 DEF Parse
<1>3. CASE Len(c) >= ChunkStart
  <2> DEFINE at == c[2].at
  <2>1. LaidOut(c) /\ 2 \in 1 .. Len(c)
    BY <1>1, <1>3
  <2>2. c[2] # NUL
    BY <2>1, ValuesAssumption DEF CellsOK, HeaderOK
  <2>3. at = [n \in Present |-> [size |-> entry[n].size, start |-> entry[n].start]]
    BY <2>1 DEF LaidOut
  <2>4. Parse(c) = IF \E n \in DOMAIN at : ChunkStart + at[n].start + at[n].size > Len(c) THEN NULL
                   ELSE [n \in DOMAIN at |-> Chunk(c, at[n].start, at[n].size)]
    BY <1>1, <1>3, <2>2 DEF Parse
  <2>5. DOMAIN at = Present /\ \A n \in Present : at[n].start = entry[n].start /\ at[n].size = entry[n].size
    BY <2>3
  <2> HIDE DEF at
  <2>6. \A n \in Present : End(n) \in Nat /\ (End(n) > Len(c) <=> ~ End(n) <= Len(c))
    <3>1. \A n \in Present : entry[n].start \in Nat /\ entry[n].size \in Nat
      BY DEF EntriesOK
    <3>2. \A n \in Present : End(n) \in Nat
      BY <1>1, <3>1 DEF End
    <3> QED  BY <1>1, <3>2
  <2>7. CASE \A n \in Present : End(n) <= Len(c)
    <3>1. \A n \in Present : Chunk(c, at[n].start, at[n].size) = put[n]
      BY <2>1, <2>5, <2>7 DEF LaidOut
    <3>2. [n \in DOMAIN at |-> Chunk(c, at[n].start, at[n].size)] = put
      BY <2>5, <3>1 DEF EntriesOK
    <3>3. ~ \E n \in DOMAIN at : ChunkStart + at[n].start + at[n].size > Len(c)
      BY <2>5, <2>6, <2>7 DEF End
    <3> QED  BY <1>3, <2>4, <2>7, <3>2, <3>3
  <2>8. CASE \E n \in Present : ~ End(n) <= Len(c)
    <3>1. \E n \in DOMAIN at : ChunkStart + at[n].start + at[n].size > Len(c)
      BY <2>5, <2>6, <2>8 DEF End
    <3> QED  BY <2>4, <2>8, <3>1
  <2> QED  BY <2>7, <2>8
<1> QED  BY <1>1, <1>2, <1>3

\* The first k entries are in the file, the others are not.
LaidAt(c, k) ==
    /\ Len(c) = ChunkStart + Total(entry, {Order[i] : i \in 1 .. k})
    /\ LaidOut(c)

Arranged == \A n \in Present : entry[n].start = Total(entry, Before(n))

LEMMA FirstOnes ==
    ASSUME TreeOK, NEW k \in 0 .. Len(Order)
    PROVE  {Order[i] : i \in 1 .. k} \in SUBSET Present
<1>1. Len(Order) \in Nat /\ \A i \in 1 .. Len(Order) : Order[i] \in Present
  BY OrderIsList, ListFacts
<1>2. \A i \in 1 .. k : i \in 1 .. Len(Order)
  BY <1>1
<1> QED  BY <1>1, <1>2

\* Where entry k + 1 starts and those after it, when the first k are in the file.
LEMMA StartsAfter ==
    ASSUME TreeOK, EntriesOK, Arranged, NEW k \in 0 .. Len(Order), NEW i \in k + 1 .. Len(Order)
    PROVE  /\ Total(entry, {Order[j] : j \in 1 .. k}) \in Nat
           /\ entry[Order[i]].start >= Total(entry, {Order[j] : j \in 1 .. k})
           /\ i = k + 1 => entry[Order[i]].start = Total(entry, {Order[j] : j \in 1 .. k})
<1>1. /\ Len(Order) \in Nat /\ i \in 1 .. Len(Order) /\ i - 1 \in 0 .. Len(Order)
      /\ Order[i] \in Present
  <2>1. Len(Order) \in Nat /\ \A j \in 1 .. Len(Order) : Order[j] \in Present
    BY OrderIsList, ListFacts
  <2>2. i \in 1 .. Len(Order) /\ i - 1 \in 0 .. Len(Order)
    BY <2>1
  <2> QED  BY <2>1, <2>2
<1>2. entry[Order[i]].start = Total(entry, {Order[j] : j \in 1 .. i - 1})
  BY <1>1, BeforeIs DEF Arranged
<1>3. {Order[j] : j \in 1 .. k} \in SUBSET {Order[j] : j \in 1 .. i - 1}
  <2>1. \A j \in 1 .. k : j \in 1 .. i - 1
    BY <1>1
  <2> QED  BY <2>1
<1>4. {Order[j] : j \in 1 .. i - 1} \in SUBSET Present
  BY <1>1, FirstOnes
<1> DEFINE S == {Order[j] : j \in 1 .. k}
           T == {Order[j] : j \in 1 .. i - 1}
<1> HIDE DEF S, T
<1>5. Total(entry, S) \in Nat /\ Total(entry, T) \in Nat /\ Total(entry, S) <= Total(entry, T)
  <2>1. \A n \in Present : entry[n].size \in Nat
    BY DEF EntriesOK
  <2>2. T \in SUBSET Present /\ S \in SUBSET T
    BY <1>3, <1>4 DEF S, T
  <2> QED  BY <2>1, <2>2, TotalGrows
<1>6. i = k + 1 => S = T
  <2>1. i = k + 1 => i - 1 = k
    BY <1>1
  <2> QED  BY <2>1 DEF S, T
<1> QED  BY <1>2, <1>5, <1>6 DEF S, T

\* The first k entries end where the k entries end.
LEMMA EndsBefore ==
    ASSUME TreeOK, EntriesOK, Arranged, NEW k \in 0 .. Len(Order), NEW i \in 1 .. k
    PROVE  End(Order[i]) <= ChunkStart + Total(entry, {Order[j] : j \in 1 .. k})
<1> DEFINE m == Order[i]
           B == {Order[j] : j \in 1 .. i - 1}
           D == {Order[j] : j \in 1 .. k}
<1>1. /\ Len(Order) \in Nat /\ i \in 1 .. Len(Order) /\ m \in Present
      /\ \A j, l \in 1 .. Len(Order) : Order[j] = Order[l] => j = l
  <2>1. /\ Len(Order) \in Nat /\ \A j \in 1 .. Len(Order) : Order[j] \in Present
        /\ \A j, l \in 1 .. Len(Order) : Order[j] = Order[l] => j = l
    BY OrderIsList, ListFacts
  <2>2. i \in 1 .. Len(Order)
    BY <2>1
  <2> QED  BY <2>1, <2>2
<1>2. i - 1 \in 0 .. Len(Order) /\ i \in (i - 1) + 1 .. Len(Order) /\ i = (i - 1) + 1
  BY <1>1
<1>3. entry[m].start = Total(entry, B) /\ Total(entry, B) \in Nat
  BY <1>2, StartsAfter
<1>4. B \cup {m} \in SUBSET D /\ D \in SUBSET Present /\ B \in SUBSET Present
  <2>1. \A j \in 1 .. i - 1 : j \in 1 .. k
    BY <1>1
  <2> QED  BY <1>1, <2>1, FirstOnes
<1>5. m \notin B
  <2>1. \A j \in 1 .. i - 1 : j \in 1 .. Len(Order) /\ j # i
    BY <1>1
  <2> QED  BY <1>1, <2>1
<1>6. (\A x \in Present : entry[x].size \in Nat) /\ ChunkStart = 3
  BY DEF EntriesOK, ChunkStart
<1> HIDE DEF B, D, m
<1>7. Total(entry, B \cup {m}) = Total(entry, B) + entry[m].size
  BY <1>1, <1>4, <1>5, <1>6, TotalMore DEF m
<1>8. Total(entry, B \cup {m}) <= Total(entry, D) /\ Total(entry, D) \in Nat
  BY <1>4, <1>6, TotalGrows
<1>9. End(m) <= ChunkStart + Total(entry, D)
  <2>1. entry[m].size \in Nat
    BY <1>1, <1>6 DEF m
  <2>2. End(m) = ChunkStart + entry[m].start + entry[m].size
    BY DEF End
  <2> QED  BY <1>3, <1>6, <1>7, <1>8, <2>1, <2>2
<1> QED  BY <1>9 DEF m, D

\* The next entry is put into the file.
LEMMA LaidMore ==
    ASSUME TreeOK, EntriesOK, Arranged, NEW k \in 0 .. Len(Order) - 1,
           NEW c, CellsOK(c), Len(c) >= ChunkStart, LaidAt(c, k)
    PROVE  /\ LaidAt(c \o put[Order[k + 1]], k + 1)
           /\ Len(c) = ChunkStart + entry[Order[k + 1]].start
<1> DEFINE n == Order[k + 1]
           b == put[n]
           w == c \o b
           D == {Order[i] : i \in 1 .. k}
           E == {Order[i] : i \in 1 .. k + 1}
<1>1. /\ Len(Order) \in Nat /\ k \in 0 .. Len(Order) /\ k + 1 \in k + 1 .. Len(Order)
      /\ k + 1 \in 0 .. Len(Order) /\ k + 1 \in 1 .. Len(Order) /\ n \in Present
      /\ \A i, j \in 1 .. Len(Order) : Order[i] = Order[j] => i = j
      /\ \A m \in Present : \E i \in 1 .. Len(Order) : Order[i] = m
  <2>1. /\ Len(Order) \in Nat /\ \A j \in 1 .. Len(Order) : Order[j] \in Present
        /\ \A i, j \in 1 .. Len(Order) : Order[i] = Order[j] => i = j
        /\ \A m \in Present : \E i \in 1 .. Len(Order) : Order[i] = m
    BY OrderIsList, ListFacts
  <2>2. k \in 0 .. Len(Order) /\ k + 1 \in 1 .. Len(Order)
    BY <2>1
  <2> QED  BY <2>1, <2>2
<1>2. /\ b \in Seq(Cells) /\ entry[n].size = Len(b) /\ Len(b) \in Nat /\ entry[n].start \in Nat
  BY <1>1, LenProperties DEF EntriesOK
<1>3. Len(c) \in Nat /\ ChunkStart = 3 /\ Len(c) = ChunkStart + Total(entry, D) /\ LaidOut(c)
  BY LenProperties DEF CellsOK, LaidAt, ChunkStart
<1>4. Total(entry, D) \in Nat /\ entry[n].start = Total(entry, D)
  BY <1>1, StartsAfter
<1>5. Total(entry, E) = Total(entry, D) + entry[n].size
  <2>1. D \in SUBSET Present
    BY <1>1, FirstOnes
  <2>2. n \notin D
    <3>1. \A i \in 1 .. k : i \in 1 .. Len(Order) /\ i # k + 1
      BY <1>1
    <3> QED  BY <1>1, <3>1
  <2>3. E = D \cup {n}
    <3>1. \A i : i \in 1 .. k + 1 <=> i \in 1 .. k \/ i = k + 1
      BY <1>1
    <3> QED  BY <3>1
  <2>4. \A m \in Present : entry[m].size \in Nat
    BY DEF EntriesOK
  <2> HIDE DEF D, E, n
  <2>5. Total(entry, D \cup {n}) = Total(entry, D) + entry[n].size
    BY <1>1, <2>1, <2>2, <2>4, TotalMore
  <2> QED  BY <2>3, <2>5
<1>6. CellsOK(w) /\ Len(w) = Len(c) + Len(b) /\ w[2] = c[2]
  <2>1. Len(c) >= 2
    BY <1>3
  <2> QED  BY <1>2, <2>1, AppendOK
<1>7. c \in Seq(AnyCell) /\ b \in Seq(AnyCell)
  BY <1>2, CellsAreCells DEF CellsOK
<1> HIDE DEF D, E, w, n, b
<1>8. Len(w) = ChunkStart + Total(entry, E)
  BY <1>2, <1>3, <1>4, <1>5, <1>6
<1>9. ASSUME NEW m \in Present, End(m) <= Len(w)
      PROVE  Chunk(w, entry[m].start, entry[m].size) = put[m]
  <2>1. /\ entry[m].start \in Nat /\ entry[m].size \in Nat /\ entry[m].size = Len(put[m])
        /\ put[m] \in Seq(Cells)
    BY DEF EntriesOK
  <2>2. CASE End(m) <= Len(c)
    <3>1. Chunk(w, entry[m].start, entry[m].size) = Chunk(c, entry[m].start, entry[m].size)
      BY <1>6, <1>7, <2>1, <2>2, ChunkSame DEF End, w
    <3> QED  BY <1>3, <2>2, <3>1 DEF LaidOut
  <2>3. CASE m = n
    <3>1. entry[m].start = Len(c) - ChunkStart /\ entry[m].size = Len(b)
      BY <1>2, <1>3, <1>4, <2>3
    <3>2. Chunk(w, Len(c) - ChunkStart, Len(b)) = b
      BY <1>2, ChunkNew DEF w
    <3> QED  BY <2>3, <3>1, <3>2 DEF b
  <2>4. CASE ~ End(m) <= Len(c) /\ m # n
    <3>1. PICK i \in 1 .. Len(Order) : Order[i] = m
      BY <1>1
    <3>2. CASE i \in k + 2 .. Len(Order)
      <4>1. i \in (k + 1) + 1 .. Len(Order)
        BY <1>1, <3>2
      <4>2. entry[m].start >= Total(entry, E) /\ Total(entry, E) \in Nat
        BY <1>1, <3>1, <4>1, StartsAfter DEF E
      <4>3. entry[m].size = 0 /\ ChunkStart + entry[m].start <= Len(w)
        <5>1. ChunkStart + entry[m].start + entry[m].size <= ChunkStart + Total(entry, E)
          BY <1>8, <1>9 DEF End
        <5>2. \A s, z, t \in Nat : ChunkStart + s + z <= ChunkStart + t /\ s >= t => z = 0 /\ s = t
          BY <1>3
        <5>3. entry[m].size = 0 /\ entry[m].start = Total(entry, E)
          BY <2>1, <4>2, <5>1, <5>2
        <5>4. ChunkStart + Total(entry, E) <= ChunkStart + Total(entry, E)
          BY <1>3, <4>2
        <5> QED  BY <1>8, <5>3, <5>4
      <4> QED  BY <1>6, <2>1, <4>3, ChunkNone
    <3>3. CASE i \in 1 .. k
      <4>1. End(m) <= ChunkStart + Total(entry, D)
        BY <1>1, <3>1, <3>3, EndsBefore DEF D
      <4> QED  BY <1>3, <2>4, <4>1
    <3>4. i \in 1 .. k \/ i = k + 1 \/ i \in k + 2 .. Len(Order)
      BY <1>1
    <3> QED  BY <2>4, <3>1, <3>2, <3>3, <3>4 DEF n
  <2> QED  BY <2>2, <2>3, <2>4
<1>10. LaidAt(w, k + 1)
  BY <1>3, <1>6, <1>8, <1>9 DEF LaidAt, LaidOut, E
<1> QED  BY <1>3, <1>4, <1>10 DEF w, b, n

(***************************************************************************)
(* Where contents are, and what saving takes for them.                     *)
(***************************************************************************)
LEMMA ContentsAre ==
    ASSUME NEW n
    PROVE  LET e == entry[n]
           IN  /\ e.buffer # NULL => ContentsOf(n) = e.buffer
               /\ e.buffer = NULL /\ e.orig_loc # NULL /\ e.orig_loc # WILD =>
                    ContentsOf(n) = disk[e.orig_loc]
               /\ e.buffer = NULL /\ e.orig_loc = NULL /\ Start(e) >= 0 /\ file # NULL =>
                    ContentsOf(n) = Read(file, Start(e), e.size)
               /\ e.buffer = NULL /\ e.orig_loc = NULL /\ ~ Start(e) >= 0 => ContentsOf(n) = <<>>
BY StreamIsNotNull DEF ContentsOf, Start

LEMMA ContentsAreThen ==
    ASSUME NEW n
    PROVE  LET e == entry[n]'
           IN  /\ e.buffer # NULL => ContentsOf(n)' = e.buffer
               /\ e.buffer = NULL /\ e.orig_loc # NULL /\ e.orig_loc # WILD =>
                    ContentsOf(n)' = disk'[e.orig_loc]
               /\ e.buffer = NULL /\ e.orig_loc = NULL /\ Start(entry[n])' >= 0 /\ file' # NULL =>
                    ContentsOf(n)' = Read(file, Start(entry[n]), entry[n].size)'
               /\ e.buffer = NULL /\ e.orig_loc = NULL /\ ~ Start(entry[n])' >= 0 =>
                    ContentsOf(n)' = <<>>
BY StreamIsNotNull DEF ContentsOf, Start, Read

\* While saving, every entry gives its contents.
LEMMA SourceGives ==
    ASSUME SafeInv, status = "saving", NEW n \in Present
    PROVE  /\ FromArchive(entry[n]) => file # NULL
           /\ Source(entry[n]) = Given(put[n], TRUE)
<1> DEFINE e == entry[n]
<1>1. /\ EntryKept(n) /\ EntryOK(e) /\ put[n] \in Seq(Cells) /\ Start(e) = e.old_start
      /\ ~ saved
  BY DEF SafeInv, Kept, TypesInv, TreeOK, SaveOK, Start
<1>2. /\ e.orig_loc # WILD /\ e.size = Len(put[n]) /\ ContentsOf(n) = put[n]
      /\ e.old_start >= 0 => file # NULL
  BY <1>1 DEF EntryKept
<1>3. CASE e.buffer # NULL
  <2>1. Source(e) = Given(e.buffer, TRUE)
    BY <1>3 DEF Source, FromArchive
  <2> QED  BY <1>2, <1>3, <2>1, ContentsAre DEF FromArchive
<1>4. CASE e.buffer = NULL /\ e.orig_loc # NULL
  <2>1. Source(e) = FromOrigLoc(e)
    BY <1>4 DEF Source, FromArchive
  <2>2. ContentsOf(n) = disk[e.orig_loc]
    BY <1>2, <1>4, ContentsAre
  <2>3. disk[e.orig_loc] # MISSING
    <3>1. put[n] \in Seq(AnyCell)
      BY <1>1, CellsAreCells
    <3> QED  BY <1>2, <2>2, <3>1, ValuesAssumption
  <2>4. FromOrigLoc(e) = Given(disk[e.orig_loc], TRUE)
    BY <1>2, <2>3 DEF FromOrigLoc
  <2> QED  BY <1>2, <1>4, <2>1, <2>2, <2>4 DEF FromArchive
<1>5. CASE FromArchive(e)
  <2>1. e.buffer = NULL /\ e.orig_loc = NULL /\ e.old_start >= 0
    BY <1>5 DEF FromArchive
  <2>2. ContentsOf(n) = Read(file, e.old_start, e.size)
    BY <1>1, <1>2, <2>1, ContentsAre
  <2>3. Source(e) = FromChunk(e)
    BY <1>5, <2>1 DEF Source
  <2> QED  BY <1>2, <2>1, <2>2, <2>3 DEF FromChunk
<1>6. CASE e.buffer = NULL /\ e.orig_loc = NULL /\ ~ FromArchive(e)
  <2>1. ~ e.old_start >= 0
    BY <1>6 DEF FromArchive
  <2>2. ContentsOf(n) = <<>>
    BY <1>1, <1>6, <2>1, ContentsAre
  <2>3. Source(e) = Given(<<>>, TRUE)
    BY <1>6 DEF Source
  <2> QED  BY <1>2, <1>6, <2>2, <2>3
<1> QED  BY <1>3, <1>4, <1>5, <1>6

\* Reading an entry into its buffer gives its contents.
LEMMA BufferGives ==
    ASSUME SafeInv, status = "open", ~ saved, file # NULL, NEW n \in Present,
           entry[n].orig_loc = NULL \/ entry[n].buffer # NULL
    PROVE  __ba_buffer_file(entry[n]) = [entry[n] EXCEPT !.buffer = put[n]]
<1> DEFINE e == entry[n]
<1>1. EntryKept(n) /\ EntryOK(e) /\ put[n] \in Seq(Cells) /\ Start(e) = e.start
  BY DEF SafeInv, Kept, TypesInv, TreeOK, Start
<1>2. e.size = Len(put[n]) /\ ContentsOf(n) = put[n] /\ e.size \in Nat /\ e.start \in Nat \cup {-1}
  BY <1>1 DEF EntryKept, EntryOK
<1>3. CASE e.buffer # NULL
  <2>1. e.buffer = put[n]
    BY <1>2, <1>3, ContentsAre
  <2>2. [e EXCEPT !.buffer = e.buffer] = e
    BY <1>1 DEF EntryOK
  <2> QED  BY <1>3, <2>1, <2>2 DEF __ba_buffer_file
<1>4. CASE e.buffer = NULL
  <2>1. Read(file, e.start, e.size) \in Seq(Cells)
    BY <1>2, ReadCells DEF SafeInv, TypesInv
  <2>2. Buffer(Read(file, e.start, e.size), e.size) = put[n]
    <3>1. CASE e.start >= 0
      <4>1. Read(file, e.start, e.size) = put[n]
        BY <1>1, <1>2, <1>4, <3>1, ContentsAre
      <4> QED  BY <1>1, <1>2, <4>1, BufferFacts
    <3>2. CASE ~ e.start >= 0
      <4>1. put[n] = <<>>
        BY <1>1, <1>2, <1>4, <3>2, ContentsAre
      <4>2. e.size = 0
        BY <1>2, <4>1, EmptySeq
      <4>3. /\ Buffer(Read(file, e.start, e.size), e.size) \in Seq(Cells)
            /\ Len(Buffer(Read(file, e.start, e.size), e.size)) = 0
        BY <2>1, <1>2, <4>2, BufferFacts
      <4> QED  BY <4>1, <4>3, EmptySeq
    <3> QED  BY <3>1, <3>2
  <2> QED  BY <1>4, <2>2 DEF __ba_buffer_file
<1> QED  BY <1>3, <1>4

(***************************************************************************)
(* One lemma for each action.                                              *)
(***************************************************************************)
\* An entry that is not touched keeps its contents.
LEMMA KeptSame ==
    ASSUME NEW n, EntryKept(n), entry'[n] = entry[n], put'[n] = put[n],
           status = "open", UNCHANGED <<disk, status, file>>
    PROVE  EntryKept(n)'
BY DEF EntryKept, ContentsOf, Start, Read

\* Changes to an archive that has not been saved.
LEMMA SafeEdit ==
    ASSUME SafeInv, TypesInv', status = "open", ~ saved, UNCHANGED <<disk, status, file>>,
           put' \in [Present' -> Seq(Cells)], \A n \in Present' : EntryKept(n)'
    PROVE  SafeInv'
<1>1. status' = "open" /\ ~ saved'
  BY DEF saved
<1>2. NoCrash' /\ Kept' /\ (\A p \in DOMAIN Sources : disk'[p] = Sources[p])
  BY <1>1 DEF NoCrash, Kept, SafeInv
<1> QED  BY <1>1, <1>2 DEF SafeInv

LEMMA AddKeeps ==
    ASSUME SafeInv, TypesInv', NEW n \in Names, NEW src \in DOMAIN Sources \cup {NULL},
           ~ saved, ba_add_file(n, src)
    PROVE  SafeInv'
<1> DEFINE contents == IF src = NULL THEN <<>> ELSE disk[src]
           new == [orig_loc |-> src, buffer |-> NULL, size |-> Len(contents),
                   start |-> -1, old_start |-> -1]
<1>1. /\ status = "open" /\ n \notin Present
      /\ entry' = [m \in Present \cup {n} |-> IF m = n THEN new ELSE entry[m]]
      /\ put' = [m \in Present \cup {n} |-> IF m = n THEN contents ELSE put[m]]
      /\ UNCHANGED <<disk, status, file>>
  BY DEF ba_add_file, Usable
<1>2. contents \in Seq(Cells) /\ src # WILD /\ (src # NULL => contents = disk'[src])
  <2>1. src # WILD
    BY PathsAssumption, StreamIsNotNull
  <2>2. src # NULL => disk[src] = Sources[src] /\ Sources[src] \in Contents
    BY BytesAssumption DEF SafeInv, Contents
  <2> QED  BY <1>1, <2>1, <2>2, BytesAreCells
<1>3. /\ new.orig_loc = src /\ new.buffer = NULL /\ new.size = Len(contents)
      /\ new.start = -1 /\ new.old_start = -1
  OBVIOUS
<1>4. src = NULL => contents = <<>>
  OBVIOUS
<1> HIDE DEF new, contents
<1>5. Present' = Present \cup {n}
  BY <1>1 DEF Present
<1>6. put' \in [Present' -> Seq(Cells)]
  BY <1>1, <1>2, <1>5 DEF SafeInv
<1>7. EntryKept(n)'
  <2>1. entry'[n] = new /\ put'[n] = contents /\ status' = "open"
    BY <1>1
  <2>2. ContentsOf(n)' = contents
    <3>1. Start(entry[n])' = -1
      BY <1>3, <2>1 DEF Start
    <3> QED  BY <1>2, <1>3, <1>4, <2>1, <3>1, ContentsAreThen
  <2> QED  BY <1>2, <1>3, <2>1, <2>2 DEF EntryKept, Start
<1>8. ASSUME NEW m \in Present PROVE EntryKept(m)'
  <2>1. entry'[m] = entry[m] /\ put'[m] = put[m]
    BY <1>1
  <2> QED  BY <1>1, <2>1, KeptSame DEF SafeInv, Kept
<1> QED  BY <1>1, <1>5, <1>6, <1>7, <1>8, SafeEdit

LEMMA RemoveKeeps ==
    ASSUME SafeInv, TypesInv', NEW n \in Names, ~ saved, ba_remove(n)
    PROVE  SafeInv'
<1>1. /\ status = "open"
      /\ entry' = [m \in Present \ {n} |-> entry[m]]
      /\ put' = [m \in Present \ {n} |-> put[m]]
      /\ UNCHANGED <<disk, status, file>>
  BY DEF ba_remove, Usable
<1>2. Present' = Present \ {n}
  BY <1>1 DEF Present
<1>3. put' \in [Present' -> Seq(Cells)]
  BY <1>1, <1>2 DEF SafeInv
<1>4. ASSUME NEW m \in Present' PROVE EntryKept(m)'
  <2>1. entry'[m] = entry[m] /\ put'[m] = put[m] /\ m \in Present
    BY <1>1, <1>2
  <2> QED  BY <1>1, <2>1, KeptSame DEF SafeInv, Kept
<1> QED  BY <1>1, <1>3, <1>4, SafeEdit

LEMMA SetKeeps ==
    ASSUME SafeInv, TypesInv', NEW n \in Names, NEW c \in Replacements,
           ~ saved, ba_set_file_contents(n, c)
    PROVE  SafeInv'
<1>1. /\ status = "open" /\ n \in Present
      /\ entry' = [entry EXCEPT ![n] = [entry[n] EXCEPT !.buffer = c, !.size = Len(c)]]
      /\ put' = [put EXCEPT ![n] = c]
      /\ UNCHANGED <<disk, status, file>>
  BY DEF ba_set_file_contents, Usable
<1>2. c \in Seq(Cells) /\ c # NULL
  BY BytesAssumption, BytesAreCells, ValuesAssumption DEF Contents
<1>3. Present' = Present
  BY <1>1 DEF Present
<1>4. put' \in [Present' -> Seq(Cells)]
  BY <1>1, <1>2, <1>3 DEF SafeInv
<1>5. EntryKept(n)'
  <2>1. EntryKept(n) /\ EntryOK(entry[n]) /\ status' = "open"
    BY <1>1 DEF SafeInv, Kept, TypesInv, TreeOK
  <2>2. /\ entry'[n].buffer = c /\ entry'[n].size = Len(c)
        /\ entry'[n].orig_loc = entry[n].orig_loc /\ entry'[n].start = entry[n].start
    BY <1>1, <2>1 DEF EntryOK, Present
  <2>3. put'[n] = c
    BY <1>1 DEF SafeInv
  <2>4. ContentsOf(n)' = c
    BY <1>2, <2>2, ContentsAreThen
  <2> QED  BY <1>1, <1>2, <2>1, <2>2, <2>3, <2>4 DEF EntryKept, Start
<1>6. ASSUME NEW m \in Present \ {n} PROVE EntryKept(m)'
  <2>1. entry'[m] = entry[m] /\ put'[m] = put[m]
    BY <1>1 DEF Present, SafeInv
  <2> QED  BY <1>1, <2>1, KeptSame DEF SafeInv, Kept
<1> QED  BY <1>1, <1>3, <1>4, <1>5, <1>6, SafeEdit

LEMMA GetKeeps ==
    ASSUME Safe, SafeInv, TypesInv', NEW n \in Names, ~ saved, ba_get_file_contents(n)
    PROVE  SafeInv' /\ put' = put /\ UNCHANGED <<disk, status, file, out>>
<1> DEFINE e == entry[n]
<1>1. /\ status = "open" /\ n \in Present /\ EntryOK(e) /\ EntryKept(n)
      /\ put[n] \in Seq(Cells) /\ put[n] # NULL
  BY ValuesAssumption DEF ba_get_file_contents, Usable, SafeInv, Kept, TypesInv, TreeOK
<1>2. e.orig_loc # WILD /\ e.size = Len(put[n]) /\ ContentsOf(n) = put[n] /\ e.size \in Nat
  BY <1>1 DEF EntryKept, EntryOK
<1>3. /\ UNCHANGED <<disk, status, file, put, out>>
      /\ entry' = [entry EXCEPT ![n] = e] \/ entry' = [entry EXCEPT ![n] = [e EXCEPT !.buffer = put[n]]]
  <2>1. CASE e.buffer # NULL
    <3>1. entry' = [entry EXCEPT ![n] = e] /\ UNCHANGED <<disk, status, file, put, out>>
      BY <2>1 DEF ba_get_file_contents
    <3> QED  BY <3>1
  <2>2. CASE e.buffer = NULL /\ e.orig_loc # NULL
    <3>1. ContentsOf(n) = disk[e.orig_loc]
      BY <1>2, <2>2, ContentsAre
    <3>2. disk[e.orig_loc] # MISSING
      <4>1. put[n] \in Seq(AnyCell)
        BY <1>1, CellsAreCells
      <4> QED  BY <1>2, <3>1, <4>1, ValuesAssumption
    <3>3. Buffer(disk[e.orig_loc], e.size) = put[n]
      BY <1>1, <1>2, <3>1, BufferFacts
    <3>4. /\ entry' = [entry EXCEPT ![n] = [e EXCEPT !.buffer = Buffer(disk[e.orig_loc], e.size)]]
          /\ UNCHANGED <<disk, status, file, put, out>>
      BY <1>2, <2>2, <3>2, StreamIsNotNull DEF ba_get_file_contents
    <3> QED  BY <3>3, <3>4
  <2>3. CASE e.buffer = NULL /\ e.orig_loc = NULL
    <3>1. /\ file # NULL
          /\ entry' = [entry EXCEPT ![n] = __ba_buffer_file(e)]
          /\ UNCHANGED <<disk, status, file, put, out>>
      BY <2>3, StreamIsNotNull DEF ba_get_file_contents, Safe
    <3> QED  BY <1>1, <2>3, <3>1, BufferGives
  <2> QED  BY <2>1, <2>2, <2>3
<1>4. Present' = Present
  BY <1>3 DEF Present
<1>5. \A m \in Present \ {n} : entry'[m] = entry[m]
  BY <1>3 DEF Present
<1>6. EntryKept(n)'
  <2>1. CASE entry' = [entry EXCEPT ![n] = e]
    <3>1. entry'[n] = entry[n] /\ put'[n] = put[n]
      BY <1>1, <1>3, <2>1 DEF Present
    <3> QED  BY <1>1, <1>3, <3>1, KeptSame
  <2>2. CASE entry' = [entry EXCEPT ![n] = [e EXCEPT !.buffer = put[n]]]
    <3>1. /\ entry'[n].buffer = put[n] /\ entry'[n].size = e.size
          /\ entry'[n].orig_loc = e.orig_loc /\ entry'[n].start = e.start
      BY <1>1, <2>2 DEF EntryOK, Present
    <3>2. ContentsOf(n)' = put[n]
      BY <1>1, <3>1, ContentsAreThen
    <3> QED  BY <1>1, <1>2, <1>3, <3>1, <3>2 DEF EntryKept, Start
  <2> QED  BY <1>3, <2>1, <2>2
<1>7. ASSUME NEW m \in Present PROVE EntryKept(m)'
  <2>1. EntryKept(m)
    BY <1>1 DEF SafeInv, Kept
  <2> QED  BY <1>1, <1>3, <1>5, <1>6, <2>1, KeptSame
<1>8. put' \in [Present' -> Seq(Cells)]
  BY <1>3, <1>4 DEF SafeInv
<1> QED  BY <1>1, <1>3, <1>4, <1>7, <1>8, SafeEdit

LEMMA NoFaults == ASSUME Safe PROVE Unset = {NULL}
BY DEF Safe, Unset

\* A complete archive is opened with what it holds.
LEMMA OpenKeeps ==
    ASSUME Safe, SafeInv, TypesInv', NEW p \in Archives, ba_open(p)
    PROVE  SafeInv' /\ put' = Parse(disk[p]) /\ Parse(disk[p]) # NULL /\ UNCHANGED <<disk, out>>
           /\ status = "none" /\ status' = "open" /\ ~ saved'
<1> DEFINE c == disk[p]
           h == c[2]
<1>1. c # MISSING /\ status = "none" /\ Parse(c) # NULL
  BY DEF ba_open, Safe
<1>2. CellsOK(c) /\ Len(c) \in Nat /\ Len(c) >= 3 /\ ChunkStart = 3
  BY <1>1, LenProperties DEF SafeInv, TypesInv, DiskOK, ArchiveOK, CellsOK, Parse, ChunkStart
<1>3. HeaderOK(h) /\ h # NUL
  <2>1. 2 \in 1 .. Len(c)
    BY <1>2
  <2> QED  BY <2>1, <1>2, ValuesAssumption DEF CellsOK, HeaderOK
<1>4. h.at \in [DOMAIN h.at -> [size : Nat, start : Nat]]
  BY <1>3 DEF HeaderOK, Header
<1>5. /\ status' = "open" /\ loc' = p /\ file' = Stream(p, "r")
      /\ entry' = [n \in DOMAIN h.at |-> LoadedEntry(h.at[n], NULL)]
      /\ put' = Parse(c) /\ UNCHANGED <<disk, out>>
  <2>1. \E entry_tree \in Unset :
          IF entry_tree = WILD \/ Len(c) < 2 \/ h = NUL
          THEN Fault
          ELSE /\ status' = "open" /\ loc' = p /\ file' = Stream(p, "r")
               /\ \E orig \in Unset : entry' = [n \in DOMAIN h.at |-> LoadedEntry(h.at[n], orig)]
               /\ put' = IF Parse(c) = NULL THEN [n \in DOMAIN h.at |-> JUNK] ELSE Parse(c)
               /\ UNCHANGED <<disk, out>>
    BY DEF ba_open
  <2>2. ~ Len(c) < 2
    BY <1>2
  <2> HIDE DEF c, h
  <2>3. /\ status' = "open" /\ loc' = p /\ file' = Stream(p, "r")
        /\ \E orig \in Unset : entry' = [n \in DOMAIN h.at |-> LoadedEntry(h.at[n], orig)]
        /\ put' = IF Parse(c) = NULL THEN [n \in DOMAIN h.at |-> JUNK] ELSE Parse(c)
        /\ UNCHANGED <<disk, out>>
    BY <1>3, <2>1, <2>2, NoFaults, StreamIsNotNull
  <2> QED  BY <1>1, <2>3, NoFaults DEF c
<1>6. /\ Parse(c) = [n \in DOMAIN h.at |-> Chunk(c, h.at[n].start, h.at[n].size)]
      /\ \A n \in DOMAIN h.at : ~ ChunkStart + h.at[n].start + h.at[n].size > Len(c)
  BY <1>1 DEF Parse
<1> HIDE DEF c, h
<1>7. ASSUME NEW n \in DOMAIN h.at
      PROVE  /\ h.at[n].start \in Nat /\ h.at[n].size \in Nat
             /\ Chunk(c, h.at[n].start, h.at[n].size) \in Seq(Cells)
             /\ Len(Chunk(c, h.at[n].start, h.at[n].size)) = h.at[n].size
  <2>1. h.at[n].start \in Nat /\ h.at[n].size \in Nat
    BY <1>4
  <2>2. ChunkStart + h.at[n].start + h.at[n].size <= Len(c)
    BY <1>2, <1>6, <2>1
  <2> QED  BY <1>2, <2>1, <2>2, ChunkCells
<1>8. Present' = DOMAIN h.at
  BY <1>5 DEF Present
<1>9. put' \in [Present' -> Seq(Cells)]
  BY <1>5, <1>6, <1>7, <1>8
<1>10. ASSUME NEW n \in Present' PROVE EntryKept(n)'
  <2>1. /\ entry'[n] = LoadedEntry(h.at[n], NULL)
        /\ put'[n] = Chunk(c, h.at[n].start, h.at[n].size)
        /\ file' # NULL /\ file'.mode = "r" /\ file'.path = p /\ disk'[p] = c
    <3>1. Stream(p, "r") \in Streams
      BY DEF Stream, Streams
    <3> QED  BY <1>5, <1>6, <1>8, <3>1, StreamIsNotNull DEF Stream, c
  <2>2. /\ entry'[n].orig_loc = NULL /\ entry'[n].buffer = NULL
        /\ entry'[n].size = h.at[n].size /\ entry'[n].start = h.at[n].start
        /\ Start(entry[n])' = h.at[n].start
    BY <1>5, <2>1 DEF LoadedEntry, Start
  <2>3. Read(file, Start(entry[n]), entry[n].size)' = Chunk(c, h.at[n].start, h.at[n].size)
    BY <2>1, <2>2 DEF Read
  <2>4. h.at[n].start >= 0
    BY <1>7, <1>8
  <2>5. ContentsOf(n)' = put'[n]
    BY <2>1, <2>2, <2>3, <2>4, ContentsAreThen
  <2> QED  BY <1>5, <1>7, <1>8, <2>1, <2>2, <2>5, StreamIsNotNull DEF EntryKept
<1>11. file'.mode = "r"
  BY <1>5 DEF Stream
<1>12. ~ saved'
  BY <1>11 DEF saved
<1>13. NoCrash' /\ Kept' /\ \A q \in DOMAIN Sources : disk'[q] = Sources[q]
  BY <1>5, <1>10 DEF NoCrash, Kept, SafeInv
<1> QED  BY <1>1, <1>5, <1>9, <1>12, <1>13 DEF SafeInv, c

\* An archive that is closed or lost.
LEMMA GoneKeeps ==
    ASSUME SafeInv, TypesInv', Gone, \A q \in DOMAIN Sources : disk'[q] = disk[q]
    PROVE  SafeInv'
<1>1. status' = "none" /\ Present' = {} /\ put' = Nothing
  BY DEF Gone, Present, Nothing
<1>2. put' \in [Present' -> Seq(Cells)]
  BY <1>1 DEF Nothing
<1> QED  BY <1>1, <1>2 DEF SafeInv, NoCrash, Kept

LEMMA CloseKeeps ==
    ASSUME SafeInv, TypesInv', ba_close
    PROVE  SafeInv' /\ Gone /\ disk' = Closed(disk, file)
<1>1. Wild = {}
  <2>1. \A n \in Present : entry[n].orig_loc # WILD
    BY DEF ba_close, SafeInv, Kept, SavedOK, EntryKept
  <2> QED  BY <2>1 DEF Wild
<1>2. Gone /\ disk' = Closed(disk, file)
  BY <1>1 DEF ba_close
<1>3. \A q \in DOMAIN Sources : disk'[q] = disk[q]
  <2>1. file # NULL => file.path \in Archives
    BY DEF SafeInv, TypesInv, FileOK
  <2> QED  BY <1>2, <2>1, ClosedElsewhere, PathsAssumption DEF SafeInv, TypesInv, DiskOK, Paths
<1> QED  BY <1>2, <1>3, GoneKeeps

LEMMA CrashKeeps == ASSUME SafeInv, TypesInv', Crash PROVE SafeInv'
BY GoneKeeps DEF Crash

LEMMA NewKeeps == ASSUME SafeInv, TypesInv', ba_new PROVE SafeInv' /\ ~ saved'
<1>1. status = "none" /\ status' = "open" /\ UNCHANGED <<disk, file, entry, put>>
  BY DEF ba_new
<1>2. file = NULL /\ Present = {}
  BY <1>1 DEF SafeInv, TypesInv, SaveOK, TreeOK, Nothing
<1> QED  BY <1>1, <1>2 DEF SafeInv, NoCrash, Kept, saved, Present

(***************************************************************************)
(* Saving.                                                                 *)
(***************************************************************************)
\* What a save makes of an entry: where the contents were, and where they go.
LEMMA SaveMakes ==
    ASSUME SafeInv, status = "open", ~ saved, NEW p \in Archives,
           loc = p => ~ \E n \in Present : Unread(n), NEW n \in Present
    PROVE  LET E == __ba_buffer_entries(p)
               a == __ba_rearrange(E)[n]
           IN  /\ a.orig_loc = entry[n].orig_loc /\ a.size = entry[n].size
               /\ a.buffer = IF loc = p THEN put[n] ELSE entry[n].buffer
               /\ a.old_start = entry[n].start /\ a.start = Total(E, Before(n))
               /\ E[n].size = entry[n].size
<1> DEFINE E == __ba_buffer_entries(p)
           e == E[n]
           t == Total(E, Before(n))
           a == [e EXCEPT !.old_start = e.start, !.start = t]
<1>1. EntryOK(entry[n])
  BY DEF SafeInv, TypesInv, TreeOK
<1>2. /\ EntryOK(e) /\ e.orig_loc = entry[n].orig_loc /\ e.size = entry[n].size
      /\ e.start = entry[n].start
      /\ e.buffer = IF loc = p THEN put[n] ELSE entry[n].buffer
  <2>1. CASE loc = p
    <3>1. file # NULL
      BY <2>1, NullIsNoPath, StreamIsNotNull DEF SafeInv, TypesInv, FileOK
    <3>2. __ba_buffer_file(entry[n]) = [entry[n] EXCEPT !.buffer = put[n]]
      BY <2>1, <3>1, BufferGives DEF Unread
    <3>3. e = [entry[n] EXCEPT !.buffer = put[n]]
      BY <2>1, <3>2 DEF __ba_buffer_entries
    <3>4. EntryOK(__ba_buffer_file(entry[n]))
      BY <1>1, <3>1, BufferedOK DEF SafeInv, TypesInv
    <3>5. EntryOK(e)
      BY <3>2, <3>3, <3>4
    <3> HIDE DEF e
    <3> QED  BY <1>1, <2>1, <3>3, <3>5 DEF EntryOK
  <2>2. CASE loc # p
    <3>1. e = entry[n]
      BY <2>2 DEF __ba_buffer_entries
    <3> QED  BY <1>1, <2>2, <3>1
  <2> QED  BY <2>1, <2>2
<1>3. __ba_rearrange(E)[n] = a
  BY DEF __ba_rearrange
<1> HIDE DEF E, e, t
<1>4. /\ a.orig_loc = e.orig_loc /\ a.size = e.size /\ a.buffer = e.buffer
      /\ a.old_start = e.start /\ a.start = t
  BY <1>2 DEF EntryOK
<1> HIDE DEF a
<1>5. LET b == __ba_rearrange(E)[n]
      IN  /\ b.orig_loc = entry[n].orig_loc /\ b.size = entry[n].size
          /\ b.buffer = IF loc = p THEN put[n] ELSE entry[n].buffer
          /\ b.old_start = entry[n].start /\ b.start = t
          /\ e.size = entry[n].size
  BY <1>2, <1>3, <1>4
<1> QED  BY <1>5 DEF E, e, t

LEMMA TotalSame ==
    ASSUME NEW E, NEW F, NEW S, \A n \in S : E[n].size = F[n].size
    PROVE  Total(E, S) = Total(F, S)
<1>1. [n \in S |-> E[n].size] = [n \in S |-> F[n].size]
  OBVIOUS
<1> QED  BY <1>1 DEF Total

LEMMA TotalNone == ASSUME NEW E PROVE Total(E, {}) = 0
BY SumNone DEF Total

LEMMA SaveKeeps ==
    ASSUME Safe, SafeInv, TypesInv', NEW p \in Archives, ~ saved, ba_save(p)
    PROVE  /\ SafeInv' /\ UNCHANGED <<put, file>> /\ ~ saved'
           /\ status = "open" /\ status' = "saving" /\ out'.path = p
           /\ \A q \in Archives \ {p} : disk'[q] = disk[q]
<1> DEFINE E == __ba_buffer_entries(p)
           A == __ba_rearrange(E)
           h == __ba_create_header(A)
           w == Write([disk EXCEPT ![p] = <<>>], Stream(p, "w"), <<MAGIC, h, MARK>>)
<1>1. HeaderOK(h) /\ DOMAIN A = Present
  BY ArrangedOK DEF SafeInv
<1>2. /\ status = "open" /\ entry' = A /\ UNCHANGED <<loc, file, tree, put>>
      /\ disk' = w.disk /\ out' = w.stream /\ todo' = Order
      /\ status' = "saving" /\ written' = put
      /\ loc = p => ~ \E n \in Present : Unread(n)
  BY DEF ba_save, Usable, Safe
<1>3. h.at = [n \in Present |-> [size |-> A[n].size, start |-> A[n].start]]
  BY DEF __ba_create_header
<1>4. Begun(w, disk, p, <<MAGIC, h, MARK>>)
  <2>1. p \in DOMAIN disk
    BY DEF SafeInv, TypesInv, DiskOK, Paths
  <2> HIDE DEF h
  <2> QED  BY <1>1, <2>1, BeginSave
<1> HIDE DEF w, h
<1>5. /\ Whole(disk', out') = <<MAGIC, h, MARK>> /\ out'.path = p
      /\ \A q \in DOMAIN disk \ {p} : disk'[q] = disk[q]
  BY <1>2, <1>4 DEF Begun
<1>6. \A n \in Present : /\ A[n].orig_loc = entry[n].orig_loc /\ A[n].size = entry[n].size
                         /\ A[n].buffer = IF loc = p THEN put[n] ELSE entry[n].buffer
                         /\ A[n].old_start = entry[n].start /\ A[n].start = Total(E, Before(n))
                         /\ E[n].size = entry[n].size
  BY <1>2, SaveMakes
<1> HIDE DEF A, E
<1>7. Present' = Present /\ Order' = Order /\ (\A n : Before(n)' = Before(n)) /\ ~ saved'
  BY <1>1, <1>2 DEF Present, Order, Before, tree, saved
<1>8. \A q \in DOMAIN Sources : q \in DOMAIN disk \ {p} /\ disk'[q] = disk[q]
  BY <1>5, PathsAssumption DEF SafeInv, TypesInv, DiskOK, Paths
<1>9. ASSUME NEW n \in Present PROVE EntryKept(n)'
  <2> DEFINE e == entry[n]
             f == entry'[n]
  <2>1. /\ EntryKept(n) /\ EntryOK(e) /\ put[n] \in Seq(Cells) /\ put[n] # NULL /\ Start(e) = e.start
        /\ put'[n] = put[n]
    BY <1>2, ValuesAssumption DEF SafeInv, Kept, TypesInv, TreeOK, Start
  <2>2. /\ f.orig_loc = e.orig_loc /\ f.size = e.size /\ f.old_start = e.start
        /\ f.buffer = IF loc = p THEN put[n] ELSE e.buffer
        /\ Start(entry[n])' = e.start
    BY <1>2, <1>6 DEF Start
  <2>3. /\ e.orig_loc # WILD /\ e.size = Len(put[n]) /\ (e.start >= 0 => file # NULL)
        /\ ContentsOf(n) = put[n]
        /\ e.orig_loc \in DOMAIN Sources \cup {NULL, WILD}
    BY <2>1 DEF EntryKept, EntryOK
  <2>4. loc # p /\ file # NULL => file.path # p /\ file.path \in DOMAIN disk \ {p}
    BY DEF SafeInv, TypesInv, FileOK, DiskOK, Paths
  <2>5. ContentsOf(n)' = put[n]
    <3>1. CASE loc = p
      BY <2>1, <2>2, <3>1, ContentsAreThen
    <3>2. CASE loc # p /\ e.buffer # NULL
      BY <2>2, <2>3, <3>2, ContentsAre, ContentsAreThen
    <3>3. CASE loc # p /\ e.buffer = NULL /\ e.orig_loc # NULL
      <4>1. ContentsOf(n)' = disk'[e.orig_loc] /\ ContentsOf(n) = disk[e.orig_loc]
        BY <2>2, <2>3, <3>3, ContentsAre, ContentsAreThen
      <4> QED  BY <1>8, <2>3, <3>3, <4>1
    <3>4. CASE loc # p /\ e.buffer = NULL /\ e.orig_loc = NULL /\ e.start >= 0
      <4>1. ContentsOf(n) = Read(file, e.start, e.size)
        BY <2>1, <2>3, <3>4, ContentsAre
      <4>2. ContentsOf(n)' = Read(file, Start(entry[n]), entry[n].size)'
        BY <1>2, <2>2, <2>3, <3>4, ContentsAreThen
      <4>3. Read(file, Start(entry[n]), entry[n].size)' = Read(file, e.start, e.size)
        BY <1>2, <1>5, <2>2, <2>3, <2>4, <3>4 DEF Read
      <4> QED  BY <2>3, <4>1, <4>2, <4>3
    <3>5. CASE loc # p /\ e.buffer = NULL /\ e.orig_loc = NULL /\ ~ e.start >= 0
      BY <2>1, <2>2, <2>3, <3>5, ContentsAre, ContentsAreThen
    <3> QED  BY <3>1, <3>2, <3>3, <3>4, <3>5
  <2>6. f.buffer = NULL /\ f.old_start >= 0 => out'.path # file'.path
    BY <1>2, <1>5, <2>1, <2>2, <2>3, <2>4
  <2> QED  BY <1>2, <2>1, <2>2, <2>3, <2>5, <2>6 DEF EntryKept
<1>10. Through' = 0 /\ Len(Order) \in Nat
  <2>1. Len(Order) \in Nat
    BY OrderIsList, ListFacts DEF SafeInv, TypesInv
  <2> QED  BY <1>2, <1>7, <2>1 DEF Through
<1>11. \A n \in Present : entry'[n].size \in Nat /\ entry'[n].size = Len(put[n])
  BY <1>2, <1>6 DEF SafeInv, Kept, TypesInv, TreeOK, EntryOK, EntryKept
<1>12. \A n \in Present : entry'[n].start = Total(entry', Before(n))
  <2> SUFFICES ASSUME NEW n \in Present PROVE entry'[n].start = Total(entry', Before(n))
    OBVIOUS
  <2>1. \A m \in Before(n) : entry'[m].size = E[m].size
    BY <1>2, <1>6, BeforePart DEF SafeInv, TypesInv
  <2> QED  BY <1>2, <1>6, <2>1, TotalSame
<1>13. SavingOK'
  <2>1. todo' = SubSeq(Order', Through' + 1, Len(Order'))
    <3>1. SubSeq(Order, 1, Len(Order)) = Order
      BY OrderIsList, SubSeqFull DEF ListOf, SafeInv, TypesInv
    <3> QED  BY <1>2, <1>7, <1>10, <3>1
  <2>2. Done' = {}
    BY <1>10 DEF Done
  <2>3. Len(Whole(disk', out')) = 3 /\ ChunkStart = 3 /\ Whole(disk', out')[2] = h
    BY <1>5 DEF ChunkStart
  <2>4. Len(Whole(disk, out))' = ChunkStart + Total(entry, Done)'
    <3>1. Total(entry', Done') = 0
      BY <2>2, TotalNone
    <3>2. Total(entry, Done)' = Total(entry', Done')
      BY DEF Total
    <3> QED  BY <2>3, <3>1, <3>2 DEF Whole
  <2>5. LaidOut(Whole(disk, out))'
    <3>1. Whole(disk', out')[2].at = [n \in Present' |-> [size |-> entry'[n].size, start |-> entry'[n].start]]
      BY <1>2, <1>3, <1>7, <2>3
    <3>2. ASSUME NEW n \in Present', End(n)' <= Len(Whole(disk', out'))
          PROVE  Chunk(Whole(disk', out'), entry'[n].start, entry'[n].size) = put'[n]
      <4>1. entry'[n].start \in Nat /\ entry'[n].size \in Nat /\ entry'[n].size = Len(put[n])
        <5>1. entry'[n].start \in Nat
          <6>1. \A m \in Present : entry'[m].size \in Nat
            BY <1>11
          <6> QED  BY <1>7, <1>12, <6>1, BeforePart, TotalType DEF SafeInv, TypesInv
        <5> QED  BY <1>7, <1>11, <5>1
      <4>2. entry'[n].start = 0 /\ entry'[n].size = 0
        BY <2>3, <3>2, <4>1 DEF End
      <4>3. CellsOK(<<MAGIC, h, MARK>>) /\ Len(<<MAGIC, h, MARK>>) = 3
        BY <1>1, FrontOK
      <4>4. put[n] \in Seq(Cells) /\ Len(put[n]) = 0
        BY <1>7, <4>1, <4>2 DEF SafeInv
      <4>5. Chunk(<<MAGIC, h, MARK>>, 0, 0) = put[n]
        <5> DEFINE c == <<MAGIC, h, MARK>>
        <5>1. CellsOK(c) /\ ChunkStart + 0 <= Len(c) /\ 0 \in Nat
          BY <2>3, <4>3
        <5> HIDE DEF c
        <5>2. Chunk(c, 0, 0) = put[n]
          BY <4>4, <5>1, ChunkNone
        <5> QED  BY <5>2 DEF c
      <4> QED  BY <1>2, <1>5, <4>2, <4>5
    <3> QED  BY <3>1, <3>2 DEF LaidOut, Whole, End, Chunk
  <2> QED  BY <1>2, <1>7, <1>10, <1>12, <2>1, <2>4, <2>5 DEF SavingOK, Total
<1>14. NoCrash' /\ Kept'
  BY <1>2, <1>7, <1>9 DEF NoCrash, Kept
<1>15. put' \in [Present' -> Seq(Cells)] /\ \A q \in DOMAIN Sources : disk'[q] = Sources[q]
  BY <1>2, <1>7, <1>8 DEF SafeInv
<1>16. SafeInv'
  BY <1>2, <1>13, <1>14, <1>15 DEF SafeInv
<1>17. \A q \in Archives \ {p} : disk'[q] = disk[q]
  BY <1>5 DEF SafeInv, TypesInv, DiskOK, Paths
<1> QED  BY <1>2, <1>5, <1>7, <1>16, <1>17

LEMMA SavingFacts ==
    ASSUME SafeInv, status = "saving"
    PROVE  /\ TreeOK /\ EntriesOK /\ Arranged /\ Through \in 0 .. Len(Order) /\ Len(Order) \in Nat
           /\ LaidAt(Whole(disk, out), Through)
           /\ CellsOK(Whole(disk, out)) /\ Len(Whole(disk, out)) >= ChunkStart
           /\ Growing(disk, out) /\ out.mode = "w" /\ ~ saved
           /\ todo = SubSeq(Order, Through + 1, Len(Order)) /\ written = put
<1>1. TreeOK /\ SavingOK /\ ~ saved /\ Kept /\ put \in [Present -> Seq(Cells)]
  BY DEF SafeInv, TypesInv, SaveOK
<1>2. Arranged
  BY <1>1 DEF SavingOK, Arranged
<1>3. \A n \in Present : entry[n].size \in Nat /\ entry[n].size = Len(put[n])
  BY <1>1 DEF Kept, EntryKept, TreeOK, EntryOK
<1>4. EntriesOK
  <2>1. \A n \in Present : Total(entry, Before(n)) \in Nat
    BY <1>1, <1>3, BeforePart, TotalType
  <2> QED  BY <1>1, <1>2, <1>3, <2>1 DEF EntriesOK, Arranged
<1>5. Through \in 0 .. Len(Order) /\ Len(Order) \in Nat
  <2>1. Len(Order) \in Nat
    BY <1>1, OrderIsList, ListFacts
  <2>2. Len(todo) \in Nat
    BY LenProperties DEF SafeInv, TypesInv, SaveOK
  <2> QED  BY <1>1, <2>1, <2>2 DEF SavingOK, Through
<1>6. LaidAt(Whole(disk, out), Through) /\ todo = SubSeq(Order, Through + 1, Len(Order)) /\ written = put
  BY <1>1 DEF SavingOK, LaidAt, Done
<1>7. /\ CellsOK(Whole(disk, out)) /\ Len(Whole(disk, out)) >= ChunkStart
      /\ Growing(disk, out) /\ out.mode = "w"
  BY DEF SafeInv, TypesInv, SaveOK, WrittenOK
<1> QED  BY <1>1, <1>2, <1>4, <1>5, <1>6, <1>7

\* What is still to do, and what comes next.
LEMMA NextEntry ==
    ASSUME SafeInv, status = "saving", todo # <<>>
    PROVE  /\ Through \in 0 .. Len(Order) - 1
           /\ Head(todo) = Order[Through + 1] /\ Head(todo) \in Present
           /\ Tail(todo) = SubSeq(Order, Through + 2, Len(Order))
           /\ Len(Tail(todo)) = Len(todo) - 1 /\ Len(todo) \in Nat
<1>1. /\ Through \in 0 .. Len(Order) /\ Len(Order) \in Nat
      /\ todo = SubSeq(Order, Through + 1, Len(Order)) /\ TreeOK
  BY SavingFacts
<1>2. Order \in Seq(Present) /\ todo \in Seq(Present)
  BY <1>1, OrderIsList DEF ListOf, SafeInv, TypesInv, SaveOK
<1>3. Len(todo) \in Nat \ {0}
  BY <1>2, EmptySeq
<1>4. Through \in 0 .. Len(Order) - 1
  BY <1>1, <1>3 DEF Through
<1>5. Through + 1 \in 1 .. Len(Order) /\ Len(Order) \in Through + 1 .. Len(Order)
      /\ (Through + 1) + 1 = Through + 2
  BY <1>1, <1>4
<1>6. Head(todo) = Order[Through + 1] /\ Tail(todo) = SubSeq(Order, (Through + 1) + 1, Len(Order))
  BY <1>1, <1>2, <1>5, HeadTailOfSubSeq
<1>7. Head(todo) \in Present /\ Len(Tail(todo)) = Len(todo) - 1
  BY <1>2, HeadTailProperties
<1> QED  BY <1>3, <1>4, <1>5, <1>6, <1>7

\* One entry is written: the others keep their contents.
LEMMA WriteKeeps ==
    ASSUME SafeInv, status = "saving", status' = "saving",
           UNCHANGED <<file, entry, put>>, out'.path = out.path,
           \A q \in Paths \ {out.path} : disk'[q] = disk[q], NEW n \in Present
    PROVE  EntryKept(n)'
<1> DEFINE e == entry[n]
<1>1. /\ EntryKept(n) /\ EntryOK(e) /\ Start(e) = e.old_start /\ Start(entry[n])' = e.old_start
      /\ out.path \in Archives
  BY SavingFacts DEF SafeInv, Kept, TypesInv, TreeOK, Start, Growing, Streams
<1>2. /\ e.orig_loc # WILD /\ ContentsOf(n) = put[n]
      /\ e.old_start >= 0 => file # NULL
      /\ e.buffer = NULL /\ e.orig_loc = NULL /\ e.old_start >= 0 => out.path # file.path
      /\ e.orig_loc \in DOMAIN Sources \cup {NULL, WILD}
  BY <1>1 DEF EntryKept, EntryOK
<1>3. ContentsOf(n)' = put[n]
  <2>1. CASE e.buffer # NULL
    BY <1>2, <2>1, ContentsAre, ContentsAreThen
  <2>2. CASE e.buffer = NULL /\ e.orig_loc # NULL
    <3>1. ContentsOf(n)' = disk'[e.orig_loc] /\ ContentsOf(n) = disk[e.orig_loc]
      BY <1>2, <2>2, ContentsAre, ContentsAreThen
    <3>2. e.orig_loc \in Paths \ {out.path}
      BY <1>1, <1>2, <2>2, PathsAssumption DEF Paths
    <3> QED  BY <1>2, <3>1, <3>2
  <2>3. CASE e.buffer = NULL /\ e.orig_loc = NULL /\ e.old_start >= 0
    <3>1. ContentsOf(n) = Read(file, e.old_start, e.size)
      BY <1>1, <1>2, <2>3, ContentsAre
    <3>2. ContentsOf(n)' = Read(file, Start(entry[n]), entry[n].size)'
      BY <1>1, <1>2, <2>3, ContentsAreThen
    <3>3. file.path \in Paths \ {out.path}
      BY <1>2, <2>3 DEF SafeInv, TypesInv, FileOK, Paths
    <3>4. Read(file, Start(entry[n]), entry[n].size)' = Read(file, e.old_start, e.size)
      BY <1>1, <3>3 DEF Read
    <3> QED  BY <1>2, <3>1, <3>2, <3>4
  <2>4. CASE e.buffer = NULL /\ e.orig_loc = NULL /\ ~ e.old_start >= 0
    BY <1>1, <1>2, <2>4, ContentsAre, ContentsAreThen
  <2> QED  BY <2>1, <2>2, <2>3, <2>4
<1> QED  BY <1>1, <1>2, <1>3 DEF EntryKept

LEMMA EntryStepKeeps ==
    ASSUME SafeInv, TypesInv', __ba_save_entry_dir
    PROVE  /\ SafeInv' /\ UNCHANGED <<put, file, entry>> /\ ~ saved'
           /\ status = "saving" /\ status' = "saving" /\ out'.path = out.path
           /\ Grown([disk |-> disk', stream |-> out'], disk, out, put[Head(todo)])
           /\ LaidOut(Whole(disk, out) \o put[Head(todo)]) /\ CellsOK(Whole(disk, out) \o put[Head(todo)])
           /\ \A q \in Paths \ {out.path} : disk'[q] = disk[q]
<1> DEFINE n == Head(todo)
           w == Write(disk, out, put[n])
<1>1. status = "saving" /\ todo # <<>>
  BY DEF __ba_save_entry_dir
<1>2. /\ Through \in 0 .. Len(Order) - 1 /\ n = Order[Through + 1] /\ n \in Present
      /\ Tail(todo) = SubSeq(Order, Through + 2, Len(Order))
      /\ Len(Tail(todo)) = Len(todo) - 1 /\ Len(todo) \in Nat
  BY <1>1, NextEntry
<1>3. /\ TreeOK /\ EntriesOK /\ Arranged /\ Len(Order) \in Nat
      /\ LaidAt(Whole(disk, out), Through)
      /\ CellsOK(Whole(disk, out)) /\ Len(Whole(disk, out)) >= ChunkStart
      /\ Growing(disk, out) /\ out.mode = "w" /\ ~ saved /\ written = put
  BY <1>1, SavingFacts
<1>4. Source(entry[n]) = Given(put[n], TRUE) /\ (FromArchive(entry[n]) => file # NULL)
  BY <1>1, <1>2, SourceGives
<1>5. /\ disk' = w.disk /\ out' = w.stream /\ todo' = Tail(todo)
      /\ UNCHANGED <<status, loc, file, tree, entry, put, written>>
  <2>1. Source(entry[n]).bytes = put[n] /\ Source(entry[n]).ok = TRUE
    BY <1>4 DEF Given
  <2> QED  BY <1>4, <2>1 DEF __ba_save_entry_dir
<1>6. put[n] \in Seq(Cells) /\ put[n] \in Seq(AnyCell)
  BY <1>2, <1>3, CellsAreCells DEF EntriesOK
<1>7. Grown(w, disk, out, put[n])
  BY <1>3, <1>6, WriteGrows
<1>8. \A q \in Paths \ {out.path} : w.disk[q] = disk[q]
  <2>1. DOMAIN out = {"path", "mode", "pos", "pending"} /\ DOMAIN disk = Paths
    BY <1>3 DEF Growing, Streams, SafeInv, TypesInv, DiskOK
  <2> QED  BY <2>1, WriteElsewhere
<1>9. LaidAt(Whole(disk, out) \o put[n], Through + 1)
  BY <1>2, <1>3, LaidMore
<1> HIDE DEF w
<1>10. /\ Whole(disk', out') = Whole(disk, out) \o put[n] /\ out'.path = out.path
       /\ \A q \in Paths \ {out.path} : disk'[q] = disk[q]
  BY <1>5, <1>7, <1>8 DEF Grown
<1>11. /\ Present' = Present /\ Order' = Order /\ (\A m : Before(m)' = Before(m)) /\ ~ saved'
       /\ status' = "saving"
  BY <1>1, <1>3, <1>5 DEF Present, Order, Before, tree, saved
<1>12. Through' = Through + 1
  <2>1. Len(Order') = Len(Order) /\ Len(todo') = Len(todo) - 1
    BY <1>2, <1>5, <1>11
  <2>2. Len(Order) \in Nat /\ Len(todo) \in Nat
    BY <1>2, <1>3
  <2> QED  BY <2>1, <2>2 DEF Through
<1>13. SavingOK'
  <2>1. Through' >= 0 /\ todo' = SubSeq(Order', Through' + 1, Len(Order'))
    <3>1. (Through + 1) + 1 = Through + 2
      BY <1>2
    <3> QED  BY <1>2, <1>5, <1>11, <1>12, <3>1
  <2>2. \A m \in Present' : entry'[m].start = Total(entry, Before(m))'
    BY <1>3, <1>5, <1>11 DEF Arranged, Total
  <2> DEFINE c == Whole(disk, out) \o put[n]
  <2>3. Len(c) = ChunkStart + Total(entry, {Order[i] : i \in 1 .. Through + 1}) /\ LaidOut(c)
    BY <1>9 DEF LaidAt
  <2> HIDE DEF c
  <2>4. Whole(disk', out') = c
    BY <1>10 DEF c
  <2>5. Len(Whole(disk, out))' = ChunkStart + Total(entry, Done)'
    <3>1. Done' = {Order[i] : i \in 1 .. Through + 1}
      BY <1>11, <1>12 DEF Done
    <3> QED  BY <1>5, <2>3, <2>4, <3>1 DEF Total, Whole
  <2>6. LaidOut(Whole(disk, out))'
    <3>1. Whole(disk, out)' = c
      BY <2>4 DEF Whole
    <3> QED  BY <1>5, <1>11, <2>3, <3>1 DEF LaidOut, End, Chunk
  <2> QED  BY <1>3, <1>5, <2>1, <2>2, <2>5, <2>6 DEF SavingOK
<1>14. Kept'
  BY <1>1, <1>5, <1>10, <1>11, WriteKeeps DEF Kept
<1>15. /\ put' \in [Present' -> Seq(Cells)] /\ NoCrash'
       /\ \A q \in DOMAIN Sources : disk'[q] = Sources[q]
  <2>1. \A q \in DOMAIN Sources : q \in Paths \ {out.path}
    BY <1>3, PathsAssumption DEF Paths, Growing, Streams
  <2> QED  BY <1>5, <1>10, <1>11, <2>1 DEF SafeInv, NoCrash
<1>16. SafeInv'
  BY <1>11, <1>13, <1>14, <1>15 DEF SafeInv
<1>17. Grown([disk |-> disk', stream |-> out'], disk, out, put[n])
  BY <1>5, <1>7 DEF Grown
<1>18. LaidOut(Whole(disk, out) \o put[n]) /\ CellsOK(Whole(disk, out) \o put[n])
  <2>1. Len(Whole(disk, out)) >= 2
    BY <1>3, LenProperties DEF ChunkStart, CellsOK
  <2> QED  BY <1>3, <1>6, <1>9, <2>1, AppendOK DEF LaidAt
<1> QED  BY <1>1, <1>5, <1>10, <1>11, <1>16, <1>17, <1>18

LEMMA EndKeeps ==
    ASSUME SafeInv, TypesInv', SaveEnd
    PROVE  /\ SafeInv' /\ UNCHANGED <<put, entry>> /\ saved'
           /\ status = "saving" /\ status' = "open" /\ file'.path = out.path
           /\ Grown([disk |-> disk', stream |-> file'], disk, out, <<NUL, MARK>>)
           /\ LaidOut(Whole(disk, out) \o <<NUL, MARK>>) /\ CellsOK(Whole(disk, out) \o <<NUL, MARK>>)
           /\ \A q \in Paths \ {out.path} : disk'[q] = disk[q]
<1> DEFINE tail == <<NUL, MARK>>
           w == Write(disk, out, tail)
           W == Whole(disk, out)
           c == W \o tail
<1>1. /\ status = "saving" /\ todo = <<>> /\ status' = "open" /\ loc' = out.path /\ out' = NULL
      /\ disk' = Closed(w.disk, file) /\ file' = w.stream
      /\ UNCHANGED <<tree, entry, todo, put, written>>
  BY DEF SaveEnd
<1>2. /\ TreeOK /\ EntriesOK /\ Arranged /\ Len(Order) \in Nat /\ Through \in 0 .. Len(Order)
      /\ LaidAt(W, Through) /\ CellsOK(W) /\ Len(W) >= ChunkStart
      /\ Growing(disk, out) /\ out.mode = "w" /\ ~ saved /\ written = put
  BY <1>1, SavingFacts
<1>3. tail \in Seq(Cells) /\ tail \in Seq(AnyCell)
  <2>1. NUL \in Cells /\ MARK \in Cells
    BY DEF Cells
  <2>2. tail \in Seq(Cells)
    BY <2>1
  <2> QED  BY <2>2, CellsAreCells
<1> HIDE DEF tail
<1>4. Grown(w, disk, out, tail)
  BY <1>2, <1>3, WriteGrows
<1>5. \A q \in Paths \ {out.path} : w.disk[q] = disk[q]
  <2>1. DOMAIN out = {"path", "mode", "pos", "pending"} /\ DOMAIN disk = Paths
    BY <1>2 DEF Growing, Streams, SafeInv, TypesInv, DiskOK
  <2> QED  BY <2>1, WriteElsewhere
<1> HIDE DEF w
<1>6. disk' = w.disk
  BY <1>1, <1>2 DEF Closed, saved, SafeInv, TypesInv, FileOK, Streams
<1>7. /\ Whole(disk', file') = c /\ file'.path = out.path /\ file'.mode = "w"
      /\ \A q \in Paths \ {out.path} : disk'[q] = disk[q]
  BY <1>1, <1>2, <1>4, <1>5, <1>6 DEF Grown
<1>8. Through = Len(Order)
  <2>1. Len(todo) = 0
    BY <1>1, EmptySeq
  <2> QED  BY <1>2, <2>1 DEF Through
<1>9. \A n \in Present : End(n) <= Len(W) /\ End(n) \in Nat /\ Len(W) \in Nat
  <2> SUFFICES ASSUME NEW n \in Present PROVE End(n) <= Len(W) /\ End(n) \in Nat /\ Len(W) \in Nat
    OBVIOUS
  <2> DEFINE t == Total(entry, {Order[j] : j \in 1 .. Len(Order)})
  <2>1. PICK i \in 1 .. Len(Order) : Order[i] = n
    BY <1>2, OrderIsList, ListFacts
  <2>2. End(n) <= ChunkStart + t
    BY <1>2, <1>8, <2>1, EndsBefore
  <2>3. entry[n].start \in Nat /\ entry[n].size \in Nat /\ ChunkStart = 3
    BY <1>2 DEF EntriesOK, ChunkStart
  <2>4. Len(W) = ChunkStart + t
    BY <1>2, <1>8 DEF LaidAt
  <2> HIDE DEF t
  <2>5. Len(W) \in Nat
    BY <1>2, LenProperties DEF CellsOK
  <2>6. End(n) \in Nat
    <3>1. \A a, b \in Nat : 3 + a + b \in Nat
      OBVIOUS
    <3> QED  BY <2>3, <3>1 DEF End
  <2> QED  BY <2>2, <2>4, <2>5, <2>6
<1>10. /\ CellsOK(c) /\ Len(c) = Len(W) + Len(tail) /\ c[2] = W[2] /\ W \in Seq(AnyCell)
       /\ Len(tail) \in Nat
  <2>1. Len(W) >= 2
    BY <1>2, LenProperties DEF CellsOK, ChunkStart
  <2> QED  BY <1>2, <1>3, <2>1, AppendOK, LenProperties DEF CellsOK
<1> HIDE DEF W
<1>11. LaidOut(c)
  <2>1. ASSUME NEW n \in Present PROVE Chunk(c, entry[n].start, entry[n].size) = put[n]
    <3>1. entry[n].start \in Nat /\ entry[n].size \in Nat
      BY <1>2 DEF EntriesOK
    <3>2. Chunk(c, entry[n].start, entry[n].size) = Chunk(W, entry[n].start, entry[n].size)
      BY <1>3, <1>9, <1>10, <3>1, ChunkSame DEF End
    <3> QED  BY <1>2, <1>9, <3>2 DEF LaidAt, LaidOut
  <2> QED  BY <1>2, <1>10, <2>1 DEF LaidAt, LaidOut
<1> HIDE DEF c
<1>12. Parse(c) = put
  <2>1. Len(c) >= ChunkStart /\ \A n \in Present : End(n) <= Len(c)
    <3>1. Len(W) \in Nat /\ ChunkStart = 3
      BY <1>2, LenProperties DEF CellsOK, ChunkStart
    <3> QED  BY <1>2, <1>9, <1>10, <3>1
  <2> QED  BY <1>2, <1>10, <1>11, <2>1, LaidParse
<1>13. saved' /\ Present' = Present
  <2>1. file' # NULL
    BY <1>1, <1>4, StreamIsNotNull DEF Grown, Growing
  <2> QED  BY <1>1, <1>7, <2>1 DEF saved, Present
<1>14. SavedOK'
  <2>1. \A n \in Present : entry[n].orig_loc # WILD
    BY <1>1, <1>2 DEF SafeInv, Kept, EntryKept
  <2>2. Parse(Whole(disk, file))' = put
    BY <1>7, <1>12 DEF Parse, Whole
  <2> QED  BY <1>1, <1>2, <1>13, <2>1, <2>2 DEF SavedOK
<1>15. SafeInv'
  <2>1. \A q \in DOMAIN Sources : q \in Paths \ {out.path}
    BY <1>2, PathsAssumption DEF Paths, Growing, Streams
  <2> QED  BY <1>1, <1>7, <1>13, <1>14, <2>1 DEF SafeInv, NoCrash, Kept
<1>16. Grown([disk |-> disk', stream |-> file'], disk, out, tail)
  BY <1>1, <1>4, <1>6 DEF Grown
<1>17. /\ SafeInv' /\ UNCHANGED <<put, entry>> /\ saved'
       /\ status = "saving" /\ status' = "open" /\ file'.path = out.path
       /\ \A q \in Paths \ {out.path} : disk'[q] = disk[q]
  BY <1>1, <1>7, <1>13, <1>15
<1> QED  BY <1>10, <1>11, <1>16, <1>17 DEF tail, c, W

(***************************************************************************)
(* The invariant and what follows.                                         *)
(***************************************************************************)
LEMMA NoSourceChanges == ASSUME Safe PROVE ~ SourceChanges
BY DEF SourceChanges, Safe

LEMMA SafeStep == ASSUME Safe, SafeInv, [Next]_vars PROVE SafeInv'
<1>1. TypesInv'
  BY TypesStep DEF SafeInv, Safe
<1>2. Usable => ~ saved
  BY DEF Usable, Safe
<1>3. CASE ba_new
  BY <1>1, <1>3, NewKeeps
<1>4. ASSUME NEW p \in Archives, ba_open(p) \/ ba_save(p) PROVE SafeInv'
  <2>1. ba_save(p) => ~ saved
    BY <1>2 DEF ba_save
  <2> QED  BY <1>1, <1>4, <2>1, OpenKeeps, SaveKeeps
<1>5. CASE ba_close
  BY <1>1, <1>5, CloseKeeps
<1>6. ASSUME NEW n \in Names,
             \/ \E src \in DOMAIN Sources \cup {NULL} : ba_add_file(n, src)
             \/ ba_remove(n)
             \/ \E c \in Replacements : ba_set_file_contents(n, c)
             \/ ba_get_file_contents(n)
      PROVE  SafeInv'
  <2>1. ~ saved
    BY <1>2, <1>6 DEF ba_add_file, ba_remove, ba_set_file_contents, ba_get_file_contents
  <2> QED  BY <1>1, <1>6, <2>1, AddKeeps, RemoveKeeps, SetKeeps, GetKeeps
<1>7. CASE __ba_save_entry_dir
  BY <1>1, <1>7, EntryStepKeeps
<1>8. CASE SaveEnd
  BY <1>1, <1>8, EndKeeps
<1>9. CASE Crash
  BY <1>1, <1>9, CrashKeeps
<1>10. CASE UNCHANGED vars
  <2>1. UNCHANGED <<disk, status, loc, file, root, sub, loaded, entry, out, todo, put, written>>
    BY <1>10 DEF vars, tree
  <2>2. Present' = Present /\ Order' = Order /\ saved' = saved
    BY <2>1 DEF Present, Order, saved
  <2>3. Kept'
    <3>1. ASSUME NEW n \in Present, EntryKept(n) PROVE EntryKept(n)'
      <4>1. ContentsOf(n)' = ContentsOf(n)
        BY <2>1 DEF ContentsOf, Read
      <4> QED  BY <2>1, <3>1, <4>1 DEF EntryKept, Start
    <3> QED  BY <2>1, <2>2, <3>1 DEF Kept, SafeInv
  <2>4. SavingOK' = SavingOK
    <3>1. Through' = Through /\ Done' = Done
      BY <2>1, <2>2 DEF Through, Done
    <3>2. \A n : Before(n)' = Before(n)
      BY <2>2 DEF Before
    <3>3. Whole(disk, out)' = Whole(disk, out)
      BY <2>1 DEF Whole
    <3>4. LaidOut(Whole(disk, out))' = LaidOut(Whole(disk, out))
      BY <2>1, <2>2, <3>3 DEF LaidOut, End, Chunk
    <3> QED  BY <2>1, <2>2, <3>1, <3>2, <3>3, <3>4 DEF SavingOK, Total
  <2>5. SavedOK' = SavedOK
    BY <2>1, <2>2 DEF SavedOK, Whole
  <2> QED  BY <1>1, <2>1, <2>2, <2>3, <2>4, <2>5 DEF SafeInv, NoCrash
<1> QED  BY <1>3, <1>4, <1>5, <1>6, <1>7, <1>8, <1>9, <1>10, NoSourceChanges DEF Next

LEMMA SafeInit == Init => SafeInv
<1> SUFFICES ASSUME Init PROVE SafeInv
  OBVIOUS
<1>1. TypesInv /\ status = "none" /\ put = Nothing /\ Present = {}
  BY TypesInit DEF Init, Present, Nothing
<1>2. put \in [Present -> Seq(Cells)]
  BY <1>1 DEF Nothing
<1>3. \A p \in DOMAIN Sources : disk[p] = Sources[p]
  BY DEF Init, Paths
<1> QED  BY <1>1, <1>2, <1>3 DEF SafeInv, NoCrash, Kept

LEMMA SafeAlways == ASSUME Safe PROVE Spec => []SafeInv
<1>1. Init => SafeInv
  BY SafeInit
<1>2. SafeInv /\ [Next]_vars => SafeInv'
  BY SafeStep
<1> QED  BY <1>1, <1>2, PTL DEF Spec

\* A client that does none of what Calls names runs into no undefined behaviour.
THEOREM NoUndefinedBehaviour == ASSUME Safe PROVE Spec => []NoCrash
<1>1. SafeInv => NoCrash
  BY DEF SafeInv
<1>2. Spec => []SafeInv
  BY SafeAlways
<1> QED  BY <1>1, <1>2, PTL

\* Until the archive is saved and while it is being saved, the file with each name has
\* the contents that the client gave it: in its buffer, in the file it was added from or
\* in the archive that was opened, even when that is the file saved to.
THEOREM NothingIsLost == ASSUME Safe PROVE Spec => []ContentsKept
<1>1. SafeInv => ContentsKept
  BY DEF SafeInv, Kept, EntryKept, ContentsKept
<1>2. Spec => []SafeInv
  BY SafeAlways
<1> QED  BY <1>1, <1>2, PTL

\* What ba_save() has written is a complete archive with the names and contents that the
\* client put into it, however many files, and however the C library divides the output.
THEOREM SavedIsComplete == ASSUME Safe PROVE Spec => []SavedWhole
<1>1. ASSUME SafeInv PROVE SavedWhole
  <2> SUFFICES ASSUME status = "open", saved PROVE Parse(Image(file)) = written
    BY DEF SavedWhole
  <2>1. Growing(disk, file) /\ Parse(Whole(disk, file)) = put /\ written = put
    BY <1>1 DEF SafeInv, TypesInv, SaveOK, SavedOK
  <2>2. Image(file) = Whole(disk, file)
    BY <2>1, ClosedGrown DEF Image, saved
  <2> QED  BY <2>1, <2>2
<1>2. Spec => []SafeInv
  BY SafeAlways
<1> QED  BY <1>1, <1>2, PTL

\* While ba_save() writes, the data chunk ends just where the header says that the next
\* entry starts: the starts that __ba_rearrange() adds up agree with what is written.
THEOREM ChunksAreAtTheirStarts == ASSUME Safe PROVE Spec => []ChunkAtStart
<1>1. ASSUME SafeInv PROVE ChunkAtStart
  <2> SUFFICES ASSUME status = "saving", todo # <<>>
               PROVE  Len(Image(out)) = ChunkStart + entry[Head(todo)].start
    BY DEF ChunkAtStart
  <2>1. /\ TreeOK /\ EntriesOK /\ Arranged /\ LaidAt(Whole(disk, out), Through)
        /\ CellsOK(Whole(disk, out)) /\ Len(Whole(disk, out)) >= ChunkStart
        /\ Growing(disk, out) /\ out.mode = "w"
    BY <1>1, SavingFacts
  <2>2. Through \in 0 .. Len(Order) - 1 /\ Head(todo) = Order[Through + 1]
    BY <1>1, NextEntry
  <2>3. Len(Whole(disk, out)) = ChunkStart + entry[Order[Through + 1]].start
    BY <2>1, <2>2, LaidMore
  <2>4. Image(out) = Whole(disk, out)
    BY <2>1, ClosedGrown, StreamIsNotNull DEF Image, Growing
  <2> QED  BY <2>2, <2>3, <2>4
<1>2. Spec => []SafeInv
  BY SafeAlways
<1> QED  BY <1>1, <1>2, PTL

(***************************************************************************)
(* The archive implements the abstract store, for a client that does none  *)
(* of what Calls names: an open archive is a map from names to contents,   *)
(* saving puts all of it in the place of what the file had, at one moment  *)
(* or, if the process ends before, never.                                  *)
(***************************************************************************)
\* What the archive is to the client.
Mapped ==
    /\ StoreContents = IF status = "none" THEN NULL ELSE put
    /\ StoreTarget = IF status = "saving" THEN [path |-> out.path, map |-> put]
                     ELSE IF status = "open" /\ saved THEN [path |-> file.path, map |-> put]
                     ELSE NULL
    /\ put # NULL

LEMMA SavedParse ==
    ASSUME SafeInv, status = "open", saved
    PROVE  Parse(Image(file)) = put /\ Image(file) = Whole(disk, file) /\ Growing(disk, file)
<1>1. Growing(disk, file) /\ Parse(Whole(disk, file)) = put
  BY DEF SafeInv, TypesInv, SaveOK, SavedOK
<1>2. Image(file) = Whole(disk, file)
  BY <1>1, ClosedGrown DEF Image, saved
<1> QED  BY <1>1, <1>2

LEMMA MappedIs == SafeInv => Mapped
<1> SUFFICES ASSUME SafeInv PROVE Mapped
  OBVIOUS
<1>1. status \in {"none", "open", "saving"} /\ put \in [Present -> Seq(Cells)] /\ Present \subseteq Names
  BY DEF SafeInv, NoCrash, TypesInv, SaveOK, TreeOK
<1>2. put # NULL
  BY <1>1, ValuesAssumption
<1>3. StoreContents = IF status = "none" THEN NULL ELSE put
  <2>1. CASE status = "none"
    BY <2>1 DEF StoreContents
  <2>2. CASE status = "open" /\ saved
    BY <2>2, SavedParse DEF StoreContents
  <2>3. CASE status \in {"open", "saving"} /\ ~ (status = "open" /\ saved)
    <3>1. ~ saved
      BY <2>3 DEF SafeInv, TypesInv, SaveOK
    <3>2. \A n \in Present : ContentsOf(n) = put[n]
      BY <2>3, <3>1 DEF SafeInv, Kept, EntryKept
    <3>3. [n \in Present |-> ContentsOf(n)] = put
      BY <1>1, <3>2
    <3> QED  BY <2>3, <3>3 DEF StoreContents
  <2> QED  BY <1>1, <2>1, <2>2, <2>3
<1> QED  BY <1>2, <1>3 DEF Mapped, StoreTarget

LEMMA TargetIsNotNull ==
    ASSUME SafeInv, NEW p \in Archives PROVE [path |-> p, map |-> put] # NULL
<1>1. put \in [Present -> Seq(Cells)] /\ Present \in SUBSET Names
  BY DEF SafeInv, TypesInv, TreeOK
<1>2. [path |-> p, map |-> put] \in [path : Archives, map : [Present -> Seq(Cells)]]
  BY <1>1
<1> QED  BY <1>1, <1>2, ValuesAssumption

(***************************************************************************)
(* What each archive file holds.                                           *)
(***************************************************************************)
Complete(c) == Len(c) >= ChunkStart /\ \A n \in Present : End(n) <= Len(c)

LEMMA PrefixParse ==
    ASSUME EntriesOK, NEW a \in Seq(AnyCell), NEW b \in Seq(AnyCell), CellsOK(a \o b), LaidOut(a \o b)
    PROVE  Parse(a) = IF Complete(a) THEN put ELSE NULL
<1>1. CellsOK(a)
  BY PrefixOK
<1>2. Len(a) >= 2 => LaidOut(a)
  BY LaidPrefix
<1> QED  BY <1>1, <1>2, LaidParse DEF Complete

\* A file that is written becomes complete once and stays so.
LEMMA GrownParse ==
    ASSUME EntriesOK, NEW d, NEW s, Growing(d, s), CellsOK(Whole(d, s)), LaidOut(Whole(d, s)),
           NEW more, CellsOK(Whole(d, s) \o more), LaidOut(Whole(d, s) \o more),
           NEW w, Grown(w, d, s, more)
    PROVE  Parse(w.disk[s.path]) \in {Parse(d[s.path]), put}
<1> DEFINE a == d[s.path]
           b == w.disk[s.path]
<1>1. a \in Seq(AnyCell) /\ s.pending \in Seq(AnyCell) /\ CellsOK(a \o s.pending) /\ LaidOut(a \o s.pending)
  BY DEF Growing, Streams, Whole
<1>2. /\ b \in Seq(AnyCell) /\ w.stream.pending \in Seq(AnyCell)
      /\ CellsOK(b \o w.stream.pending) /\ LaidOut(b \o w.stream.pending)
      /\ \E rest \in Seq(AnyCell) : b = a \o rest
  BY DEF Grown, Growing, Streams, Whole
<1>3. Parse(a) = IF Complete(a) THEN put ELSE NULL
  BY <1>1, PrefixParse
<1>4. Parse(b) = IF Complete(b) THEN put ELSE NULL
  BY <1>2, PrefixParse
<1>5. Complete(a) => Complete(b)
  <2>1. PICK rest \in Seq(AnyCell) : b = a \o rest
    BY <1>2
  <2>2. Len(a) \in Nat /\ Len(rest) \in Nat /\ Len(b) = Len(a) + Len(rest)
    BY <1>1, <2>1, ConcatProperties, LenProperties
  <2>3. \A n \in Present : End(n) \in Nat
    BY DEF EntriesOK, End, ChunkStart
  <2> HIDE DEF a, b
  <2> QED  BY <2>2, <2>3 DEF Complete, ChunkStart
<1> HIDE DEF a, b
<1>6. Parse(b) \in {Parse(a), put}
  BY <1>3, <1>4, <1>5
<1> QED  BY <1>6 DEF a, b

LEMMA TargetParse == SafeInv /\ status = "saving" => Parse(disk[out.path]) \in {NULL, put}
<1> SUFFICES ASSUME SafeInv, status = "saving" PROVE Parse(disk[out.path]) \in {NULL, put}
  OBVIOUS
<1>1. /\ EntriesOK /\ Growing(disk, out) /\ CellsOK(Whole(disk, out)) /\ LaidOut(Whole(disk, out))
  BY SavingFacts DEF LaidAt
<1>2. disk[out.path] \in Seq(AnyCell) /\ out.pending \in Seq(AnyCell)
  BY <1>1 DEF Growing, Streams
<1> QED  BY <1>1, <1>2, PrefixParse DEF Whole

\* What a step that writes one file does to the maps.
LEMMA StoredOne ==
    ASSUME NEW p \in Archives, \A q \in Archives \ {p} : disk'[q] = disk[q]
    PROVE  StoredMaps' = [StoredMaps EXCEPT ![p] = Parse(disk'[p])]
BY DEF StoredMaps

LEMMA StoredSame ==
    ASSUME \A q \in Archives : disk'[q] = disk[q]
    PROVE  StoredMaps' = StoredMaps
BY DEF StoredMaps

(***************************************************************************)
(* Each call is a step of the store, or none.                              *)
(***************************************************************************)
StoreStep == Store!Next \/ UNCHANGED <<StoreContents, StoreTarget, StoredMaps>>

BothMapped == SafeInv /\ Mapped /\ SafeInv' /\ Mapped'

LEMMA NewRefines == ASSUME BothMapped, ba_new PROVE StoreStep
<1>1. status = "none" /\ status' = "open" /\ UNCHANGED <<disk, file, put>> /\ put = Nothing
  BY DEF ba_new, BothMapped, SafeInv
<1>2. ~ saved'
  BY NewKeeps DEF BothMapped, SafeInv
<1>3. StoreContents = NULL /\ StoreContents' = Nothing /\ StoreTarget = NULL /\ StoreTarget' = NULL
  BY <1>1, <1>2 DEF BothMapped, Mapped
<1>4. StoredMaps' = StoredMaps
  BY <1>1, StoredSame
<1>5. Store!New
  BY <1>3, <1>4 DEF Store!New, Nothing
<1> QED  BY <1>5 DEF StoreStep, Store!Next

LEMMA OpenRefines == ASSUME Safe, BothMapped, NEW p \in Archives, ba_open(p) PROVE StoreStep
<1>1. /\ put' = Parse(disk[p]) /\ Parse(disk[p]) # NULL /\ UNCHANGED <<disk, out>>
      /\ status = "none" /\ status' = "open" /\ ~ saved'
  BY OpenKeeps DEF BothMapped, SafeInv
<1>2. /\ StoreContents = NULL /\ StoreContents' = StoredMaps[p] /\ StoredMaps[p] # NULL
      /\ StoreTarget = NULL /\ StoreTarget' = NULL
  BY <1>1 DEF BothMapped, Mapped, StoredMaps
<1>3. StoredMaps' = StoredMaps
  BY <1>1, StoredSame
<1>4. Store!Open(p)
  BY <1>2, <1>3 DEF Store!Open
<1> QED  BY <1>4 DEF StoreStep, Store!Next

\* An archive that is open and not saved is changed.
LEMMA EditMaps ==
    ASSUME BothMapped, status = "open", ~ saved, UNCHANGED <<disk, status, file>>
    PROVE  /\ StoreContents = put /\ StoreContents' = put' /\ put # NULL /\ put' # NULL
           /\ DOMAIN put = Present
           /\ StoreTarget = NULL /\ StoreTarget' = NULL /\ StoredMaps' = StoredMaps
<1>1. ~ saved' /\ status' = "open"
  BY DEF saved
<1>2. StoredMaps' = StoredMaps
  BY StoredSame
<1> QED  BY <1>1, <1>2 DEF BothMapped, Mapped, SafeInv, TypesInv, TreeOK

LEMMA AddRefines ==
    ASSUME BothMapped, NEW n \in Names, NEW src \in DOMAIN Sources \cup {NULL}, ~ saved, ba_add_file(n, src)
    PROVE  StoreStep
<1> DEFINE contents == IF src = NULL THEN <<>> ELSE disk[src]
<1>1. /\ status = "open" /\ n \notin Present /\ UNCHANGED <<disk, status, file>>
      /\ put' = [m \in Present \cup {n} |-> IF m = n THEN contents ELSE put[m]]
  BY DEF ba_add_file, Usable
<1>2. contents \in Contents
  BY BytesAssumption DEF BothMapped, SafeInv, Contents
<1> HIDE DEF contents
<1>3. /\ StoreContents = put /\ StoreContents' = put' /\ put # NULL /\ put' # NULL /\ DOMAIN put = Present
      /\ StoreTarget = NULL /\ StoreTarget' = NULL /\ StoredMaps' = StoredMaps
  BY <1>1, EditMaps
<1>4. Store!Put(n)
  BY <1>1, <1>2, <1>3 DEF Store!Put
<1> QED  BY <1>4 DEF StoreStep, Store!Next

LEMMA RemoveRefines == ASSUME BothMapped, NEW n \in Names, ~ saved, ba_remove(n) PROVE StoreStep
<1>1. /\ status = "open" /\ UNCHANGED <<disk, status, file>>
      /\ put' = [m \in Present \ {n} |-> put[m]]
  BY DEF ba_remove, Usable
<1>2. /\ StoreContents = put /\ StoreContents' = put' /\ put # NULL /\ DOMAIN put = Present
      /\ StoreTarget = NULL /\ StoreTarget' = NULL /\ StoredMaps' = StoredMaps
  BY <1>1, EditMaps
<1>3. Store!Remove(n)
  BY <1>1, <1>2 DEF Store!Remove
<1> QED  BY <1>3 DEF StoreStep, Store!Next

LEMMA SetRefines ==
    ASSUME BothMapped, NEW n \in Names, NEW c \in Replacements, ~ saved, ba_set_file_contents(n, c)
    PROVE  StoreStep
<1>1. /\ status = "open" /\ n \in Present /\ UNCHANGED <<disk, status, file>> /\ put' = [put EXCEPT ![n] = c]
  BY DEF ba_set_file_contents, Usable
<1>2. c \in Contents
  BY BytesAssumption DEF Contents
<1>3. /\ StoreContents = put /\ StoreContents' = put' /\ put # NULL /\ put' # NULL /\ DOMAIN put = Present
      /\ StoreTarget = NULL /\ StoreTarget' = NULL /\ StoredMaps' = StoredMaps
  BY <1>1, EditMaps
<1>4. put'[n] = c /\ DOMAIN put' = DOMAIN put \cup {n} /\ \A m \in DOMAIN put \ {n} : put'[m] = put[m]
  BY <1>1, <1>3
<1>5. Store!Put(n)
  BY <1>2, <1>3, <1>4 DEF Store!Put
<1> QED  BY <1>5 DEF StoreStep, Store!Next

LEMMA SaveRefines ==
    ASSUME Safe, BothMapped, NEW p \in Archives, ~ saved, ba_save(p)
    PROVE  StoreStep
<1>1. /\ UNCHANGED <<put, file>> /\ status = "open" /\ status' = "saving" /\ out'.path = p
      /\ \A q \in Archives \ {p} : disk'[q] = disk[q]
  BY SaveKeeps DEF BothMapped, SafeInv
<1>2. /\ StoreContents = put /\ StoreContents' = put /\ put # NULL
      /\ StoreTarget = NULL /\ StoreTarget' = [path |-> p, map |-> put]
  BY <1>1 DEF BothMapped, Mapped
<1>3. (SafeInv /\ status = "saving" => Parse(disk[out.path]) \in {NULL, put})'
  BY TargetParse, PTL
<1>4. Parse(disk'[p]) \in {NULL, put}
  BY <1>1, <1>3 DEF BothMapped, Parse, Chunk
<1>5. StoredMaps' = [StoredMaps EXCEPT ![p] = Parse(disk'[p])]
  BY <1>1, StoredOne
<1>6. Store!Save(p)
  BY <1>2, <1>4, <1>5 DEF Store!Save
<1> QED  BY <1>6 DEF StoreStep, Store!Next

\* While the file is written, it may become complete at any step.
LEMMA WriteRefines ==
    ASSUME BothMapped, NEW p \in Archives, UNCHANGED put, status = "saving", out.path = p,
           StoreContents' = put, StoreTarget' = [path |-> p, map |-> put],
           \A q \in Archives \ {p} : disk'[q] = disk[q],
           Parse(disk'[p]) \in {Parse(disk[p]), put}
    PROVE  StoreStep
<1>1. StoreContents = put /\ StoreTarget = [path |-> p, map |-> put] /\ StoreTarget # NULL
  <2>1. StoreContents = put /\ StoreTarget = [path |-> p, map |-> put]
    BY DEF BothMapped, Mapped
  <2> QED  BY <2>1, TargetIsNotNull DEF BothMapped
<1>2. StoredMaps' = [StoredMaps EXCEPT ![p] = Parse(disk'[p])]
  BY StoredOne
<1>3. CASE Parse(disk'[p]) = Parse(disk[p])
  <2>1. StoredMaps' = StoredMaps
    BY <1>2, <1>3 DEF StoredMaps
  <2> QED  BY <1>1, <2>1 DEF StoreStep
<1>4. CASE Parse(disk'[p]) = put
  <2>1. Store!Land
    BY <1>1, <1>2, <1>4 DEF Store!Land, Store!Landed
  <2> QED  BY <2>1 DEF StoreStep, Store!Next
<1> QED  BY <1>3, <1>4
LEMMA EntryStepRefines == ASSUME BothMapped, __ba_save_entry_dir PROVE StoreStep
<1> DEFINE more == put[Head(todo)]
           w == [disk |-> disk', stream |-> out']
<1>1. /\ UNCHANGED put /\ status = "saving" /\ status' = "saving" /\ out'.path = out.path
      /\ Grown(w, disk, out, more)
      /\ LaidOut(Whole(disk, out) \o more) /\ CellsOK(Whole(disk, out) \o more)
      /\ \A q \in Paths \ {out.path} : disk'[q] = disk[q]
  BY EntryStepKeeps DEF BothMapped, SafeInv
<1>2. EntriesOK /\ Growing(disk, out) /\ CellsOK(Whole(disk, out)) /\ LaidOut(Whole(disk, out))
  BY <1>1, SavingFacts DEF LaidAt, BothMapped
<1> HIDE DEF more, w
<1>3. Parse(w.disk[out.path]) \in {Parse(disk[out.path]), put}
  BY <1>1, <1>2, GrownParse
<1>4. Parse(disk'[out.path]) \in {Parse(disk[out.path]), put}
  BY <1>3 DEF w
<1>5. out.path \in Archives /\ \A q \in Archives \ {out.path} : disk'[q] = disk[q]
  BY <1>1, <1>2 DEF Growing, Streams, Paths
<1>6. StoreContents' = put /\ StoreTarget' = [path |-> out.path, map |-> put]
  BY <1>1 DEF BothMapped, Mapped
<1> QED  BY <1>1, <1>4, <1>5, <1>6, WriteRefines

LEMMA EndRefines == ASSUME BothMapped, SaveEnd PROVE StoreStep
<1> DEFINE more == <<NUL, MARK>>
           w == [disk |-> disk', stream |-> file']
<1>1. /\ UNCHANGED put /\ saved' /\ status = "saving" /\ status' = "open" /\ file'.path = out.path
      /\ Grown(w, disk, out, more)
      /\ LaidOut(Whole(disk, out) \o more) /\ CellsOK(Whole(disk, out) \o more)
      /\ \A q \in Paths \ {out.path} : disk'[q] = disk[q]
  BY EndKeeps DEF BothMapped, SafeInv
<1>2. EntriesOK /\ Growing(disk, out) /\ CellsOK(Whole(disk, out)) /\ LaidOut(Whole(disk, out))
  BY <1>1, SavingFacts DEF LaidAt, BothMapped
<1> HIDE DEF more, w
<1>3. Parse(w.disk[out.path]) \in {Parse(disk[out.path]), put}
  BY <1>1, <1>2, GrownParse
<1>4. Parse(disk'[out.path]) \in {Parse(disk[out.path]), put}
  BY <1>3 DEF w
<1>5. out.path \in Archives /\ \A q \in Archives \ {out.path} : disk'[q] = disk[q]
  BY <1>1, <1>2 DEF Growing, Streams, Paths
<1>6. StoreContents' = put /\ StoreTarget' = [path |-> out.path, map |-> put]
  BY <1>1 DEF BothMapped, Mapped
<1> QED  BY <1>1, <1>4, <1>5, <1>6, WriteRefines

\* Closing the archive writes what was still pending.
LEMMA CloseRefines == ASSUME BothMapped, ba_close PROVE StoreStep
<1>1. status = "open" /\ Gone /\ disk' = Closed(disk, file)
  BY CloseKeeps DEF BothMapped, SafeInv, ba_close
<1>2. /\ StoreContents = put /\ put # NULL /\ StoreContents' = NULL /\ StoreTarget' = NULL
      /\ StoreTarget = IF saved THEN [path |-> file.path, map |-> put] ELSE NULL
  BY <1>1 DEF BothMapped, Mapped, Gone
<1>3. StoredMaps' = IF StoreTarget = NULL THEN StoredMaps
                    ELSE [StoredMaps EXCEPT ![StoreTarget.path] = StoreTarget.map]
  <2>1. CASE saved
    <3> DEFINE p == file.path
    <3>1. Parse(Image(file)) = put /\ Growing(disk, file)
      BY <1>1, <2>1, SavedParse DEF BothMapped
    <3>2. p \in Archives /\ DOMAIN disk = Paths
      BY <3>1 DEF Growing, Streams, BothMapped, SafeInv, TypesInv, DiskOK
    <3>3. disk'[p] = Image(file)
      BY <1>1 DEF Image
    <3>4. \A q \in Archives \ {p} : disk'[q] = disk[q]
      BY <1>1, <2>1, <3>2, ClosedElsewhere DEF saved, Paths
    <3> HIDE DEF p
    <3>5. StoredMaps' = [StoredMaps EXCEPT ![p] = put]
      <4>1. StoredMaps' = [StoredMaps EXCEPT ![p] = Parse(disk'[p])]
        BY <3>2, <3>4, StoredOne
      <4> QED  BY <3>1, <3>3, <4>1
    <3>6. StoreTarget = [path |-> p, map |-> put] /\ StoreTarget # NULL
      <4>1. StoreTarget = [path |-> p, map |-> put]
        BY <1>2, <2>1 DEF p
      <4> QED  BY <3>2, <4>1, TargetIsNotNull DEF BothMapped
    <3> QED  BY <3>5, <3>6
  <2>2. CASE ~ saved
    <3>1. disk' = disk
      BY <1>1, <2>2 DEF Closed, saved, BothMapped, SafeInv, TypesInv, FileOK, Streams
    <3> QED  BY <1>2, <2>2, <3>1, StoredSame
  <2> QED  BY <2>1, <2>2
<1>4. Store!Close
  BY <1>2, <1>3 DEF Store!Close, Store!Landed
<1> QED  BY <1>4 DEF StoreStep, Store!Next

LEMMA CrashRefines == ASSUME BothMapped, Crash PROVE StoreStep
<1>1. status' = "none" /\ disk' = disk
  BY DEF Crash, Gone
<1>2. StoreContents' = NULL /\ StoreTarget' = NULL /\ StoredMaps' = StoredMaps
  BY <1>1, StoredSame DEF BothMapped, Mapped
<1>3. Store!Crash
  BY <1>2 DEF Store!Crash
<1> QED  BY <1>3 DEF StoreStep, Store!Next

\* Reading contents, and steps of others, change nothing of the store.
LEMMA QuietRefines ==
    ASSUME BothMapped, UNCHANGED <<disk, status, file, out, put>>
    PROVE  StoreStep
<1>1. saved' = saved /\ StoredMaps' = StoredMaps
  BY StoredSame DEF saved
<1>2. StoreContents' = StoreContents /\ StoreTarget' = StoreTarget
  BY <1>1 DEF BothMapped, Mapped
<1> QED  BY <1>1, <1>2 DEF StoreStep

LEMMA StepRefines == ASSUME Safe, BothMapped, [Next]_vars PROVE StoreStep
<1>1. Usable => ~ saved
  BY DEF Usable, Safe
<1>2. CASE ba_new
  BY <1>2, NewRefines
<1>3. ASSUME NEW p \in Archives, ba_open(p) \/ ba_save(p) PROVE StoreStep
  <2>1. ba_save(p) => ~ saved
    BY <1>1 DEF ba_save
  <2> QED  BY <1>3, <2>1, OpenRefines, SaveRefines
<1>4. CASE ba_close
  BY <1>4, CloseRefines
<1>5. ASSUME NEW n \in Names,
             \/ \E src \in DOMAIN Sources \cup {NULL} : ba_add_file(n, src)
             \/ ba_remove(n)
             \/ \E c \in Replacements : ba_set_file_contents(n, c)
      PROVE  StoreStep
  <2>1. ~ saved
    BY <1>1, <1>5 DEF ba_add_file, ba_remove, ba_set_file_contents
  <2> QED  BY <1>5, <2>1, AddRefines, RemoveRefines, SetRefines
<1>6. ASSUME NEW n \in Names, ba_get_file_contents(n) PROVE StoreStep
  <2>1. status' # "crash"
    BY DEF BothMapped, SafeInv, NoCrash
  <2>2. UNCHANGED <<disk, status, file, out, put>>
    BY <1>6, <2>1 DEF ba_get_file_contents, Fault
  <2> QED  BY <2>2, QuietRefines
<1>7. CASE __ba_save_entry_dir
  BY <1>7, EntryStepRefines
<1>8. CASE SaveEnd
  BY <1>8, EndRefines
<1>9. CASE Crash
  BY <1>9, CrashRefines
<1>10. CASE UNCHANGED vars
  BY <1>10, QuietRefines DEF vars
<1> QED  BY <1>2, <1>3, <1>4, <1>5, <1>6, <1>7, <1>8, <1>9, <1>10, NoSourceChanges DEF Next

LEMMA InitRefines == ASSUME Init PROVE Store!Init
<1>1. StoreContents = NULL /\ StoreTarget = NULL
  BY DEF Init, StoreContents, StoreTarget
<1>2. \A p \in Archives : Parse(disk[p]) = NULL
  <2>1. \A p \in Archives : disk[p] = MISSING
    BY PathsAssumption DEF Init, Paths
  <2> QED  BY <2>1 DEF Parse
<1> QED  BY <1>1, <1>2 DEF Store!Init, StoredMaps

\* An archive is to its client a map from names to contents, and each archive file is
\* the map that was saved to it last, or none: ba_save() replaces it as a whole, and a
\* crash in the middle loses only this one.
THEOREM ArchiveImplementsStore == ASSUME Safe PROVE Spec => ImplementsStore
<1>1. Init => Store!Init
  BY InitRefines
<1>2. SafeInv /\ SafeInv' /\ [Next]_vars => [Store!Next]_(Store!vars)
  <2>1. SafeInv => Mapped
    BY MappedIs
  <2>2. SafeInv' => Mapped'
    BY MappedIs, PTL
  <2>3. SafeInv /\ SafeInv' /\ [Next]_vars => StoreStep
    BY <2>1, <2>2, StepRefines DEF BothMapped
  <2> QED  BY <2>3 DEF StoreStep, Store!vars
<1>3. Spec => []SafeInv
  BY SafeAlways
<1> QED  BY <1>1, <1>2, <1>3, PTL DEF Spec, ImplementsStore, Store!Spec
=============================================================================
