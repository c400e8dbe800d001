--------------------------- MODULE HeaderTreeProofs ---------------------------
(***************************************************************************)
(* Theorems about HeaderTree: the properties of its runs, for any sets of  *)
(* entries, names and sizes and whatever happens besides the basic calls.  *)
(***************************************************************************)
EXTENDS HeaderTree, EntryPathsProofs

(***************************************************************************)
(* Order in lists.                                                         *)
(***************************************************************************)
LEMMA InOrderAppend ==
    ASSUME NEW S, NEW s \in Seq(S), NEW e \in S, NEW x, NEW y
    PROVE  InOrder(Append(s, e), x, y) <=> InOrder(s, x, y) \/ (y = e /\ x \in ToSet(s))
<1>1. PICK t \in Seq(S) : /\ t = Append(s, e) /\ Len(t) = Len(s) + 1 /\ t[Len(t)] = e
                          /\ \A i \in 1 .. Len(s) : t[i] = s[i]
  <2>1. /\ Append(s, e) \in Seq(S) /\ Len(Append(s, e)) = Len(s) + 1
        /\ \A i \in 1 .. Len(s) : Append(s, e)[i] = s[i]
        /\ Append(s, e)[Len(s) + 1] = e
    BY AppendProperties
  <2> QED  BY <2>1
<1>2. /\ DOMAIN s = 1 .. Len(s) /\ DOMAIN t = 1 .. Len(t) /\ Len(s) \in Nat /\ Len(t) \in Nat
      /\ x \in ToSet(s) <=> \E i \in 1 .. Len(s) : s[i] = x
  BY SetOfSeq
<1>3. ASSUME InOrder(t, x, y) PROVE InOrder(s, x, y) \/ (y = e /\ x \in ToSet(s))
  <2>1. PICK i, j \in 1 .. Len(t) : i < j /\ t[i] = x /\ t[j] = y
    BY <1>2, <1>3 DEF InOrder
  <2>2. i \in 1 .. Len(s) /\ s[i] = x
    BY <1>1, <1>2, <2>1
  <2>3. CASE j = Len(t)
    BY <1>1, <1>2, <2>1, <2>2, <2>3
  <2>4. CASE j # Len(t)
    <3>1. j \in 1 .. Len(s) /\ s[j] = y
      BY <1>1, <1>2, <2>1, <2>4
    <3> QED  BY <1>2, <2>1, <2>2, <3>1 DEF InOrder
  <2> QED  BY <2>3, <2>4
<1>4. ASSUME InOrder(s, x, y) PROVE InOrder(t, x, y)
  <2>1. PICK i, j \in 1 .. Len(s) : i < j /\ s[i] = x /\ s[j] = y
    BY <1>2, <1>4 DEF InOrder
  <2>2. i \in 1 .. Len(t) /\ j \in 1 .. Len(t) /\ t[i] = x /\ t[j] = y
    BY <1>1, <1>2, <2>1
  <2> QED  BY <1>2, <2>1, <2>2 DEF InOrder
<1>5. ASSUME y = e, x \in ToSet(s) PROVE InOrder(t, x, y)
  <2>1. PICK i \in 1 .. Len(s) : s[i] = x
    BY <1>2, <1>5
  <2>2. /\ i \in 1 .. Len(t) /\ Len(t) \in 1 .. Len(t) /\ i < Len(t) /\ t[i] = x
        /\ t[Len(t)] = y
    BY <1>1, <1>2, <1>5, <2>1
  <2> QED  BY <1>2, <2>2 DEF InOrder
<1> QED  BY <1>1, <1>3, <1>4, <1>5

LEMMA InOrderEmpty == \A x, y : ~ InOrder(<<>>, x, y)
BY DEF InOrder

\* Taking other entries out keeps the order.
LEMMA InOrderOnly ==
    ASSUME NEW S, NEW s \in Seq(S), NEW T, NEW x \in T, NEW y \in T, InOrder(s, x, y)
    PROVE  InOrder(Only(s, T), x, y)
<1> DEFINE P == {t \in Seq(S) : InOrder(t, x, y) => InOrder(Only(t, T), x, y)}
<1>1. <<>> \in P
  BY InOrderEmpty, EmptySeq
<1>2. ASSUME NEW t \in Seq(S), t \in P, NEW e \in S PROVE Append(t, e) \in P
  <2>1. /\ Append(t, e) \in Seq(S) /\ Only(t, T) \in Seq(S)
        /\ ToSet(Only(t, T)) = ToSet(t) \cap T
    BY AppendProperties, OnlySet
  <2>2. Only(Append(t, e), T) = IF e \in T THEN Append(Only(t, T), e) ELSE Only(t, T)
    BY OnlyAppend
  <2>3. InOrder(Append(t, e), x, y) <=> InOrder(t, x, y) \/ (y = e /\ x \in ToSet(t))
    BY InOrderAppend
  <2>4. InOrder(Append(Only(t, T), e), x, y)
          <=> InOrder(Only(t, T), x, y) \/ (y = e /\ x \in ToSet(Only(t, T)))
    BY <2>1, InOrderAppend
  <2> QED  BY <1>2, <2>1, <2>2, <2>3, <2>4
<1>3. Seq(S) \subseteq P
  <2> HIDE DEF P
  <2> QED  BY <1>1, <1>2, SeqInduct
<1> QED  BY <1>3

LEMMA InOrderConcat ==
    ASSUME NEW S, NEW s \in Seq(S), NEW t \in Seq(S), NEW x, NEW y,
           InOrder(s, x, y) \/ InOrder(t, x, y)
    PROVE  InOrder(s \o t, x, y)
<1>1. PICK u \in Seq(S) : /\ u = s \o t /\ Len(u) = Len(s) + Len(t)
                          /\ \A i \in 1 .. Len(s) : u[i] = s[i]
                          /\ \A i \in 1 .. Len(t) : u[Len(s) + i] = t[i]
  <2>1. /\ s \o t \in Seq(S) /\ Len(s \o t) = Len(s) + Len(t)
        /\ \A i \in 1 .. Len(s) : (s \o t)[i] = s[i]
        /\ \A i \in 1 .. Len(t) : (s \o t)[Len(s) + i] = t[i]
    OBVIOUS
  <2> QED  BY <2>1
<1>2. /\ DOMAIN s = 1 .. Len(s) /\ DOMAIN t = 1 .. Len(t) /\ DOMAIN u = 1 .. Len(u)
      /\ Len(s) \in Nat /\ Len(t) \in Nat
  OBVIOUS
<1>3. CASE InOrder(s, x, y)
  <2>1. PICK i, j \in 1 .. Len(s) : i < j /\ s[i] = x /\ s[j] = y
    BY <1>2, <1>3 DEF InOrder
  <2>2. i \in 1 .. Len(u) /\ j \in 1 .. Len(u) /\ u[i] = x /\ u[j] = y
    BY <1>1, <1>2, <2>1
  <2> QED  BY <1>1, <1>2, <2>1, <2>2 DEF InOrder
<1>4. CASE InOrder(t, x, y)
  <2>1. PICK i, j \in 1 .. Len(t) : i < j /\ t[i] = x /\ t[j] = y
    BY <1>2, <1>4 DEF InOrder
  <2>2. PICK k, l \in 1 .. Len(u) : k = Len(s) + i /\ l = Len(s) + j /\ k < l
    <3>1. Len(s) + i \in 1 .. Len(u) /\ Len(s) + j \in 1 .. Len(u) /\ Len(s) + i < Len(s) + j
      BY <1>1, <1>2, <2>1
    <3> QED  BY <3>1
  <2>3. u[k] = x /\ u[l] = y
    BY <1>1, <2>1, <2>2
  <2> QED  BY <1>1, <1>2, <2>2, <2>3 DEF InOrder
<1> QED  BY <1>3, <1>4

(***************************************************************************)
(* Saving and opening what nobody changes.                                 *)
(***************************************************************************)
LEMMA InfoSame ==
    ASSUME NEW i \in Infos, NEW j \in Infos, i.type = j.type, i.name = j.name, i.path = j.path,
           i.size = j.size, i.start = j.start, i.time = j.time
    PROVE  i = j
<1>1. CASE i \in FileInfos
  <2>1. j \in FileInfos
    BY <1>1, InfoFacts DEF FileInfos
  <2> QED  BY <1>1, <2>1 DEF FileInfos
<1>2. CASE i \in DirInfos
  <2>1. j \in DirInfos
    BY <1>2, InfoFacts DEF DirInfos
  <2> QED  BY <1>2, <2>1 DEF DirInfos
<1>3. CASE i = UntypedInfo
  <2>1. i.type = "untyped"
    BY <1>3 DEF UntypedInfo, NoInfo
  <2> QED  BY <1>3, <2>1, InfoFacts
<1>4. CASE i = NoInfo
  <2>1. i.type = "none"
    BY <1>4 DEF NoInfo
  <2> QED  BY <1>4, <2>1, InfoFacts
<1> QED  BY <1>1, <1>2, <1>3, <1>4 DEF Infos

\* Files stay where they are when the archive is saved again.
LEMMA RearrangedTwice ==
    ASSUME NEW t, TreeOK(t), NEW u, u = Rearranged(t)
    PROVE  u = Rearranged(u)
<1>1. RearrangesTo(t, u)
  BY RearrangedTree
<1>2. /\ TreeOK(u) /\ u.kids = t.kids /\ Files(u) = Files(t)
      /\ \A e \in Entries : /\ u.info[e].size = t.info[e].size
                            /\ e \in Files(t) => u.info[e].start = StartOf(t, e)
  BY <1>1 DEF RearrangesTo
<1>3. PICK v : v = Rearranged(u)
  OBVIOUS
<1>4. RearrangesTo(u, v)
  BY <1>2, <1>3, RearrangedTree
<1>5. /\ TreeOK(v) /\ v.kids = u.kids
      /\ \A e \in Entries :
            /\ v.info[e].type = u.info[e].type /\ v.info[e].name = u.info[e].name
            /\ v.info[e].path = u.info[e].path /\ v.info[e].size = u.info[e].size
            /\ v.info[e].time = u.info[e].time
            /\ v.info[e].start = IF e \in Files(u) THEN StartOf(u, e) ELSE u.info[e].start
  BY <1>4 DEF RearrangesTo
<1>6. \A e \in Entries : StartOf(u, e) = StartOf(t, e)
  BY <1>2, StartFacts, TreeListed
<1>7. u.info \in [Entries -> Infos] /\ v.info \in [Entries -> Infos]
  BY <1>2, <1>5 DEF TreeOK
<1>8. ASSUME NEW e \in Entries PROVE v.info[e] = u.info[e]
  <2>1. v.info[e].start = u.info[e].start
    BY <1>2, <1>5, <1>6
  <2> QED  BY <1>5, <1>7, <2>1, InfoSame
<1>9. v.info = u.info
  BY <1>7, <1>8
<1>10. v = [kids |-> v.kids, info |-> v.info] /\ u = [kids |-> u.kids, info |-> u.info]
  BY <1>2, <1>5 DEF TreeOK
<1> QED  BY <1>3, <1>5, <1>9, <1>10

\* The attributes the header of a tree gives an entry.
\* Trees that saving and opening leaves as they are, but for their paths: in each list
\* files are before directories, and the attributes are those a loader gives.
Settled(t) ==
    /\ \A d \in Places : t.kids[d] = Only(t.kids[d], Files(t)) \o Only(t.kids[d], Dirs(t))
    /\ \A e \in Content(t) :
          /\ t.info[e].type \in {"file", "dir"}
          /\ t.info[e].size \in -(IntMax + 1) .. IntMax
          /\ t.info[e].time = IF t.info[e].time = NULL THEN "epoch" ELSE t.info[e].time

LEMMA SortedConcat ==
    ASSUME NEW S, NEW f \in Seq(S), NEW g \in Seq(S), NEW F, NEW D,
           ToSet(f) \subseteq F, ToSet(g) \subseteq D, F \cap D = {}
    PROVE  Only(f \o g, F) = f /\ Only(f \o g, D) = g
<1>1. Only(f \o g, F) = Only(f, F) \o Only(g, F) /\ Only(f \o g, D) = Only(f, D) \o Only(g, D)
  BY OnlyConcat
<1>2. ToSet(g) \cap F = {} /\ ToSet(f) \cap D = {}
  OBVIOUS
<1>3. Only(f, F) = f /\ Only(g, F) = <<>> /\ Only(f, D) = <<>> /\ Only(g, D) = g
  BY <1>2, OnlyAll
<1>4. f \o <<>> = f /\ <<>> \o g = g
  OBVIOUS
<1> QED  BY <1>1, <1>3, <1>4

\* Times a loader gives stay as they are.
LEMMA TimesSettle ==
    ASSUME NEW a, NEW b, b = IF a = NULL THEN "epoch" ELSE a
    PROVE  b = IF b = NULL THEN "epoch" ELSE b
OBVIOUS

\* What a loader gives is settled.
LEMMA LoadedSettles ==
    ASSUME NEW h, NEW t, NEW u, IsLoaded(h, t, u)
    PROVE  Settled(u)
<1>1. /\ TreeOK(t) /\ Worn(h, t) /\ ~ Unreadable(h) /\ LoadsTo(h, t, u)
  BY LoadedTree DEF IsLoaded
<1>2. /\ TreeOK(u) /\ u.kids = ReadLists(h) /\ Content(u) = Read(h)
      /\ \A e \in Content(u) : u.info[e].type = t.info[e].type
                               /\ u.info[e].type \in {"file", "dir"}
  BY <1>1 DEF LoadsTo
<1>3. \A e \in Content(u) : u.info[e].type = h.node[e].tag /\ Readable(h.node[e])
  BY <1>1, <1>2, NodesReadable
<1>4. Lists(h.kids)
  <2>1. Lists(t.kids)
    BY <1>1, TreeFacts, ForestFacts
  <2> QED  BY <1>1, <2>1 DEF Worn
<1>5. Files(u) \cap Dirs(u) = {}
  BY DEF Files, Dirs
<1>6. ASSUME NEW d \in Places
      PROVE  u.kids[d] = Only(u.kids[d], Files(u)) \o Only(u.kids[d], Dirs(u))
  <2>1. CASE d \in Read(h) \cup {NULL}
    <3>1. PICK s \in Seq(Entries) : s = h.kids[d]
      BY <1>4, ListSets
    <3>2. PICK f : f = Only(s, Tagged(h, "file")) /\ f \in Seq(Entries)
                   /\ ToSet(f) = ToSet(s) \cap Tagged(h, "file")
      BY OnlySet
    <3>3. PICK g : g = Only(s, Tagged(h, "dir")) /\ g \in Seq(Entries)
                   /\ ToSet(g) = ToSet(s) \cap Tagged(h, "dir")
      BY OnlySet
    <3>4. u.kids[d] = f \o g
      BY <1>2, <2>1, <3>1, <3>2, <3>3 DEF ReadLists, LoadedKids
    <3>5. ToSet(f) \cup ToSet(g) \subseteq Content(u)
      <4>1. ToSet(u.kids[d]) \subseteq Content(u)
        BY <1>2, TreeFacts, ForestFacts, ListSets
      <4>2. ToSet(f \o g) = ToSet(f) \cup ToSet(g)
        BY <3>2, <3>3, ConcatSet
      <4> QED  BY <3>4, <4>1, <4>2
    <3>6. ToSet(f) \subseteq Files(u)
      BY <1>3, <3>2, <3>5 DEF Files, Tagged
    <3>7. ToSet(g) \subseteq Dirs(u)
      BY <1>3, <3>3, <3>5 DEF Dirs, Tagged
    <3>8. Only(f \o g, Files(u)) = f /\ Only(f \o g, Dirs(u)) = g
      BY <1>5, <3>2, <3>3, <3>6, <3>7, SortedConcat
    <3> QED  BY <3>4, <3>8
  <2>2. CASE d \notin Read(h) \cup {NULL}
    <3>1. u.kids[d] = <<>>
      BY <1>2, <2>2 DEF ReadLists
    <3>2. <<>> \o <<>> = <<>>
      OBVIOUS
    <3> QED  BY <3>1, <3>2, OnlyEmpty
  <2> QED  BY <2>1, <2>2
<1>7. ASSUME NEW e \in Content(u)
      PROVE  /\ u.info[e].size \in -(IntMax + 1) .. IntMax
             /\ u.info[e].time = IF u.info[e].time = NULL THEN "epoch" ELSE u.info[e].time
  <2>0. PICK d \in Places : e \in ToSet(u.kids[d])
    BY <1>2, TreeFacts DEF Linked
  <2>1. PICK n : n = h.node[e] /\ Readable(n)
    BY <1>3
  <2>2. PICK p \in Seq(Parts) : p = PathOf(u, d)
    BY <1>2, <2>0, TreeFacts, PathOfDir
  <2>3. u.info[e] = LoadedEntry(n, p)
    BY <1>1, <2>0, <2>1, <2>2 DEF LoadsTo
  <2>4. /\ LoadedEntry(n, p).time = (IF n.time = NULL THEN "epoch" ELSE n.time)
        /\ LoadedEntry(n, p).size = (IF n.tag = "file" THEN atoi(n.size) ELSE 0)
    BY <2>1, LoadedEntryFacts
  <2>5. LoadedEntry(n, p).size \in -(IntMax + 1) .. IntMax
    <3>1. CASE n.tag = "file"
      <4>1. n.size \in Int
        BY <2>1, <3>1 DEF Readable
      <4> QED  BY <2>4, <3>1, <4>1, AtoiFacts
    <3>2. CASE n.tag # "file"
      BY <2>4, <3>2, PathsAssumption
    <3> QED  BY <3>1, <3>2
  <2>6. LoadedEntry(n, p).time
          = IF LoadedEntry(n, p).time = NULL THEN "epoch" ELSE LoadedEntry(n, p).time
    BY <2>4, TimesSettle
  <2> QED  BY <2>3, <2>5, <2>6
<1> QED  BY <1>2, <1>6, <1>7 DEF Settled

\* Saving changes nothing of that.
LEMMA RearrangedSettled ==
    ASSUME NEW t, TreeOK(t), Settled(t), NEW u, u = Rearranged(t)
    PROVE  Settled(u)
<1>1. RearrangesTo(t, u)
  BY RearrangedTree
<1>2. /\ u.kids = t.kids /\ Content(u) = Content(t) /\ Files(u) = Files(t) /\ Dirs(u) = Dirs(t)
      /\ \A e \in Entries : /\ u.info[e].type = t.info[e].type
                            /\ u.info[e].size = t.info[e].size
                            /\ u.info[e].time = t.info[e].time
  BY <1>1 DEF RearrangesTo
<1>3. \A e \in Content(t) : e \in Entries
  BY TreeFacts
<1> QED  BY <1>2, <1>3 DEF Settled

\* Saving what was opened from the header of a settled tree makes that header again.
LEMMA ReloadSame ==
    ASSUME NEW t, TreeOK(t), Settled(t), t = Rearranged(t), NEW u, u = Loaded(Header(t))
    PROVE  Header(Rearranged(u)) = Header(t)
<1>1. PICK h : h = Header(t)
  OBVIOUS
<1>2. /\ h.kids = t.kids /\ Worn(h, t) /\ ~ Unreadable(h) /\ IsLoaded(h, t, u)
      /\ \A e \in Entries : /\ h.node[e].tag = t.info[e].type
                            /\ h.node[e].time = t.info[e].time
                            /\ t.info[e].type = "file" => h.node[e].size = t.info[e].size
  <2>1. h.kids = t.kids /\ Worn(h, t) /\ ~ Unreadable(h)
    BY <1>1, HeaderFacts, HeaderWorn, HeaderReadable, TreeListed
  <2>2. IsLoaded(h, t, u)
    BY <1>1, <2>1 DEF IsLoaded
  <2> QED  BY <1>1, <2>1, <2>2, HeaderFacts
<1>3. /\ Forest(t.kids) /\ Lists(t.kids) /\ NoneLoose(t.kids) /\ Content(t) = Linked(t.kids)
      /\ \A e \in Entries : t.info[e].type # "none" <=> e \in Content(t)
      /\ t.info \in [Entries -> Infos]
  BY TreeFacts, ForestFacts DEF TreeOK
<1>4. Tagged(h, "file") = Files(t) /\ Tagged(h, "dir") = Dirs(t)
  <2>1. Content(t) \subseteq Entries
    BY TreeFacts
  <2> QED  BY <1>2, <1>3, <2>1 DEF Tagged, Files, Dirs
<1>5. \A d \in Places : LoadedKids(h)[d] = t.kids[d]
  BY <1>2, <1>4 DEF LoadedKids, Settled
<1>6. Read(h) = Content(t)
  <2>1. \A e \in Content(t) : h.node[e].tag # "untyped"
    BY <1>2, TreeFacts DEF Settled
  <2>2. \A e \in Content(t) : KnownIn(h, t, e)
    BY <2>1 DEF KnownIn
  <2> QED  BY <1>2, <2>2, ReadFacts
<1>7. /\ TreeOK(u) /\ u.kids = ReadLists(h) /\ Content(u) = Content(t) /\ Within(t, u)
      /\ \A d \in Places : \A e \in ToSet(u.kids[d]) :
            u.info[e] = LoadedEntry(h.node[e], PathOf(u, d))
      /\ \A e \in Content(u) : u.info[e].type = t.info[e].type
  <2>1. LoadsTo(h, t, u)
    BY <1>2, LoadedTree
  <2> QED  BY <1>6, <2>1 DEF LoadsTo
<1>8. u.kids = t.kids
  <2>1. ASSUME NEW d \in Places PROVE u.kids[d] = t.kids[d]
    <3>1. CASE d \in Content(t) \cup {NULL}
      BY <1>5, <1>6, <1>7, <3>1 DEF ReadLists
    <3>2. CASE d \notin Content(t) \cup {NULL}
      <4>1. t.kids[d] = <<>>
        BY <1>3, <3>2, ForestFacts
      <4> QED  BY <1>6, <1>7, <3>2, <4>1 DEF ReadLists
    <3> QED  BY <3>1, <3>2
  <2> QED  BY <1>3, <1>7, <2>1, TreeFacts, ForestFacts DEF Lists
<1>9. ASSUME NEW e \in Content(t)
      PROVE  u.info[e].size = t.info[e].size /\ u.info[e].time = t.info[e].time
  <2>0. PICK d \in Places : e \in ToSet(u.kids[d])
    BY <1>7, TreeFacts DEF Linked
  <2>1. PICK n : n = h.node[e] /\ Readable(n)
    BY <1>2, <1>6, NodesReadable
  <2>2. PICK p \in Seq(Parts) : p = PathOf(u, d)
    BY <1>7, <2>0, TreeFacts, PathOfDir
  <2>3. u.info[e] = LoadedEntry(n, p)
    BY <1>7, <2>0, <2>1, <2>2
  <2>4. /\ LoadedEntry(n, p).time = (IF n.time = NULL THEN "epoch" ELSE n.time)
        /\ LoadedEntry(n, p).size = (IF n.tag = "file" THEN atoi(n.size) ELSE 0)
    BY <2>1, LoadedEntryFacts
  <2>5. PICK i \in Infos : i = t.info[e] /\ n.tag = i.type /\ n.time = i.time
                           /\ (i.type = "file" => n.size = i.size)
                           /\ i.type \in {"file", "dir"}
    <3>1. e \in Entries /\ t.info[e] \in Infos
      BY TreeFacts
    <3> QED  BY <1>2, <2>1, <3>1 DEF Settled
  <2>6. LoadedEntry(n, p).time = i.time
    BY <2>4, <2>5 DEF Settled
  <2>7. LoadedEntry(n, p).size = i.size
    <3>1. CASE i.type = "file"
      <4>1. i.size \in Int /\ i.size \in -(IntMax + 1) .. IntMax
        BY <2>5, InfoFacts DEF Settled
      <4> QED  BY <2>4, <2>5, <3>1, <4>1, AtoiFacts
    <3>2. CASE i.type = "dir"
      BY <2>4, <2>5, <3>2, InfoFacts
    <3> QED  BY <2>5, <3>1, <3>2
  <2> QED  BY <2>3, <2>5, <2>6, <2>7
<1>10. ASSUME NEW e \in Entries
       PROVE  /\ u.info[e].type = t.info[e].type /\ u.info[e].name = t.info[e].name
              /\ u.info[e].size = t.info[e].size /\ u.info[e].time = t.info[e].time
  <2>1. CASE e \in Content(t)
    <3>1. u.info[e].name = t.info[e].name
      BY <1>7, <2>1, TreeFacts DEF Within
    <3> QED  BY <1>7, <1>9, <2>1, <3>1
  <2>2. CASE e \notin Content(t)
    <3>1. t.info[e].type = "none" /\ u.info[e].type = "none"
      BY <1>3, <1>7, <2>2, TreeFacts DEF TreeOK
    <3>2. t.info[e] \in Infos /\ u.info[e] \in Infos
      BY <1>3, <1>7 DEF TreeOK
    <3>3. t.info[e] = NoInfo /\ u.info[e] = NoInfo
      BY <3>1, <3>2, InfoFacts
    <3> QED  BY <3>3
  <2> QED  BY <2>1, <2>2
<1>11. PICK v : v = Rearranged(u)
  OBVIOUS
<1>12. /\ v.kids = u.kids /\ Files(u) = Files(t)
       /\ \A e \in Entries :
             /\ v.info[e].type = u.info[e].type /\ v.info[e].name = u.info[e].name
             /\ v.info[e].size = u.info[e].size /\ v.info[e].time = u.info[e].time
             /\ v.info[e].start = IF e \in Files(u) THEN StartOf(u, e) ELSE u.info[e].start
  <2>1. RearrangesTo(u, v)
    BY <1>7, <1>11, RearrangedTree
  <2>2. Files(u) = Files(t)
    BY <1>7 DEF Files
  <2> QED  BY <2>1, <2>2 DEF RearrangesTo
<1>13. \A e \in Files(t) : t.info[e].start = StartOf(t, e)
  <2>1. RearrangesTo(t, t)
    BY RearrangedTree
  <2>2. Files(t) \subseteq Entries
    BY TreeFacts
  <2> QED  BY <2>1, <2>2 DEF RearrangesTo
<1>14. \A e \in Entries : StartOf(u, e) = StartOf(t, e)
  BY <1>8, <1>10, StartFacts, TreeListed
<1>15. ASSUME NEW e \in Entries PROVE Described(v.info[e]) = Described(t.info[e])
  <2>1. /\ v.info[e].type = t.info[e].type /\ v.info[e].name = t.info[e].name
        /\ v.info[e].size = t.info[e].size /\ v.info[e].time = t.info[e].time
    BY <1>10, <1>12
  <2>2. t.info[e].type = "file" => v.info[e].start = t.info[e].start
    <3>1. t.info[e].type = "file" => e \in Files(t)
      BY <1>3 DEF Files
    <3> QED  BY <1>12, <1>13, <1>14, <3>1
  <2> QED  BY <2>1, <2>2 DEF Described
<1>16. Header(v) = Header(t)
  BY <1>8, <1>12, <1>15 DEF Header
<1> QED  BY <1>11, <1>16

(***************************************************************************)
(* ba_get.                                                                 *)
(***************************************************************************)
(***************************************************************************)
(* The inductive invariant.                                                *)
(***************************************************************************)
\* What the calls keep: entries that come from a loader have its paths, the others
\* have not, and only what is below a moved entry has a path that leads elsewhere.
PathInv(t, from, tops) ==
    /\ TreeOK(t)
    /\ from \subseteq Content(t) /\ tops \subseteq Content(t)
    /\ PathsOK(t, from)
    /\ StaleOnlyBelow(t, tops)
    /\ "same_name" \notin Calls => Distinct(t)

\* What saving and opening keep.
SaveInv(t, h, n, s) ==
    /\ n \in 0 .. 2 /\ s \in {"loading", "open", "saved", "crash"}
    /\ s = "loading" => n = 0
    /\ s = "saved" => /\ t = Rearranged(t) /\ Worn(h, t)
                      /\ n # 0 => h = Header(t)
    /\ s = "crash" => h # Header(t)
    /\ n # 0 /\ s \in {"open", "saved"} => Settled(t)
    /\ n = 2 /\ s = "open" => h = Header(Rearranged(t))

IInv ==
    /\ PathInv(tree, native, moved)
    /\ status = "loading" => native = Content(tree)
    /\ SaveInv(tree, header, opened, status)

LEMMA StaleIsStaleIn == \A e : Stale(e) <=> StaleIn(tree, e)
BY DEF Stale, StaleIn

LEMMA InitInv == Init => IInv
<1> SUFFICES ASSUME Init PROVE IInv
  OBVIOUS
<1>1. /\ tree = NoTree /\ native = {} /\ moved = {} /\ opened = 0 /\ status = "loading"
  BY DEF Init
<1>2. TreeOK(tree) /\ Content(tree) = {}
  <2>1. TreeOK(NoTree) /\ Linked(NoTree.kids) = {}
    BY NoTreeOK
  <2> QED  BY <1>1, <2>1, TreeFacts
<1>3. Distinct(tree)
  <2>1. \A d \in Places : ToSet(tree.kids[d]) = {}
    <3>1. \A d \in Places : tree.kids[d] = <<>>
      BY <1>1 DEF NoTree
    <3> QED  BY <3>1, SetOfEmpty
  <2> QED  BY <2>1 DEF Distinct
<1>4. PathsOK(tree, native) /\ StaleOnlyBelow(tree, moved)
  BY <1>2 DEF PathsOK, StaleOnlyBelow
<1>5. PathInv(tree, native, moved)
  BY <1>1, <1>2, <1>3, <1>4 DEF PathInv
<1>6. SaveInv(tree, header, opened, status)
  BY <1>1 DEF SaveInv
<1> QED  BY <1>1, <1>2, <1>5, <1>6 DEF IInv

\* No other entry of d has the name.
FreeIn(t, d, e, name) ==
    "same_name" \notin Calls => \A x \in ToSet(t.kids[d]) \ {e} : t.info[x].name # name

AddsIn(t, d, e, name, type, size, time, how, u, from, tops) ==
    /\ PathInv(t, from, tops) /\ IsAdded(t, d, e, name, type, size, time, how, u)
    /\ FreeIn(t, d, e, name)

\* A new entry is neither among the moved nor, unless it is loaded, among the loaded.
LEMMA AddedInv ==
    ASSUME NEW t, NEW d, NEW e, NEW name, NEW type, NEW size, NEW time, NEW how, NEW u,
           NEW from, NEW tops, AddsIn(t, d, e, name, type, size, time, how, u, from, tops)
    PROVE  /\ how = "added" => PathInv(u, from, tops)
           /\ how = "loaded" /\ from = Content(t) =>
                PathInv(u, from \cup {e}, tops) /\ from \cup {e} = Content(u)
<1>0. /\ PathInv(t, from, tops) /\ IsAdded(t, d, e, name, type, size, time, how, u)
      /\ FreeIn(t, d, e, name)
  BY DEF AddsIn
<1>1. /\ TreeOK(t) /\ from \subseteq Content(t) /\ tops \subseteq Content(t)
      /\ PathsOK(t, from) /\ StaleOnlyBelow(t, tops)
      /\ "same_name" \notin Calls => Distinct(t)
  BY <1>0 DEF PathInv
<1>2. TreeOK(u) /\ Content(u) = Content(t) \cup {e}
  <2>1. AddsTo(t, d, e, name, type, size, time, how, u)
    BY <1>0, AddedTree
  <2>2. TreeOK(u) /\ Linked(u.kids) = Linked(t.kids) \cup {e}
    BY <2>1 DEF AddsTo
  <2> QED  BY <1>1, <2>2, TreeFacts
<1>3. StaleOnlyBelow(u, tops)
  BY <1>0, <1>1, AddedStale
<1>4. /\ how = "added" => PathsOK(u, from)
      /\ how = "loaded" /\ from = Content(t) => PathsOK(u, from \cup {e})
  BY <1>0, <1>1, AddedPaths
<1>5. "same_name" \notin Calls => Distinct(u)
  <2>1. e \notin Content(t) /\ d \in Places
    BY <1>0, <1>1, TreeFacts DEF IsAdded, Places
  <2>2. e \notin ToSet(t.kids[d])
    BY <1>1, <2>1, TreeFacts, ForestFacts, ListSets
  <2> QED  BY <1>0, <1>1, <2>2, AddedDistinct DEF FreeIn
<1> QED  BY <1>1, <1>2, <1>3, <1>4, <1>5 DEF PathInv

LEMMA RemovedInv ==
    ASSUME NEW t, NEW e, NEW u, NEW from, NEW tops,
           PathInv(t, from, tops), IsRemoved(t, e, u)
    PROVE  PathInv(u, from \ Subtree(t, e), tops \ Subtree(t, e))
<1>1. /\ TreeOK(t) /\ from \subseteq Content(t) /\ tops \subseteq Content(t)
      /\ PathsOK(t, from) /\ StaleOnlyBelow(t, tops)
      /\ "same_name" \notin Calls => Distinct(t)
  BY DEF PathInv
<1>2. TreeOK(u) /\ Content(u) = Content(t) \ Subtree(t, e)
  <2>1. RemovesFrom(t, e, u)
    BY RemovedTree
  <2> QED  BY <2>1 DEF RemovesFrom
<1>3. StaleOnlyBelow(u, tops \ Subtree(t, e))
  BY <1>1, RemovedStale
<1>4. PathsOK(u, from \ Subtree(t, e)) /\ (Distinct(t) => Distinct(u))
  BY <1>1, RemovedPaths
<1> QED  BY <1>1, <1>2, <1>3, <1>4 DEF PathInv

LEMMA MovedInv ==
    ASSUME NEW t, NEW src, NEW dir, NEW u, NEW from, NEW tops,
           PathInv(t, from, tops), IsMoved(t, src, dir, u),
           FreeIn(t, dir, src, t.info[src].name)
    PROVE  PathInv(u, from, tops \cup {src})
<1>1. /\ TreeOK(t) /\ from \subseteq Content(t) /\ tops \subseteq Content(t)
      /\ PathsOK(t, from) /\ StaleOnlyBelow(t, tops)
      /\ "same_name" \notin Calls => Distinct(t)
  BY DEF PathInv
<1>2. TreeOK(u) /\ Content(u) = Content(t) /\ src \in Content(t)
  <2>1. MovesTo(t, src, dir, u)
    BY MovedTree
  <2> QED  BY <2>1 DEF MovesTo, IsMoved
<1>3. StaleOnlyBelow(u, tops \cup {src})
  BY <1>1, MovedStale
<1>4. PathsOK(u, from)
  BY <1>1, MovedPaths
<1>5. "same_name" \notin Calls => Distinct(u)
  BY <1>1, MovedPaths DEF FreeIn
<1> QED  BY <1>1, <1>2, <1>3, <1>4, <1>5 DEF PathInv

\* A file has nothing below it.
LEMMA FilesAreBare ==
    ASSUME NEW t, TreeOK(t), NEW e \in Files(t)
    PROVE  Subtree(t, e) = {e}
<1>1. e \in Places /\ e \in Entries /\ t.info[e].type = "file" /\ Lists(t.kids) /\ Founded(t.kids)
  BY TreeFacts, ForestFacts DEF Files
<1>2. t.kids[e] = <<>>
  BY <1>1 DEF TreeOK
<1>3. Descendants(t.kids, e) = {}
  BY <1>1, <1>2, DescendantsDef, SetOfEmpty
<1> QED  BY <1>3 DEF Subtree

(***************************************************************************)
(* The steps.  A call that changes the tree leaves nothing to say about    *)
(* the header.                                                             *)
(***************************************************************************)
LEMMA ChangeInv ==
    ASSUME NEW t, Change(t), PathInv(t, native', moved')
    PROVE  IInv'
<1>1. /\ tree' = t /\ opened' = 0 /\ status' = "open"
  BY DEF Change
<1>2. SaveInv(tree', header', opened', status')
  BY <1>1 DEF SaveInv
<1> QED  BY <1>1, <1>2 DEF IInv

LEMMA LoadStep ==
    ASSUME IInv, NEW d \in Places, NEW e \in Entries, NEW n \in Names, NEW s \in Int,
           NEW type \in {"file", "dir", "untyped"}, NEW time \in Times,
           type = "dir" => s = 0, ba_load_fs_tree(d, e, n, type, s, time)
    PROVE  IInv'
<1>1. /\ status = "loading" /\ e \notin Content(tree) /\ d \in Dirs(tree) \cup {NULL}
      /\ NameFree(d, e, n)
      /\ tree' = Added(tree, d, e, n, type, s, time, "loaded")
      /\ native' = native \cup {e}
      /\ UNCHANGED <<header, moved, opened, status>>
  BY DEF ba_load_fs_tree
<1>2. /\ PathInv(tree, native, moved) /\ TreeOK(tree) /\ native = Content(tree) /\ opened = 0
  BY <1>1 DEF IInv, PathInv, SaveInv
<1>3. PICK u : u = tree' /\ IsAdded(tree, d, e, n, type, s, time, "loaded", u)
  <2>1. Members(n, type, s, time, "loaded")
    BY DEF Members
  <2>2. \A u : u = Added(tree, d, e, n, type, s, time, "loaded")
                 => IsAdded(tree, d, e, n, type, s, time, "loaded", u)
    BY <1>1, <1>2, <2>1 DEF IsAdded
  <2> QED  BY <1>1, <2>2
<1>4. FreeIn(tree, d, e, n)
  BY <1>1 DEF NameFree, In, FreeIn
<1>5. PathInv(u, native \cup {e}, moved) /\ native \cup {e} = Content(u)
  <2>1. AddsIn(tree, d, e, n, type, s, time, "loaded", u, native, moved)
    BY <1>2, <1>3, <1>4 DEF AddsIn
  <2>2. "loaded" = "loaded" /\ native = Content(tree)
          => PathInv(u, native \cup {e}, moved) /\ native \cup {e} = Content(u)
    BY <2>1, AddedInv
  <2> QED  BY <1>2, <2>2
<1>6. SaveInv(tree', header', opened', status')
  BY <1>1, <1>2 DEF SaveInv
<1> QED  BY <1>1, <1>3, <1>5, <1>6 DEF IInv

LEMMA AddStep ==
    ASSUME IInv, NEW d \in Places, NEW e \in Entries, NEW n \in Names, NEW s \in Int,
           NEW type \in {"file", "dir"}, NEW time \in Times,
           type = "dir" => s = 0, ba_add(d, e, n, type, s, time)
    PROVE  IInv'
<1>1. /\ e \notin Content(tree) /\ d \in Dirs(tree) \cup {NULL} /\ NameFree(d, e, n)
      /\ Change(Added(tree, d, e, n, type, s, time, "added"))
      /\ native' = native /\ moved' = moved
  BY DEF ba_add
<1>2. /\ PathInv(tree, native, moved) /\ TreeOK(tree)
  BY DEF IInv, PathInv
<1>3. PICK u : /\ u = Added(tree, d, e, n, type, s, time, "added")
               /\ IsAdded(tree, d, e, n, type, s, time, "added", u)
  <2>1. Members(n, type, s, time, "added")
    BY DEF Members
  <2>2. \A u : u = Added(tree, d, e, n, type, s, time, "added")
                 => IsAdded(tree, d, e, n, type, s, time, "added", u)
    BY <1>1, <1>2, <2>1 DEF IsAdded
  <2> QED  BY <2>2
<1>4. FreeIn(tree, d, e, n)
  BY <1>1 DEF NameFree, In, FreeIn
<1>5. PathInv(u, native, moved)
  <2>1. AddsIn(tree, d, e, n, type, s, time, "added", u, native, moved)
    BY <1>2, <1>3, <1>4 DEF AddsIn
  <2> QED  BY <2>1, AddedInv
<1> QED  BY <1>1, <1>3, <1>5, ChangeInv

LEMMA RemoveStep ==
    ASSUME IInv, NEW e \in Content(tree), ba_remove(e)
    PROVE  IInv'
<1>1. /\ Change(Removed(tree, e)) /\ native' = native \ Subtree(tree, e)
      /\ moved' = moved \ Subtree(tree, e)
  BY DEF ba_remove
<1>2. /\ PathInv(tree, native, moved) /\ TreeOK(tree)
  BY DEF IInv, PathInv
<1>3. PICK u : u = Removed(tree, e) /\ IsRemoved(tree, e, u)
  BY <1>2 DEF IsRemoved
<1>4. PathInv(u, native', moved')
  BY <1>1, <1>2, <1>3, RemovedInv
<1> QED  BY <1>1, <1>3, <1>4, ChangeInv

LEMMA MoveIntoStep ==
    ASSUME IInv, NEW src \in Content(tree), NEW dir \in Content(tree),
           ba_move_into_dir(src, dir)
    PROVE  IInv'
<1>1. /\ dir \in Dirs(tree) \ Subtree(tree, src) /\ NameFree(dir, src, tree.info[src].name)
      /\ Change(MovedInto(tree, src, dir)) /\ native' = native /\ moved' = moved \cup {src}
  BY DEF ba_move_into_dir
<1>2. /\ PathInv(tree, native, moved) /\ TreeOK(tree)
  BY DEF IInv, PathInv
<1>3. PICK u : u = MovedInto(tree, src, dir) /\ IsMoved(tree, src, dir, u)
  BY <1>1, <1>2 DEF IsMoved
<1>4. FreeIn(tree, dir, src, tree.info[src].name)
  BY <1>1 DEF NameFree, In, FreeIn
<1>5. PathInv(u, native', moved')
  BY <1>1, <1>2, <1>3, <1>4, MovedInv
<1> QED  BY <1>1, <1>3, <1>5, ChangeInv

LEMMA MoveOntoStep ==
    ASSUME IInv, NEW src \in Content(tree), NEW file \in Content(tree),
           ba_move_onto_file(src, file)
    PROVE  IInv'
<1>1. /\ src \in Files(tree) /\ file \in Files(tree) /\ file \notin moved /\ file # src
      /\ Parent(tree, file) # NULL
      /\ NameFree(Parent(tree, file), src, tree.info[src].name)
      /\ Change(MovedOnto(tree, src, file))
      /\ native' = native \ {file} /\ moved' = moved \cup {src}
  BY DEF ba_move_onto_file
<1>2. /\ PathInv(tree, native, moved) /\ TreeOK(tree)
  BY DEF IInv, PathInv
<1>3. PICK dir : dir = Parent(tree, file) /\ dir \in Dirs(tree)
  <2>1. \E d \in Places : file \in ToSet(tree.kids[d])
    BY <1>2, TreeFacts DEF Linked
  <2>2. Parent(tree, file) \in Places /\ file \in ToSet(tree.kids[Parent(tree, file)])
    BY <2>1 DEF Parent
  <2> QED  BY <1>1, <1>2, <2>2, TreeFacts
<1>4. dir \notin Subtree(tree, src)
  BY <1>1, <1>2, <1>3, FilesAreBare DEF Files, Dirs
<1>5. PICK v : v = MovedInto(tree, src, dir) /\ IsMoved(tree, src, dir, v)
  BY <1>2, <1>3, <1>4 DEF IsMoved
<1>6. FreeIn(tree, dir, src, tree.info[src].name)
  BY <1>1, <1>3 DEF NameFree, In, FreeIn
<1>7. PathInv(v, native, moved \cup {src})
  BY <1>2, <1>5, <1>6, MovedInv
<1>8. TreeOK(v) /\ Content(v) = Content(tree) /\ file \in Files(v)
  <2>1. MovesTo(tree, src, dir, v)
    BY <1>5, MovedTree
  <2>2. TreeOK(v) /\ Content(v) = Content(tree) /\ v.info = tree.info
    BY <2>1 DEF MovesTo
  <2> QED  BY <1>1, <2>2 DEF Files
<1>9. Subtree(v, file) = {file}
  BY <1>8, FilesAreBare
<1>10. PICK u : u = Removed(v, file) /\ IsRemoved(v, file, u)
  BY <1>8 DEF IsRemoved
<1>11. PathInv(u, native \ {file}, (moved \cup {src}) \ {file})
  BY <1>7, <1>9, <1>10, RemovedInv
<1>12. native' = native \ {file} /\ moved' = (moved \cup {src}) \ {file}
  BY <1>1
<1>13. PathInv(u, native', moved')
  BY <1>11, <1>12
<1>14. u = MovedOnto(tree, src, file)
  BY <1>3, <1>5, <1>10 DEF MovedOnto
<1> QED  BY <1>1, <1>13, <1>14, ChangeInv

LEMMA SaveStep ==
    ASSUME IInv, ba_save
    PROVE  IInv'
<1>1. /\ status \in {"loading", "open"} /\ tree' = Rearranged(tree) /\ header' = Header(tree')
      /\ status' = "saved" /\ native' = native /\ moved' = moved /\ opened' = opened
  BY DEF ba_save
<1>2. /\ PathInv(tree, native, moved) /\ TreeOK(tree) /\ PathsOK(tree, native)
      /\ StaleOnlyBelow(tree, moved) /\ native \subseteq Content(tree)
      /\ moved \subseteq Content(tree) /\ "same_name" \notin Calls => Distinct(tree)
      /\ SaveInv(tree, header, opened, status)
  BY DEF IInv, PathInv
<1>3. PICK u : u = tree' /\ u = Rearranged(tree)
  BY <1>1
<1>4. TreeOK(u) /\ Content(u) = Content(tree)
  <2>1. RearrangesTo(tree, u)
    BY <1>2, <1>3, RearrangedTree
  <2> QED  BY <2>1 DEF RearrangesTo
<1>5. /\ StaleOnlyBelow(u, moved) /\ PathsOK(u, native)
      /\ Distinct(tree) => Distinct(u)
  BY <1>2, <1>3, RearrangedKeeps
<1>6. PathInv(u, native, moved)
  BY <1>2, <1>4, <1>5 DEF PathInv
<1>7. SaveInv(u, header', opened', status')
  <2>1. u = Rearranged(u)
    BY <1>2, <1>3, RearrangedTwice
  <2>2. header' = Header(u) /\ Worn(header', u)
    BY <1>1, <1>3, HeaderWorn
  <2>3. opened # 0 => Settled(u)
    <3>1. opened # 0 => Settled(tree)
      BY <1>1, <1>2 DEF SaveInv
    <3> QED  BY <1>2, <1>3, <3>1, RearrangedSettled
  <2>4. opened \in 0 .. 2
    BY <1>2 DEF SaveInv
  <2> QED  BY <1>1, <2>1, <2>2, <2>3, <2>4 DEF SaveInv
<1> QED  BY <1>1, <1>3, <1>6, <1>7 DEF IInv

LEMMA AttributeLost ==
    ASSUME NEW i, NEW a \in {"name", "size", "start", "time"}, NEW n, n = [Described(i) EXCEPT ![a] = NULL]
    PROVE  /\ n.tag = i.type /\ n.name \in {i.name, NULL} /\ n.time \in {i.time, NULL}
           /\ i.type = "file" => n.size \in {i.size, NULL} /\ n.start \in {i.start, NULL}
<1>1. CASE a = "name"
  BY <1>1 DEF Described
<1>2. CASE a = "size"
  BY <1>2 DEF Described
<1>3. CASE a = "start"
  BY <1>3 DEF Described
<1>4. CASE a = "time"
  BY <1>4 DEF Described
<1> QED  BY <1>1, <1>2, <1>3, <1>4

LEMMA TagLost ==
    ASSUME NEW i, NEW n, n = [Described(i) EXCEPT !.tag = "untyped"]
    PROVE  /\ n.tag = "untyped" /\ n.name = i.name /\ n.time = i.time
           /\ i.type = "file" => n.size = i.size /\ n.start = i.start
BY DEF Described

\* A header stays worn when it loses an attribute or a tag.
LEMMA DamageStep ==
    ASSUME IInv, NEW e \in Entries, Damage(e)
    PROVE  IInv'
<1>1. /\ status = "saved" /\ header = Header(tree) /\ opened' = 0
      /\ tree' = tree /\ native' = native /\ moved' = moved /\ status' = status
  BY DEF Damage
<1>2. /\ PathInv(tree, native, moved) /\ tree = Rearranged(tree)
      /\ SaveInv(tree, header, opened, status)
  BY <1>1 DEF IInv, SaveInv
<1>3. PICK k, node : /\ k = tree.kids /\ node = [x \in Entries |-> Described(tree.info[x])]
                     /\ header = [kids |-> k, node |-> node]
  BY <1>1 DEF Header
<1>4. PICK n : /\ header' = [kids |-> k, node |-> [node EXCEPT ![e] = n]]
               /\ \/ \E a \in {"name", "size", "start", "time"} :
                        n = [Described(tree.info[e]) EXCEPT ![a] = NULL]
                  \/ n = [Described(tree.info[e]) EXCEPT !.tag = "untyped"]
  <2>1. CASE \E a \in {"name", "size", "start", "time"} :
               header' = [header EXCEPT !.node[e][a] = NULL]
    <3>1. PICK a \in {"name", "size", "start", "time"} :
             header' = [header EXCEPT !.node[e][a] = NULL]
      BY <2>1
    <3>2. header' = [kids |-> k, node |-> [node EXCEPT ![e] =
                                             [Described(tree.info[e]) EXCEPT ![a] = NULL]]]
      BY <1>3, <3>1
    <3> QED  BY <3>2
  <2>2. CASE header' = [header EXCEPT !.node[e].tag = "untyped"]
    <3>2. header' = [kids |-> k, node |-> [node EXCEPT ![e] =
                                             [Described(tree.info[e]) EXCEPT !.tag = "untyped"]]]
      BY <1>3, <2>2
    <3> QED  BY <3>2
  <2> QED  BY <2>1, <2>2 DEF Damage
<1>5. LET i == tree.info[e]
      IN  /\ n.tag \in {i.type, "untyped"} /\ n.name \in {i.name, NULL}
          /\ n.time \in {i.time, NULL}
          /\ i.type = "file" => n.size \in {i.size, NULL} /\ n.start \in {i.start, NULL}
  BY <1>4, AttributeLost, TagLost
<1>6. PICK h : h = header' /\ h.kids = k /\ h.node[e] = n
               /\ \A x \in Entries : x # e => h.node[x] = node[x]
  BY <1>3, <1>4
<1>7. Worn(h, tree)
  <2>1. Worn(header, tree)
    BY <1>1, HeaderWorn
  <2> QED  BY <1>3, <1>5, <1>6, <2>1 DEF Worn
<1>8. SaveInv(tree, h, 0, "saved")
  BY <1>2, <1>7 DEF SaveInv
<1> QED  BY <1>1, <1>2, <1>6, <1>8 DEF IInv

LEMMA OpenStep ==
    ASSUME IInv, ba_open
    PROVE  IInv'
<1>1. /\ PathInv(tree, native, moved) /\ TreeOK(tree) /\ status = "saved"
      /\ SaveInv(tree, header, opened, status)
      /\ "same_name" \notin Calls => Distinct(tree)
  BY DEF IInv, PathInv, ba_open
<1>2. /\ Worn(header, tree) /\ tree = Rearranged(tree) /\ opened \in 0 .. 2
      /\ opened # 0 => header = Header(tree) /\ Settled(tree)
  BY <1>1 DEF SaveInv
<1>3. CASE Unreadable(header)
  <2>1. /\ status' = "crash" /\ tree' = tree /\ header' = header /\ native' = native
        /\ moved' = moved /\ opened' = opened
    BY <1>3 DEF ba_open
  <2>2. header # Header(tree)
    BY <1>1, <1>3, HeaderReadable, TreeListed
  <2>3. SaveInv(tree, header, opened, "crash")
    BY <1>2, <2>2 DEF SaveInv
  <2> QED  BY <1>1, <2>1, <2>3 DEF IInv
<1>4. CASE ~ Unreadable(header)
  <2>1. /\ tree' = Loaded(header) /\ native' = Content(tree') /\ moved' = {} /\ status' = "open"
        /\ header' = header /\ opened' = IF opened = 2 THEN 2 ELSE opened + 1
    BY <1>4 DEF ba_open
  <2>2. PICK u : u = tree' /\ u = Loaded(header) /\ IsLoaded(header, tree, u)
    BY <1>1, <1>2, <1>4, <2>1 DEF IsLoaded
  <2>3. TreeOK(u)
    BY <2>2, LoadedTree DEF LoadsTo
  <2>4. /\ StaleOnlyBelow(u, {}) /\ PathsOK(u, Content(u)) /\ (Distinct(tree) => Distinct(u))
    BY <2>2, LoadedKeeps
  <2>5. PathInv(u, Content(u), {})
    BY <1>1, <2>3, <2>4 DEF PathInv
  <2>6. Settled(u)
    BY <2>2, LoadedSettles
  <2>7. opened # 0 => header = Header(Rearranged(u))
    BY <1>1, <1>2, <2>2, ReloadSame
  <2>8. PICK n \in 0 .. 2 : n = opened' /\ (n = 2 => opened # 0)
    BY <1>2, <2>1
  <2>9. SaveInv(u, header, n, "open")
    BY <2>6, <2>7, <2>8 DEF SaveInv
  <2> QED  BY <2>1, <2>2, <2>5, <2>8, <2>9 DEF IInv
<1> QED  BY <1>3, <1>4

LEMMA NextInv == IInv /\ [Next]_vars => IInv'
<1> SUFFICES ASSUME IInv, [Next]_vars PROVE IInv'
  OBVIOUS
<1>1. Sizes \subseteq Int /\ 0 \in Int /\ "own" \in Times /\ NULL \in Times
  BY SessionAssumption DEF Times
<1>2. ASSUME NEW d \in Places, NEW e \in Entries, NEW n \in Names, NEW s \in Sizes,
             ba_load_fs_tree(d, e, n, "file", s, "own")
      PROVE  IInv'
  BY <1>1, <1>2, LoadStep
<1>3. ASSUME NEW d \in Places, NEW e \in Entries, NEW n \in Names, NEW s \in Sizes,
             ba_add(d, e, n, "file", s, "own")
      PROVE  IInv'
  BY <1>1, <1>3, AddStep
<1>4. ASSUME NEW d \in Places, NEW e \in Entries, NEW n \in Names,
             ba_load_fs_tree(d, e, n, "dir", 0, "own")
      PROVE  IInv'
  BY <1>1, <1>4, LoadStep
<1>5. ASSUME NEW d \in Places, NEW e \in Entries, NEW n \in Names, NEW time \in {"own", NULL},
             ba_add(d, e, n, "dir", 0, time)
      PROVE  IInv'
  BY <1>1, <1>5, AddStep
<1>6. ASSUME NEW d \in Places, NEW e \in Entries, NEW n \in Names,
             ba_load_fs_tree(d, e, n, "untyped", 0, NULL)
      PROVE  IInv'
  BY <1>1, <1>6, LoadStep
<1>7. ASSUME NEW e \in Content(tree), ba_remove(e) PROVE IInv'
  BY <1>7, RemoveStep
<1>8. ASSUME NEW e \in Content(tree), NEW dest \in Content(tree), ba_move_into_dir(e, dest)
      PROVE  IInv'
  BY <1>8, MoveIntoStep
<1>9. ASSUME NEW e \in Content(tree), NEW dest \in Content(tree), ba_move_onto_file(e, dest)
      PROVE  IInv'
  BY <1>9, MoveOntoStep
<1>10. CASE ba_save
  BY <1>10, SaveStep
<1>11. ASSUME NEW e \in Content(tree), Damage(e) PROVE IInv'
  <2>1. TreeOK(tree)
    BY DEF IInv, PathInv
  <2>2. e \in Entries
    BY <2>1, TreeFacts
  <2> QED  BY <1>11, <2>2, DamageStep
<1>12. CASE ba_open
  BY <1>12, OpenStep
<1>13. CASE UNCHANGED vars
  BY <1>13 DEF vars, IInv
<1> QED
  BY <1>2, <1>3, <1>4, <1>5, <1>6, <1>7, <1>8, <1>9, <1>10, <1>11, <1>12, <1>13 DEF Next

THEOREM Invariance == Spec => []IInv
<1> QED  BY InitInv, NextInv, PTL DEF Spec

(***************************************************************************)
(* The properties of the runs.                                             *)
(***************************************************************************)
LEMMA PathSet == ASSUME NEW p \in Seq(Parts) PROVE ToSet(p) \subseteq Names \cup {SEP}
BY SetOfSeq DEF Parts

\* Entries have the members their type calls for.
THEOREM TypeCorrect == Spec => []TypeOK
<1>1. ASSUME IInv PROVE TypeOK
  <2>1. /\ TreeOK(tree) /\ native \subseteq Content(tree) /\ moved \subseteq Content(tree)
        /\ opened \in 0 .. 2 /\ status \in {"loading", "open", "saved", "crash"}
    BY <1>1 DEF IInv, PathInv, SaveInv
  <2>2. \A d \in Places : In(d) \subseteq Entries
    BY <2>1, TreeFacts, ForestFacts, ListSets DEF In
  <2>3. ASSUME NEW e \in Content(tree), NEW i, i = tree.info[e]
        PROVE  /\ i.type \in {"file", "dir", "untyped"}
               /\ i.name \in Names \cup {NULL}
               /\ IF i.type = "untyped" THEN i.path = NULL
                  ELSE i.path # <<>> /\ ToSet(i.path) \subseteq Names \cup {SEP}
               /\ i.size \in Int /\ i.start \in Int /\ i.time \in {NULL, "own", "epoch"}
    <3>1. i \in Infos /\ i.type # "none"
      BY <2>1, <2>3, TreeFacts
    <3>2. /\ i.type \in {"file", "dir", "untyped", "none"}
          /\ i.size \in Int /\ i.start \in Int /\ i.time \in Times
          /\ i.type \in {"file", "dir"} =>
               i.name \in Names /\ i.path \in Seq(Parts) /\ i.path # <<>>
          /\ i.type = "untyped" => i.name = NULL /\ i.path = NULL
      BY <3>1, InfoFacts
    <3> QED  BY <3>1, <3>2, PathSet DEF Times
  <2> QED  BY <2>1, <2>2, <2>3 DEF TypeOK
<1> QED  BY <1>1, Invariance, PTL

\* A header that ba_save() wrote and nobody changed can be opened, whatever the tree.
THEOREM OwnHeadersOpen == Spec => []OwnHeaderOpens
<1>1. IInv => OwnHeaderOpens
  BY DEF IInv, SaveInv, OwnHeaderOpens
<1> QED  BY <1>1, Invariance, PTL

\* Only ba_move() makes paths wrong, and only at and below what it moved.
THEOREM StaleBelowMoved == Spec => []StaleOnlyBelowMoved
<1>1. IInv => StaleOnlyBelowMoved
  BY DEF IInv, PathInv, StaleOnlyBelow, StaleOnlyBelowMoved, Stale, StaleIn
<1> QED  BY <1>1, Invariance, PTL

\* Where no two entries of a directory get one name, ba_get() finds an entry by its
\* path, but for moved entries that answer to the path too and entries without one.
THEOREM FoundByPath == ASSUME "same_name" \notin Calls PROVE Spec => []FoundUnderOwnPath
<1>1. ASSUME IInv PROVE FoundUnderOwnPath
  <2>1. TreeOK(tree) /\ Distinct(tree)
    BY <1>1 DEF IInv, PathInv
  <2>2. /\ Content(tree) = Linked(tree.kids) /\ Named(tree) /\ NamelessAreBare(tree)
        /\ \A e \in Content(tree) : e # NULL
    BY <2>1, TreeFacts
  <2> SUFFICES ASSUME NEW e \in Content(tree) \ Untyped(tree), ~ Stale(e),
                      NEW found, found = ba_get(tree, tree.info[e].path), found # e
               PROVE  found # NULL /\ (found \in Untyped(tree) \/ Stale(found))
    BY DEF FoundUnderOwnPath
  <2>3. PICK path : path = tree.info[e].path
    OBVIOUS
  <2>4. found \in Content(tree) /\ tree.info[found].path \in {path, NULL}
    <3>1. ba_get(tree, path) # NULL
      BY <2>1, <2>3, FoundFacts
    <3> QED  BY <2>1, <2>3, <3>1, FoundFacts
  <2>5. ASSUME found \notin Untyped(tree) PROVE Stale(found)
    <3>1. tree.info[found].path = path
      BY <2>1, <2>4, <2>5, TypedFacts
    <3>2. NamesTo(tree, found) # NamesTo(tree, e)
      <4>1. tree.info[found].name # NULL
        BY <2>1, <2>4, <2>5, TypedFacts
      <4> QED  BY <2>1, <2>2, <2>4, <4>1, NamesInjective
    <3> QED  BY <2>3, <3>1, <3>2 DEF Stale
  <2> QED  BY <2>2, <2>4, <2>5
<1> QED  BY <1>1, Invariance, PTL

\* The step that opens an archive.
LEMMA OpeningFacts ==
    ASSUME IInv, [Next]_vars, Opening
    PROVE  /\ IsLoaded(header, tree, tree')
           /\ PathInv(tree, native, moved)
<1>1. status = "saved" /\ status' = "open"
  BY DEF Opening
<1>2. ba_open
  BY <1>1 DEF Next, vars, ba_load_fs_tree, ba_add, ba_remove, ba_move_into_dir,
     ba_move_onto_file, Change, ba_save, Damage
<1>3. ~ Unreadable(header) /\ tree' = Loaded(header)
  BY <1>1, <1>2 DEF ba_open
<1>4. TreeOK(tree) /\ Worn(header, tree) /\ PathInv(tree, native, moved)
  BY <1>1 DEF IInv, PathInv, SaveInv
<1> QED  BY <1>3, <1>4 DEF IsLoaded

\* The entry a loader makes of a node that still has what the header gave it.
LEMMA OpenedEntry ==
    ASSUME NEW h, NEW t, NEW u, IsLoaded(h, t, u), h = Header(t), NEW e \in Content(u)
    PROVE  /\ u.info[e].size = IF t.info[e].type = "file" THEN atoi(t.info[e].size) ELSE 0
           /\ t.info[e].type = "file" => u.info[e].start = atoi(t.info[e].start)
           /\ u.info[e].time = IF t.info[e].time = NULL THEN "epoch" ELSE t.info[e].time
           /\ t.info[e] \in Infos /\ t.info[e].type \in {"file", "dir"}
<1>1. /\ TreeOK(t) /\ Worn(h, t) /\ ~ Unreadable(h) /\ LoadsTo(h, t, u)
  BY LoadedTree DEF IsLoaded
<1>2. /\ TreeOK(u) /\ Content(u) = Read(h) /\ Content(u) \subseteq Content(t)
      /\ \A d \in Places : \A x \in ToSet(u.kids[d]) :
            u.info[x] = LoadedEntry(h.node[x], PathOf(u, d))
      /\ u.info[e].type = t.info[e].type /\ u.info[e].type \in {"file", "dir"}
  BY <1>1, WithinNames DEF LoadsTo
<1>3. PICK d \in Places : e \in ToSet(u.kids[d])
  BY <1>2, TreeFacts DEF Linked
<1>4. PICK n : n = h.node[e] /\ Readable(n)
  BY <1>1, <1>2, NodesReadable
<1>5. PICK p \in Seq(Parts) : p = PathOf(u, d)
  BY <1>2, <1>3, TreeFacts, PathOfDir
<1>6. u.info[e] = LoadedEntry(n, p)
  BY <1>2, <1>3, <1>4, <1>5
<1>7. /\ LoadedEntry(n, p).time = (IF n.time = NULL THEN "epoch" ELSE n.time)
      /\ LoadedEntry(n, p).size = (IF n.tag = "file" THEN atoi(n.size) ELSE 0)
      /\ LoadedEntry(n, p).start = (IF n.tag = "file" THEN atoi(n.start) ELSE -1)
  BY <1>4, LoadedEntryFacts
<1>8. e \in Entries /\ t.info[e] \in Infos
  BY <1>1, <1>2, TreeFacts
<1>9. /\ n.tag = t.info[e].type /\ n.time = t.info[e].time
      /\ t.info[e].type = "file" => n.size = t.info[e].size /\ n.start = t.info[e].start
  BY <1>4, <1>8, HeaderFacts
<1> QED  BY <1>2, <1>6, <1>7, <1>8, <1>9

\* Numbers that fit an int, and times, come out of a header as they went in; what
\* has no times gets those of 1970.
THEOREM AttributesKept == Spec => AttributesSurvive
<1>1. ASSUME IInv, [Next]_vars, Opening, header = Header(tree), NEW e \in Content(tree')
      PROVE  LET old == tree.info[e]
                 new == tree'.info[e]
             IN  /\ old.size \in 0 .. IntMax => new.size = old.size
                 /\ old.type = "file" /\ old.start \in 0 .. IntMax => new.start = old.start
                 /\ new.time = "epoch" <=> old.time \in {NULL, "epoch"}
  <2>1. PICK old, new : old = tree.info[e] /\ new = tree'.info[e]
    OBVIOUS
  <2>2. IsLoaded(header, tree, tree')
    BY <1>1, OpeningFacts
  <2>3. /\ new.size = IF old.type = "file" THEN atoi(old.size) ELSE 0
        /\ old.type = "file" => new.start = atoi(old.start)
        /\ new.time = IF old.time = NULL THEN "epoch" ELSE old.time
        /\ old \in Infos /\ old.type \in {"file", "dir"}
    BY <1>1, <2>1, <2>2, OpenedEntry
  <2>4. ASSUME NEW n \in Int, n \in 0 .. IntMax PROVE atoi(n) = n
    <3>1. n \in -(IntMax + 1) .. IntMax
      BY <2>4, PathsAssumption
    <3> QED  BY <3>1, AtoiFacts
  <2>5. old.size \in Int /\ old.start \in Int /\ (old.type = "dir" => old.size = 0)
    BY <2>3, InfoFacts
  <2>6. new.time = "epoch" <=> old.time \in {NULL, "epoch"}
    BY <2>3
  <2>7. old.size \in 0 .. IntMax => new.size = old.size
    BY <2>3, <2>4, <2>5
  <2>8. old.type = "file" /\ old.start \in 0 .. IntMax => new.start = old.start
    BY <2>3, <2>4, <2>5
  <2> QED  BY <2>1, <2>6, <2>7, <2>8
<1>2. IInv /\ [Next]_vars =>
        [Opening /\ header = Header(tree) =>
           \A e \in Content(tree') :
              LET old == tree.info[e]
                  new == tree'.info[e]
              IN  /\ old.size \in 0 .. IntMax => new.size = old.size
                  /\ old.type = "file" /\ old.start \in 0 .. IntMax => new.start = old.start
                  /\ new.time = "epoch" <=> old.time \in {NULL, "epoch"}]_vars
  BY <1>1
<1> QED  BY <1>2, Invariance, PTL DEF Spec, AttributesSurvive

\* A path is the same again exactly if a loader made it and it leads to the entry.
THEOREM PathsSurvive == Spec => PathSurvives
<1>1. ASSUME IInv, [Next]_vars, Opening, NEW e \in Content(tree')
      PROVE  (tree'.info[e].path = tree.info[e].path) <=> (e \in native /\ ~ Stale(e))
  <2>1. PICK u : u = tree' /\ e \in Content(u) /\ IsLoaded(header, tree, u)
    BY <1>1, OpeningFacts
  <2>2. TreeOK(tree) /\ PathsOK(tree, native)
    BY <1>1 DEF IInv, PathInv
  <2>3. /\ Within(tree, u) /\ TreeOK(u) /\ Untyped(u) = {}
        /\ u.info[e].type = tree.info[e].type /\ u.info[e].type \in {"file", "dir"}
    <3>1. LoadsTo(header, tree, u)
      BY <2>1, LoadedTree
    <3> QED  BY <2>1, <3>1 DEF LoadsTo
  <2>4. e \in Content(tree) \ Untyped(tree) /\ NamesTo(u, e) = NamesTo(tree, e)
    BY <2>1, <2>3, WithinNames DEF Untyped
  <2>5. PICK old, new \in Seq(Parts), type \in {"file", "dir"} :
             old = tree.info[e].path /\ new = u.info[e].path /\ type = tree.info[e].type
    BY <2>1, <2>2, <2>3, <2>4, TypedFacts
  <2> DEFINE names == NamesTo(tree, e)
  <2>6. Regular(new, type) /\ Stripped(new) = names
    BY <2>1, <2>3, <2>4, <2>5, LoadedPaths DEF StaleIn
  <2>7. IF e \in native THEN Regular(old, type) ELSE Irregular(old)
    BY <2>2, <2>4, <2>5 DEF PathsOK
  <2>8. Stale(e) <=> Stripped(old) # names
    BY <2>5 DEF Stale
  <2> HIDE DEF names
  <2>9. ASSUME new = old PROVE e \in native /\ ~ Stale(e)
    BY <2>6, <2>7, <2>8, <2>9, OneKind
  <2>10. ASSUME e \in native, ~ Stale(e) PROVE new = old
    BY <2>5, <2>6, <2>7, <2>8, <2>10, RegularUnique
  <2> QED  BY <2>1, <2>5, <2>9, <2>10
<1>2. IInv /\ [Next]_vars =>
        [Opening => \A e \in Content(tree') :
            (tree'.info[e].path = tree.info[e].path) <=> (e \in native /\ ~ Stale(e))]_vars
  BY <1>1
<1> QED  BY <1>2, Invariance, PTL DEF Spec, PathSurvives

\* The list a loader makes of the nodes of a directory has those of one type in their
\* order.
LEMMA LoadedInOrder ==
    ASSUME NEW h, Lists(h.kids), NEW d \in Places, NEW x, NEW y,
           NEW tag \in {"file", "dir"}, x \in Tagged(h, tag), y \in Tagged(h, tag),
           InOrder(h.kids[d], x, y)
    PROVE  InOrder(LoadedKids(h)[d], x, y)
<1>1. PICK s \in Seq(Entries) : s = h.kids[d]
  BY ListSets
<1>2. PICK f \in Seq(Entries) : f = Only(s, Tagged(h, "file"))
  BY OnlySet
<1>3. PICK g \in Seq(Entries) : g = Only(s, Tagged(h, "dir"))
  BY OnlySet
<1>4. LoadedKids(h)[d] = f \o g
  BY <1>1, <1>2, <1>3 DEF LoadedKids
<1>5. InOrder(Only(s, Tagged(h, tag)), x, y)
  BY <1>1, InOrderOnly
<1>6. InOrder(f, x, y) \/ InOrder(g, x, y)
  BY <1>2, <1>3, <1>5
<1> QED  BY <1>4, <1>6, InOrderConcat

LEMMA LoadedOrder ==
    ASSUME NEW h, NEW t, NEW u, IsLoaded(h, t, u), NEW x \in Content(u), NEW e \in Content(u),
           NEW d \in Places, t.info[x].type = t.info[e].type, InOrder(t.kids[d], x, e)
    PROVE  InOrder(u.kids[d], x, e)
<1>1. /\ TreeOK(t) /\ Worn(h, t) /\ ~ Unreadable(h) /\ LoadsTo(h, t, u)
  BY LoadedTree DEF IsLoaded
<1>2. /\ u.kids = ReadLists(h) /\ Content(u) = Read(h) /\ TreeOK(u)
      /\ \A c \in Places : ToSet(u.kids[c]) \subseteq ToSet(t.kids[c])
      /\ u.info[e].type = t.info[e].type /\ u.info[e].type \in {"file", "dir"}
  BY <1>1 DEF LoadsTo, Within
<1>3. h.kids = t.kids /\ Forest(t.kids) /\ Lists(h.kids) /\ Content(u) \subseteq Entries
  BY <1>1, <1>2, TreeFacts, ForestFacts DEF Worn
<1>4. x \in Tagged(h, t.info[e].type) /\ e \in Tagged(h, t.info[e].type)
  BY <1>1, <1>2, <1>3, NodesReadable DEF Tagged
<1>5. InOrder(LoadedKids(h)[d], x, e)
  BY <1>2, <1>3, <1>4, LoadedInOrder
<1>6. d \in Read(h) \cup {NULL}
  <2>1. PICK c \in Places : x \in ToSet(u.kids[c])
    BY <1>2, TreeFacts DEF Linked
  <2>2. c \in Read(h) \cup {NULL}
    BY <1>2, <2>1, SetOfEmpty DEF ReadLists
  <2>3. x \in ToSet(t.kids[d])
    <3>1. PICK s \in Seq(Entries) : s = t.kids[d]
      BY <1>3, ListSets
    <3>2. \E i \in DOMAIN s : s[i] = x
      BY <3>1 DEF InOrder
    <3> QED  BY <3>1, <3>2 DEF ToSet
  <2>4. c = d
    BY <1>2, <1>3, <2>1, <2>3, ForestFacts DEF OneParent
  <2> QED  BY <2>2, <2>4
<1> QED  BY <1>2, <1>5, <1>6 DEF ReadLists

\* What is opened is what was saved, but for entries of unknown types and what is
\* below them.
THEOREM TreesSurvive == Spec => TreeSurvives
<1>1. ASSUME IInv, [Next]_vars, Opening
      PROVE  /\ Content(tree') = {e \in Content(tree) : Known(e)}
             /\ \A e \in Content(tree') :
                  /\ NamesTo(tree', e) = NamesTo(tree, e)
                  /\ tree'.info[e].type = tree.info[e].type
                  /\ \A x \in Content(tree'), d \in Places :
                       tree.info[x].type = tree.info[e].type /\ InOrder(tree.kids[d], x, e)
                         => InOrder(tree'.kids[d], x, e)
  <2>1. PICK u : u = tree' /\ IsLoaded(header, tree, u)
    BY <1>1, OpeningFacts
  <2>2. /\ TreeOK(tree) /\ Worn(header, tree) /\ Within(tree, u) /\ Content(u) = Read(header)
        /\ \A e \in Content(u) : u.info[e].type = tree.info[e].type
    <3>1. LoadsTo(header, tree, u)
      BY <2>1, LoadedTree
    <3> QED  BY <2>1, <3>1 DEF LoadsTo, IsLoaded
  <2>3. Content(u) = {e \in Content(tree) : Known(e)}
    <3>1. Read(header) = {e \in Content(tree) : KnownIn(header, tree, e)}
      BY <2>2, ReadFacts
    <3>2. \A e : Known(e) <=> KnownIn(header, tree, e)
      BY DEF Known, KnownIn
    <3> QED  BY <2>2, <3>1, <3>2
  <2>4. \A e \in Content(u) : NamesTo(u, e) = NamesTo(tree, e)
    BY <2>2, WithinNames
  <2>5. \A e \in Content(u) : \A x \in Content(u), d \in Places :
           tree.info[x].type = tree.info[e].type /\ InOrder(tree.kids[d], x, e)
             => InOrder(u.kids[d], x, e)
    BY <2>1, LoadedOrder
  <2> QED  BY <2>1, <2>2, <2>3, <2>4, <2>5
<1>2. IInv /\ [Next]_vars =>
        [Opening =>
           /\ Content(tree') = {e \in Content(tree) : Known(e)}
           /\ \A e \in Content(tree') :
                /\ NamesTo(tree', e) = NamesTo(tree, e)
                /\ tree'.info[e].type = tree.info[e].type
                /\ \A x \in Content(tree'), d \in Places :
                     tree.info[x].type = tree.info[e].type /\ InOrder(tree.kids[d], x, e)
                       => InOrder(tree'.kids[d], x, e)]_vars
  BY <1>1
<1> QED  BY <1>2, Invariance, PTL DEF Spec, TreeSurvives

\* Saving what was opened, saved and opened again without a change writes the header
\* that is there.
THEOREM ResavingStable == Spec => ResavingIsStable
<1>1. ASSUME IInv, [Next]_vars, status = "open", status' = "saved", opened = 2
      PROVE  header' = header
  <2>1. ba_save
    BY <1>1 DEF Next, vars, ba_load_fs_tree, ba_add, ba_remove, ba_move_into_dir,
       ba_move_onto_file, Change, ba_open, Damage
  <2>2. header' = Header(Rearranged(tree))
    BY <2>1 DEF ba_save
  <2>3. header = Header(Rearranged(tree))
    BY <1>1 DEF IInv, SaveInv
  <2> QED  BY <2>2, <2>3
<1>2. IInv /\ [Next]_vars =>
        [status = "open" /\ status' = "saved" /\ opened = 2 => header' = header]_vars
  BY <1>1
<1> QED  BY <1>2, Invariance, PTL DEF Spec, ResavingIsStable
=============================================================================
