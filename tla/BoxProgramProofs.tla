--------------------------- MODULE BoxProgramProofs ---------------------------
(***************************************************************************)
(* What the box program has done when it ends, for every command line,     *)
(* archive, source and place to extract to: what is saved, listed and      *)
(* extracted.  Invariants carry what main() knows: OptionsInv what the     *)
(* options said, BaseInv the archive and the entries to work on, SavedInv  *)
(* what is about to be saved, ExtractInv what has come out so far.         *)
(***************************************************************************)
EXTENDS BoxProgram, EntryPathsProofs, FiniteSetTheorems

(***************************************************************************)
(* The trees that were saved, and what opening makes of them.              *)
(***************************************************************************)
LEMMA GivenTrees ==
    ASSUME NEW t, IsTree(t)
    PROVE  TreeOK(t) /\ Distinct(t) /\ Unrepeated(t.kids)
<1>1. /\ t = [kids |-> t.kids, info |-> t.info] /\ Lists(t.kids)
      /\ t.info \in [Entries -> Infos]
  BY DEF IsTree, Trees, Lists
<1>2. /\ \A d \in Places : t.kids[d] \in Seq(Entries) /\ DOMAIN t.kids[d] = 1 .. Len(t.kids[d])
      /\ \A d \in Places : \A x \in ToSet(t.kids[d]) : \E i \in 1 .. Len(t.kids[d]) : t.kids[d][i] = x
  <2> SUFFICES ASSUME NEW d \in Places
               PROVE  /\ t.kids[d] \in Seq(Entries) /\ DOMAIN t.kids[d] = 1 .. Len(t.kids[d])
                      /\ \A x \in ToSet(t.kids[d]) : \E i \in 1 .. Len(t.kids[d]) : t.kids[d][i] = x
    OBVIOUS
  <2>1. PICK list \in Seq(Entries) : list = t.kids[d]
    BY <1>1 DEF Lists
  <2>2. DOMAIN list = 1 .. Len(list) /\ \A x \in ToSet(list) : \E i \in 1 .. Len(list) : list[i] = x
    BY SetOfSeq
  <2> QED  BY <2>1, <2>2
<1>3. Founded(t.kids)
  <2>1. PICK h \in [Places -> 0 .. Cardinality(Entries)] :
               \A d \in Places : \A e \in ToSet(t.kids[d]) : h[e] < h[d]
    BY DEF IsTree
  <2>2. Cardinality(Entries) \in Nat
    BY TreesAssumption, FS_CardinalityType
  <2>3. Heights(t.kids, Cardinality(Entries), h)
    BY <2>1, <2>2 DEF Heights
  <2> QED  BY <2>3 DEF Founded
<1>4. \A c, d \in Places : \A i \in 1 .. Len(t.kids[c]), j \in 1 .. Len(t.kids[d]) :
         /\ t.kids[c][i] = t.kids[d][j] => c = d /\ i = j
         /\ /\ c = d
            /\ t.info[t.kids[c][i]].name = t.info[t.kids[d][j]].name
            /\ t.info[t.kids[c][i]].name # NULL
            => i = j
  BY <1>2 DEF IsTree
<1>5. OneParent(t.kids)
  <2> SUFFICES ASSUME NEW c \in Places, NEW d \in Places,
                      NEW e \in ToSet(t.kids[c]), e \in ToSet(t.kids[d])
               PROVE  c = d
    BY DEF OneParent
  <2>1. PICK i \in 1 .. Len(t.kids[c]) : t.kids[c][i] = e
    BY <1>2
  <2>2. PICK j \in 1 .. Len(t.kids[d]) : t.kids[d][j] = e
    BY <1>2
  <2> QED  BY <1>4, <2>1, <2>2
<1>6. Distinct(t)
  <2> SUFFICES ASSUME NEW d \in Places, NEW x \in ToSet(t.kids[d]), NEW y \in ToSet(t.kids[d]),
                      t.info[x].name = t.info[y].name, t.info[x].name # NULL
               PROVE  x = y
    BY DEF Distinct
  <2>1. PICK i \in 1 .. Len(t.kids[d]) : t.kids[d][i] = x
    BY <1>2
  <2>2. PICK j \in 1 .. Len(t.kids[d]) : t.kids[d][j] = y
    BY <1>2
  <2> QED  BY <1>4, <2>1, <2>2
<1>7. Unrepeated(t.kids)
  BY <1>4 DEF Unrepeated, Once
<1>8. \A e \in Entries : /\ t.info[e].type # "none" <=> e \in Linked(t.kids)
                         /\ t.kids[e] # <<>> => t.info[e].type = "dir"
  BY DEF IsTree, Linked
<1>9. Forest(t.kids)
  BY <1>1, <1>3, <1>5, <1>8 DEF Forest, NoneLoose
<1> QED  BY <1>1, <1>6, <1>7, <1>8, <1>9 DEF TreeOK

LEMMA OnceOnly ==
    ASSUME NEW S, NEW s \in Seq(S), NEW T, Once(s)
    PROVE  Once(Only(s, T))
<1> DEFINE P == {r \in Seq(S) : Once(r) => Once(Only(r, T))}
<1>1. <<>> \in P
  BY OnlyEmpty DEF Once
<1>2. ASSUME NEW r \in Seq(S), r \in P, NEW e \in S PROVE Append(r, e) \in P
  <2>1. Append(r, e) \in Seq(S)
    OBVIOUS
  <2> SUFFICES ASSUME Once(Append(r, e)) PROVE Once(Only(Append(r, e), T))
    BY <2>1
  <2>2. Once(r) /\ e \notin ToSet(r)
    BY OnceFront
  <2>3. PICK o \in Seq(S) : /\ o = Only(r, T) /\ ToSet(o) \subseteq ToSet(r) /\ Once(o)
                            /\ Only(Append(r, e), T) = IF e \in T THEN Append(o, e) ELSE o
    <3>1. /\ Only(r, T) \in Seq(S)
          /\ Only(Append(r, e), T) = IF e \in T THEN Append(Only(r, T), e) ELSE Only(r, T)
      BY OnlyAppend
    <3>2. ToSet(Only(r, T)) \subseteq ToSet(r)
      BY OnlySet
    <3>3. Once(Only(r, T))
      BY <1>2, <2>2
    <3> QED  BY <3>1, <3>2, <3>3
  <2>4. Once(Append(o, e))
    <3>1. PICK a \in Seq(S) : /\ a = Append(o, e) /\ Len(a) = Len(o) + 1 /\ a[Len(a)] = e
                              /\ \A i \in 1 .. Len(o) : a[i] = o[i]
      <4>1. /\ Append(o, e) \in Seq(S) /\ Len(Append(o, e)) = Len(o) + 1
            /\ Append(o, e)[Len(Append(o, e))] = e
            /\ \A i \in 1 .. Len(o) : Append(o, e)[i] = o[i]
        BY AppendProperties
      <4> QED  BY <4>1
    <3>2. \A i \in 1 .. Len(o) : o[i] # e
      BY <2>2, <2>3, SetOfSeq
    <3>3. \A i \in 1 .. Len(a) : i = Len(a) \/ i \in 1 .. Len(o)
      BY <3>1
    <3> QED  BY <2>3, <3>1, <3>2, <3>3 DEF Once
  <2> QED  BY <2>3, <2>4
<1>3. Seq(S) \subseteq P
  <2> HIDE DEF P
  <2> QED  BY <1>1, <1>2, SeqInduct
<1> QED  BY <1>3

\* What main() works on: a tree as ba_open() makes it of such an archive.
GoodTree(t) ==
    /\ TreeOK(t) /\ Distinct(t) /\ Unrepeated(t.kids) /\ Untyped(t) = {}
    /\ \A d \in Places : \A e \in ToSet(t.kids[d]) :
          t.info[e].path = FormedPath(PathOf(t, d), t.info[e].name, t.info[e].type, "loaded")
    /\ \A e \in Content(t) : Regular(t.info[e].path, t.info[e].type)
                             /\ Stripped(t.info[e].path) = NamesTo(t, e)

LEMMA GoodEmpty == GoodTree(NoTree)
<1>1. TreeOK(NoTree) /\ Linked(NoTree.kids) = {}
  BY NoTreeOK
<1>2. Content(NoTree) = {} /\ Untyped(NoTree) = {}
  BY <1>1, TreeFacts DEF Untyped
<1>3. \A d \in Places : NoTree.kids[d] = <<>>
  BY DEF NoTree
<1>4. Distinct(NoTree) /\ Unrepeated(NoTree.kids)
  BY <1>3, SetOfEmpty DEF Distinct, Unrepeated, Once
<1> QED  BY <1>1, <1>2, <1>3, <1>4, SetOfEmpty DEF GoodTree

\* What t is after it was saved and opened again.
SavedAs(t, u) ==
    /\ TreeOK(u) /\ Untyped(u) = {} /\ Content(u) = Content(t) \ Untyped(t)
    /\ \A x \in Content(u) : NamesTo(u, x) = NamesTo(t, x) /\ u.info[x].type = t.info[x].type

LEMMA SavedAndLoaded ==
    ASSUME NEW t, TreeOK(t), NEW h, h = Header(Rearranged(t)), NEW u, u = Loaded(h)
    PROVE  /\ \E r : /\ r = Rearranged(t) /\ RearrangesTo(t, r) /\ IsLoaded(h, r, u)
                     /\ LoadsTo(h, r, u) /\ h = Header(r)
           /\ SavedAs(t, u)
           /\ ~ Unreadable(h)
<1>1. PICK r : r = Rearranged(t) /\ RearrangesTo(t, r)
  BY RearrangedTree
<1>2. TreeOK(r) /\ r.kids = t.kids /\ Content(r) = Content(t) /\ Untyped(r) = Untyped(t) /\ Within(t, r)
  BY <1>1 DEF RearrangesTo
<1>3. h = Header(r) /\ Worn(h, r) /\ ~ Unreadable(h)
  BY <1>1, <1>2, HeaderWorn, HeaderReadable, TreeListed
<1>4. IsLoaded(h, r, u)
  BY <1>2, <1>3 DEF IsLoaded
<1>5. LoadsTo(h, r, u)
  BY <1>4, LoadedTree
<1>6. TreeOK(u) /\ Untyped(u) = {} /\ Content(u) = Read(h) /\ Within(r, u)
  BY <1>5 DEF LoadsTo
<1>7. Content(u) = Content(t) \ Untyped(t)
  <2>1. Read(h) = {e \in Content(r) : KnownIn(h, r, e)}
    BY <1>2, <1>3, ReadFacts
  <2>2. \A e \in Content(r) : e \in Entries /\ e \in Places /\ (h.node[e].tag = r.info[e].type)
    BY <1>2, <1>3, TreeFacts, HeaderFacts
  <2>3. ASSUME NEW e \in Content(r), KnownIn(h, r, e) PROVE e \notin Untyped(r)
    BY <2>2, <2>3 DEF KnownIn, Subtree, Untyped
  <2>4. ASSUME NEW e \in Content(r), e \notin Untyped(r) PROVE KnownIn(h, r, e)
    <3> SUFFICES ASSUME NEW top \in Content(r), e \in Subtree(r, top), h.node[top].tag = "untyped"
                 PROVE  FALSE
      BY DEF KnownIn
    <3>1. top \in Untyped(r) /\ top \in Entries /\ top \in Places
      BY <2>2 DEF Untyped
    <3>2. r.kids[top] = <<>>
      BY <1>2, <3>1 DEF TreeOK, Untyped
    <3>3. Descendants(r.kids, top) = {}
      <4>1. Lists(r.kids) /\ Founded(r.kids)
        BY <1>2, TreeFacts, ForestFacts
      <4> QED  BY <3>1, <3>2, <4>1, DescendantsDef, SetOfEmpty
    <3> QED  BY <2>4, <3>1, <3>3 DEF Subtree
  <2> QED  BY <1>2, <1>6, <2>1, <2>3, <2>4
<1>8. \A x \in Content(u) : u.info[x].type = t.info[x].type
  <2>1. \A x \in Content(u) : u.info[x].type = r.info[x].type
    BY <1>5 DEF LoadsTo
  <2>2. \A x \in Content(u) : x \in Entries
    BY <1>6, TreeFacts
  <2> QED  BY <1>1, <2>1, <2>2 DEF RearrangesTo
<1>9. \A x \in Content(u) : NamesTo(u, x) = NamesTo(t, x)
  <2>1. \A x \in Content(u) : NamesTo(u, x) = NamesTo(r, x)
    BY <1>6, WithinNames
  <2>2. \A x \in Content(r) : NamesTo(r, x) = NamesTo(t, x)
    BY <1>2, WithinNames
  <2> QED  BY <1>2, <1>7, <2>1, <2>2
<1>10. SavedAs(t, u)
  BY <1>6, <1>7, <1>8, <1>9 DEF SavedAs
<1> QED  BY <1>1, <1>3, <1>4, <1>5, <1>10

\* Saving and opening keeps where the files and directories are.
LEMMA ItemsSaved ==
    ASSUME NEW t, TreeOK(t), NEW h, h = Header(Rearranged(t))
    PROVE  Items(Loaded(h)) = Items(t) /\ ~ Unreadable(h)
<1>1. PICK u : u = Loaded(h)
  OBVIOUS
<1>2. SavedAs(t, u) /\ ~ Unreadable(h)
  BY <1>1, SavedAndLoaded
<1> QED  BY <1>1, <1>2 DEF SavedAs, Items

\* What is opened is a good tree, and at the places of the saved one.
LEMMA OpenedTree ==
    ASSUME NEW t, IsTree(t), NEW h, h = Header(Rearranged(t)), NEW u, u = Loaded(h)
    PROVE  /\ GoodTree(u) /\ ~ Unreadable(h)
           /\ \A e \in Content(u) : e \in Files(t) \cup Dirs(t) /\ NamesTo(u, e) = NamesTo(t, e)
<1>1. TreeOK(t) /\ Distinct(t) /\ Unrepeated(t.kids)
  BY GivenTrees
<1>2. PICK r : /\ RearrangesTo(t, r) /\ IsLoaded(h, r, u) /\ LoadsTo(h, r, u) /\ h = Header(r)
  BY <1>1, SavedAndLoaded
<1>3. SavedAs(t, u) /\ ~ Unreadable(h)
  BY <1>1, SavedAndLoaded
<1>4. Distinct(u)
  <2>1. Distinct(r)
    BY <1>1, <1>2, WithinNames DEF RearrangesTo
  <2> QED  BY <1>2, <2>1, LoadedKeeps
<1>5. Unrepeated(u.kids)
  <2> SUFFICES ASSUME NEW d \in Places PROVE Once(u.kids[d])
    BY DEF Unrepeated
  <2>1. u.kids = ReadLists(h) /\ h.kids = t.kids
    BY <1>2, HeaderFacts DEF LoadsTo, RearrangesTo
  <2>2. PICK list \in Seq(Entries) : list = t.kids[d] /\ Once(list)
    BY <1>1, TreeFacts, ForestFacts, ListSets DEF Unrepeated
  <2>3. PICK a \in Seq(Entries), b \in Seq(Entries) :
          /\ a = Only(list, Tagged(h, "file")) /\ b = Only(list, Tagged(h, "dir"))
          /\ Once(a) /\ Once(b) /\ ToSet(a) \subseteq Tagged(h, "file") /\ ToSet(b) \subseteq Tagged(h, "dir")
    <3>1. ASSUME NEW T
          PROVE  Only(list, T) \in Seq(Entries) /\ Once(Only(list, T)) /\ ToSet(Only(list, T)) \subseteq T
      BY <2>2, OnlySet, OnceOnly
    <3> QED  BY <3>1
  <2>4. Once(a \o b)
    <3>1. ToSet(a) \cap ToSet(b) = {}
      BY <2>3 DEF Tagged
    <3> QED  BY <2>3, <3>1, OnceConcat
  <2>5. LoadedKids(h)[d] = a \o b
    BY <2>1, <2>2, <2>3 DEF LoadedKids
  <2>6. Once(<<>>)
    BY DEF Once
  <2> QED  BY <2>1, <2>4, <2>5, <2>6 DEF ReadLists
<1>6. \A e \in Content(u) : /\ Regular(u.info[e].path, u.info[e].type)
                            /\ Stripped(u.info[e].path) = NamesTo(u, e)
  BY <1>2, LoadedPaths DEF StaleIn
<1>7. ASSUME NEW d \in Places, NEW e \in ToSet(u.kids[d])
      PROVE  u.info[e].path = FormedPath(PathOf(u, d), u.info[e].name, u.info[e].type, "loaded")
  <2>1. PICK n, p : /\ n = h.node[e] /\ p = PathOf(u, d) /\ u.info[e] = LoadedEntry(n, p)
    BY <1>2 DEF LoadsTo
  <2>2. /\ LoadedEntry(n, p).path = FormedPath(p, n.name, n.tag, "loaded")
        /\ LoadedEntry(n, p).name = n.name /\ LoadedEntry(n, p).type = n.tag
    BY DEF LoadedEntry
  <2> QED  BY <2>1, <2>2
<1>8. GoodTree(u)
  BY <1>3, <1>4, <1>5, <1>6, <1>7 DEF GoodTree, SavedAs
<1>9. \A e \in Content(u) : e \in Files(t) \cup Dirs(t) /\ NamesTo(u, e) = NamesTo(t, e)
  <2>1. ASSUME NEW e \in Content(t), e \notin Untyped(t) PROVE e \in Files(t) \cup Dirs(t)
    BY <1>1, <2>1, TypedFacts DEF Files, Dirs
  <2> QED  BY <1>3, <2>1 DEF SavedAs
<1> QED  BY <1>3, <1>8, <1>9

(***************************************************************************)
(* Prefixes.                                                               *)
(***************************************************************************)
LEMMA SliceFacts ==
    ASSUME NEW S, NEW s \in Seq(S), NEW n \in 0 .. Len(s)
    PROVE  /\ SubSeq(s, 1, n) \in Seq(S) /\ Len(SubSeq(s, 1, n)) = n
           /\ \A i \in 1 .. n : SubSeq(s, 1, n)[i] = s[i]
<1>1. \A i \in 1 .. n : s[i] \in S
  BY ElementOfSeq
<1>2. n \in Int /\ (1 <= n => n - 1 + 1 = n) /\ n - 1 + 1 = n /\ \A i \in 1 .. n : 1 + i - 1 = i
  OBVIOUS
<1> QED  BY <1>1, <1>2, SubSeqProperties

LEMMA PrefixElements ==
    ASSUME NEW S, NEW s \in Seq(S), NEW t \in Seq(S)
    PROVE  IsPrefix(s, t) <=> Len(s) <= Len(t) /\ \A i \in 1 .. Len(s) : s[i] = t[i]
<1> SUFFICES ASSUME Len(s) <= Len(t)
             PROVE  SubSeq(s, 1, Len(s)) = SubSeq(t, 1, Len(s)) <=> \A i \in 1 .. Len(s) : s[i] = t[i]
  BY DEF IsPrefix
<1>1. Len(s) \in 0 .. Len(s) /\ Len(s) \in 0 .. Len(t)
  OBVIOUS
<1>2. PICK a \in Seq(S), b \in Seq(S) :
         /\ a = SubSeq(s, 1, Len(s)) /\ b = SubSeq(t, 1, Len(s))
         /\ Len(a) = Len(s) /\ Len(b) = Len(s)
         /\ \A i \in 1 .. Len(s) : a[i] = s[i] /\ b[i] = t[i]
  <2>1. /\ SubSeq(s, 1, Len(s)) \in Seq(S) /\ Len(SubSeq(s, 1, Len(s))) = Len(s)
        /\ \A i \in 1 .. Len(s) : SubSeq(s, 1, Len(s))[i] = s[i]
    BY <1>1, SliceFacts
  <2>2. /\ SubSeq(t, 1, Len(s)) \in Seq(S) /\ Len(SubSeq(t, 1, Len(s))) = Len(s)
        /\ \A i \in 1 .. Len(s) : SubSeq(t, 1, Len(s))[i] = t[i]
    BY <1>1, SliceFacts
  <2> QED  BY <2>1, <2>2
<1>3. ASSUME \A i \in 1 .. Len(s) : s[i] = t[i] PROVE a = b
  BY <1>2, <1>3, SeqEqual
<1> QED  BY <1>2, <1>3

LEMMA PrefixSelf ==
    ASSUME NEW S, NEW s \in Seq(S)
    PROVE  IsPrefix(s, s)
<1>1. Len(s) <= Len(s)
  OBVIOUS
<1> QED  BY <1>1, PrefixElements

LEMMA FrontOfAppend ==
    \A S : \A t \in Seq(S), e \in S :
       Front(Append(t, e)) = t /\ Append(t, e) # <<>> /\ Len(Append(t, e)) = Len(t) + 1
<1> SUFFICES ASSUME NEW S, NEW t \in Seq(S), NEW e \in S, NEW u, u = Append(t, e)
             PROVE  Front(u) = t /\ u # <<>> /\ Len(u) = Len(t) + 1
  OBVIOUS
<1>1. u \in Seq(S) /\ Len(u) = Len(t) + 1 /\ \A i \in 1 .. Len(t) : u[i] = t[i]
  <2>1. /\ Append(t, e) \in Seq(S) /\ Len(Append(t, e)) = Len(t) + 1
        /\ \A i \in 1 .. Len(t) : Append(t, e)[i] = t[i]
    BY AppendProperties
  <2> QED  BY <2>1
<1>2. Len(t) \in Nat /\ Len(u) - 1 = Len(t) /\ Len(t) \in 0 .. Len(u) /\ u # <<>>
  BY <1>1
<1>3. SubSeq(u, 1, Len(t)) = t
  <2>1. PICK f \in Seq(S) : /\ f = SubSeq(u, 1, Len(t)) /\ Len(f) = Len(t)
                            /\ \A i \in 1 .. Len(t) : f[i] = u[i]
    BY <1>1, <1>2, SliceFacts
  <2>2. f = t
    BY <1>1, <2>1, SeqEqual
  <2> QED  BY <2>1, <2>2
<1> QED  BY <1>1, <1>2, <1>3 DEF Front

LEMMA AppendFacts ==
    ASSUME NEW S, NEW t \in Seq(S), NEW e \in S, NEW u, u = Append(t, e)
    PROVE  /\ u \in Seq(S) /\ Len(u) = Len(t) + 1 /\ u[Len(u)] = e
           /\ \A i \in 1 .. Len(t) : u[i] = t[i]
<1>1. /\ Append(t, e) \in Seq(S) /\ Len(Append(t, e)) = Len(t) + 1
      /\ Append(t, e)[Len(Append(t, e))] = e
      /\ \A i \in 1 .. Len(t) : Append(t, e)[i] = t[i]
  BY AppendProperties
<1> QED  BY <1>1

LEMMA PrefixAppended ==
    ASSUME NEW S, NEW s \in Seq(S), NEW t \in Seq(S), NEW e \in S, NEW u, u = Append(t, e)
    PROVE  /\ IsPrefix(s, s)
           /\ IsPrefix(s, t) => Len(s) <= Len(t)
           /\ IsPrefix(s, u) <=> s = u \/ IsPrefix(s, t)
<1>1. /\ u \in Seq(S) /\ Len(u) = Len(t) + 1 /\ u[Len(u)] = e
      /\ \A i \in 1 .. Len(t) : u[i] = t[i]
  BY AppendFacts
<1>2. IsPrefix(s, s) /\ (IsPrefix(s, t) => Len(s) <= Len(t))
  BY PrefixElements, PrefixSelf
<1>7. IsPrefix(s, u) <=> Len(s) <= Len(u) /\ \A i \in 1 .. Len(s) : s[i] = u[i]
  <2>1. \A x \in Seq(S) : IsPrefix(s, x) <=> Len(s) <= Len(x) /\ \A i \in 1 .. Len(s) : s[i] = x[i]
    BY PrefixElements
  <2> QED  BY <1>1, <2>1
<1>3. IsPrefix(u, u)
  BY <1>1, PrefixSelf
<1>4. Len(s) \in Nat /\ Len(t) \in Nat
  OBVIOUS
<1>5. ASSUME IsPrefix(s, t) PROVE IsPrefix(s, u)
  <2>1. Len(s) <= Len(t) /\ \A i \in 1 .. Len(s) : s[i] = t[i]
    BY <1>5, PrefixElements
  <2>2. Len(s) <= Len(u) /\ \A i \in 1 .. Len(s) : s[i] = u[i]
    BY <1>1, <1>4, <2>1
  <2> QED  BY <1>7, <2>2
<1>6. ASSUME IsPrefix(s, u), s # u PROVE IsPrefix(s, t)
  <2>1. Len(s) <= Len(u) /\ \A i \in 1 .. Len(s) : s[i] = u[i]
    BY <1>6, <1>7
  <2>2. Len(s) # Len(u)
    BY <1>1, <1>6, <2>1, SeqEqual
  <2>3. Len(s) <= Len(t) /\ \A i \in 1 .. Len(s) : s[i] = t[i]
    BY <1>1, <1>4, <2>1, <2>2
  <2> QED  BY <2>3, PrefixElements
<1> QED  BY <1>2, <1>3, <1>5, <1>6

LEMMA PrefixSet ==
    ASSUME NEW S, NEW t \in Seq(S)
    PROVE  /\ \A q : q \in Prefixes(t) <=> q \in Seq(S) /\ IsPrefix(q, t)
           /\ Prefixes(<<>>) = {<<>>}
<1>1. ASSUME NEW q \in Prefixes(t) PROVE q \in Seq(S) /\ IsPrefix(q, t)
  <2>1. PICK n \in 0 .. Len(t) : q = SubSeq(t, 1, n)
    BY DEF Prefixes
  <2>2. q \in Seq(S) /\ Len(q) = n /\ \A i \in 1 .. n : q[i] = t[i]
    BY <2>1, SliceFacts
  <2>3. Len(q) <= Len(t)
    BY <2>2
  <2> QED  BY <2>2, <2>3, PrefixElements
<1>2. ASSUME NEW q \in Seq(S), IsPrefix(q, t) PROVE q \in Prefixes(t)
  <2>1. Len(q) <= Len(t) /\ \A i \in 1 .. Len(q) : q[i] = t[i]
    BY <1>2, PrefixElements
  <2>2. Len(q) \in 0 .. Len(t)
    BY <2>1
  <2>3. PICK a \in Seq(S) : a = SubSeq(t, 1, Len(q)) /\ Len(a) = Len(q) /\ \A i \in 1 .. Len(q) : a[i] = t[i]
    BY <2>2, SliceFacts
  <2>4. a = q
    BY <2>1, <2>3, SeqEqual
  <2> QED  BY <2>2, <2>3, <2>4 DEF Prefixes
<1>3. Prefixes(<<>>) = {<<>>}
  <2>1. 0 .. Len(<<>>) = {0}
    OBVIOUS
  <2>2. SubSeq(<<>>, 1, 0) = <<>> /\ Len(<<>>) = 0
    BY SubSeqEmpty
  <2> QED  BY <2>1, <2>2 DEF Prefixes
<1> QED  BY <1>1, <1>2, <1>3

\* The places on the way to a place in d are those on the way to d, and d.
LEMMA WayTo ==
    ASSUME NEW S, NEW t \in Seq(S), NEW e \in S, NEW u, u = Append(t, e)
    PROVE  Prefixes(u) \ {u} = Prefixes(t) /\ Prefixes(t) = (Prefixes(t) \ {t}) \cup {t} /\ t # u
<1>1. u \in Seq(S) /\ Len(u) = Len(t) + 1 /\ Len(t) \in Nat
  BY AppendFacts
<1>2. \A q \in Seq(S) : IsPrefix(q, u) <=> q = u \/ IsPrefix(q, t)
  BY PrefixAppended
<1>3. ~ IsPrefix(u, t) /\ IsPrefix(t, t) /\ t # u
  <2>1. ~ (Len(u) <= Len(t))
    BY <1>1
  <2> QED  BY <1>1, <2>1, PrefixSelf, PrefixElements
<1>4. \A q : q \in Prefixes(t) <=> q \in Seq(S) /\ IsPrefix(q, t)
  BY PrefixSet
<1>5. \A q : q \in Prefixes(u) <=> q \in Seq(S) /\ IsPrefix(q, u)
  BY <1>1, PrefixSet
<1> QED  BY <1>2, <1>3, <1>4, <1>5

LEMMA GoodFacts ==
    ASSUME NEW t, GoodTree(t)
    PROVE  /\ TreeOK(t) /\ Named(t) /\ Distinct(t) /\ Forest(t.kids)
           /\ Content(t) = Linked(t.kids) /\ NULL \notin Content(t) /\ NULL \in Places
           /\ \A e \in Content(t) :
                /\ e \in Entries /\ e \in Places
                /\ t.info[e].type \in {"file", "dir"}
                /\ t.info[e].name \in Names
                /\ t.info[e].path \in Seq(Parts) /\ t.info[e].path # NULL
                /\ NamesTo(t, e) \in Seq(Names)
           /\ \A x, y \in Content(t) : NamesTo(t, x) = NamesTo(t, y) => x = y
<1>1. TreeOK(t) /\ Distinct(t) /\ Untyped(t) = {}
  BY DEF GoodTree
<1>2. /\ Forest(t.kids) /\ Named(t) /\ NamelessAreBare(t) /\ Content(t) = Linked(t.kids)
      /\ \A e \in Content(t) : e \in Entries /\ e \in Places /\ e # NULL
  BY <1>1, TreeFacts
<1>3. \A e \in Content(t) :
        /\ t.info[e].type \in {"file", "dir"}
        /\ t.info[e].name \in Names /\ t.info[e].name # NULL
        /\ t.info[e].path \in Seq(Parts) /\ t.info[e].path # NULL
  BY <1>1, TypedFacts
<1>4. ASSUME NEW e \in Content(t) PROVE NamesTo(t, e) \in Seq(Names)
  <2>1. SEP \in Parts
    BY DEF Parts
  <2>2. PICK p \in Seq(Parts) : p = t.info[e].path
    BY <1>3
  <2>3. Stripped(p) \in Seq(Names)
    BY <2>1, StrippedAppend
  <2> QED  BY <2>2, <2>3 DEF GoodTree
<1>5. \A x, y \in Content(t) : NamesTo(t, x) = NamesTo(t, y) => x = y
  BY <1>1, <1>2, <1>3, NamesInjective
<1> QED  BY <1>1, <1>2, <1>3, <1>4, <1>5 DEF Places

\* The directory an entry of a good tree is in.
InTree(t, e, d, n) ==
    /\ e \in Content(t) /\ d \in Dirs(t) \cup {NULL} /\ d \in Places /\ e \in ToSet(t.kids[d])
    /\ Parent(t, e) = d
    /\ n = NamesOf(t, d) /\ n \in Seq(Names)
    /\ NamesTo(t, e) = Append(n, t.info[e].name) /\ t.info[e].name \in Names
    /\ NamesTo(t, e) # <<>> /\ Front(NamesTo(t, e)) = n /\ Len(NamesTo(t, e)) = Len(n) + 1

LEMMA GoodParent ==
    ASSUME NEW t, GoodTree(t)
    PROVE  /\ \A d \in Places : \A e \in ToSet(t.kids[d]) : InTree(t, e, d, NamesOf(t, d))
           /\ \A e \in Content(t) : \E d, n : InTree(t, e, d, n)
<1>1. /\ TreeOK(t) /\ Named(t) /\ Forest(t.kids) /\ Content(t) = Linked(t.kids)
      /\ \A e \in Content(t) : t.info[e].name \in Names /\ NamesTo(t, e) \in Seq(Names)
  BY GoodFacts
<1>2. ASSUME NEW d \in Places, NEW e \in ToSet(t.kids[d]) PROVE InTree(t, e, d, NamesOf(t, d))
  <2>1. d \in Dirs(t) \cup {NULL} /\ e \in Content(t) /\ Parent(t, e) = d
    <3>1. Lists(t.kids)
      BY <1>1, ForestFacts
    <3>2. d \in Dirs(t) \cup {NULL}
      BY <1>1, TreeFacts
    <3>3. e \in Content(t)
      BY <1>1, <3>1, ListSets
    <3> QED  BY <1>1, <3>2, <3>3, ParentIs
  <2>2. PICK n \in Seq(Names) : n = NamesOf(t, d)
    <3>1. CASE d = NULL
      <4>1. <<>> \in Seq(Names)
        OBVIOUS
      <4> QED  BY <3>1, <4>1 DEF NamesOf
    <3>2. CASE d \in Dirs(t) /\ d # NULL
      BY <1>1, <3>2 DEF NamesOf, Dirs
    <3> QED  BY <2>1, <3>1, <3>2
  <2>3. PICK c \in Names : c = t.info[e].name
    BY <1>1, <2>1
  <2>4. PICK u : u = NamesTo(t, e) /\ u = Append(n, c)
    BY <1>1, <2>2, <2>3, NamesDef
  <2>5. u # <<>> /\ Front(u) = n /\ Len(u) = Len(n) + 1
    <3>1. \A v : v = Append(n, c) => v # <<>> /\ Front(v) = n /\ Len(v) = Len(n) + 1
      BY FrontOfAppend
    <3> QED  BY <2>4, <3>1
  <2> QED  BY <2>1, <2>2, <2>3, <2>4, <2>5 DEF InTree
<1>3. ASSUME NEW e \in Content(t) PROVE \E d, n : InTree(t, e, d, n)
  <2>1. PICK d \in Places : e \in ToSet(t.kids[d])
    BY <1>1 DEF Linked
  <2> QED  BY <1>2, <2>1
<1> QED  BY <1>2, <1>3

\* What is below an entry is what has its names before its own.
LEMMA BelowByNames ==
    ASSUME NEW t, GoodTree(t), NEW e \in Content(t), NEW x \in Content(t)
    PROVE  x \in Subtree(t, e) <=> IsPrefix(NamesTo(t, e), NamesTo(t, x))
<1>1. /\ TreeOK(t) /\ Forest(t.kids) /\ Lists(t.kids) /\ Founded(t.kids)
      /\ Content(t) = Linked(t.kids) /\ NULL \in Places /\ NULL \notin Content(t)
      /\ \A y \in Content(t) : y \in Entries /\ y \in Places /\ NamesTo(t, y) \in Seq(Names)
      /\ \A y, z \in Content(t) : NamesTo(t, y) = NamesTo(t, z) => y = z
  BY GoodFacts, ForestFacts
<1> DEFINE old == NamesTo(t, e)
<1>2. \A d \in Places : \A y \in ToSet(t.kids[d]) : InTree(t, y, d, NamesOf(t, d))
  BY GoodParent
<1>3. IsPrefix(old, old) /\ Len(old) > 0
  <2>1. IsPrefix(old, old)
    BY <1>1, PrefixSelf
  <2>2. PICK d, n : InTree(t, e, d, n)
    BY GoodParent
  <2>3. Len(n) \in Nat /\ Len(old) = Len(n) + 1
    BY <2>2 DEF InTree
  <2> QED  BY <2>1, <2>3
<1>4. ASSUME NEW d \in Places, NEW y \in ToSet(t.kids[d])
      PROVE  IsPrefix(old, NamesTo(t, y)) <=> y = e \/ (d # NULL /\ IsPrefix(old, NamesTo(t, d)))
  <2>1. InTree(t, y, d, NamesOf(t, d))
    BY <1>2
  <2>2. PICK n \in Seq(Names), c \in Names, u \in Seq(Names), o \in Seq(Names) :
           /\ n = NamesOf(t, d) /\ u = NamesTo(t, y) /\ u = Append(n, c) /\ o = old
    BY <1>1, <2>1 DEF InTree
  <2>3. IsPrefix(o, u) <=> o = u \/ IsPrefix(o, n)
    <3>1. u = Append(n, c)
      BY <2>2
    <3> QED  BY <3>1, PrefixAppended
  <2>4. o = u <=> y = e
    BY <1>1, <2>1, <2>2 DEF InTree
  <2>5. d = NULL => ~ IsPrefix(o, n)
    <3>1. d = NULL => n = <<>> /\ Len(n) = 0
      BY <2>2 DEF NamesOf
    <3>2. IsPrefix(o, n) => Len(o) <= Len(n)
      BY PrefixElements
    <3> QED  BY <1>3, <2>2, <3>1, <3>2
  <2> QED  BY <2>2, <2>3, <2>4, <2>5 DEF NamesOf
<1> HIDE DEF old
<1>5. ASSUME NEW d \in Places, NEW y \in ToSet(t.kids[d])
      PROVE  y \in Subtree(t, e) <=> y = e \/ (d # NULL /\ d \in Subtree(t, e))
  <2>1. y \in Descendants(t.kids, e) <=> d \in {e} \cup Descendants(t.kids, e)
    BY <1>1, ForestParent
  <2>2. NULL \notin {e} \cup Descendants(t.kids, e)
    BY <1>1, DescendantsDef, TreeFacts, ForestFacts
  <2> QED  BY <2>1, <2>2 DEF Subtree
<1> DEFINE P == {y \in Content(t) : y \in Subtree(t, e) <=> IsPrefix(old, NamesTo(t, y))}
<1>6. ClosedFrom(t.kids, NULL, P)
  <2>1. ASSUME NEW d \in Places, d = NULL \/ d \in P, NEW y \in ToSet(t.kids[d]) PROVE y \in P
    <3>1. y \in Content(t)
      BY <1>2 DEF InTree
    <3> QED  BY <1>4, <1>5, <2>1, <3>1
  <2>2. \A y \in P : y \in Places
    BY <1>1
  <2> HIDE DEF P
  <2> QED  BY <1>1, <2>1, <2>2 DEF ClosedFrom
<1>7. Content(t) \subseteq P
  <2> HIDE DEF P
  <2> QED  BY <1>1, <1>6, DescendantsInduct DEF Content
<1> QED  BY <1>7 DEF old

(***************************************************************************)
(* The entries asked for.                                                  *)
(***************************************************************************)
LEMMA FoundAt ==
    ASSUME NEW t, GoodTree(t), NEW path
    PROVE  /\ ba_get(t, path) = NULL => {e \in Content(t) : t.info[e].path = path} = {}
           /\ ba_get(t, path) # NULL => /\ ba_get(t, path) \in Content(t)
                                        /\ t.info[ba_get(t, path)].path = path
                                        /\ {e \in Content(t) : t.info[e].path = path} = {ba_get(t, path)}
<1>1. /\ TreeOK(t) /\ \A e \in Content(t) : t.info[e].path # NULL
      /\ \A x, y \in Content(t) : NamesTo(t, x) = NamesTo(t, y) => x = y
  BY GoodFacts
<1>2. PICK e : e = ba_get(t, path)
  OBVIOUS
<1>3. e # NULL => e \in Content(t) /\ t.info[e].path \in {path, NULL}
  BY <1>1, <1>2, FoundFacts
<1>4. (\E x \in Content(t) : t.info[x].path \in {path, NULL}) => e # NULL
  BY <1>1, <1>2, FoundFacts
<1>5. ASSUME NEW x \in Content(t), NEW y \in Content(t), t.info[x].path = t.info[y].path PROVE x = y
  <2>1. NamesTo(t, x) = NamesTo(t, y)
    BY <1>5 DEF GoodTree
  <2> QED  BY <1>1, <2>1
<1> QED  BY <1>1, <1>2, <1>3, <1>4, <1>5

\* The entries of s are in it once, and after the directory they are in.
InWalkOrder(kids, s) ==
    /\ Once(s)
    /\ \A i \in 1 .. Len(s) : \A c \in ToSet(s) :
          s[i] \in ToSet(kids[c]) => \E j \in 1 .. Len(s) : j < i /\ s[j] = c

LEMMA WholeWalk ==
    ASSUME NEW t, GoodTree(t)
    PROVE  \E s \in Seq(Entries) : /\ s = Preorder(t.kids, NULL) /\ ToSet(s) = Content(t)
                                   /\ InWalkOrder(t.kids, s)
<1>1. /\ Forest(t.kids) /\ Lists(t.kids) /\ Founded(t.kids) /\ Unrepeated(t.kids)
      /\ NULL \in Places /\ NULL \notin Content(t)
      /\ \A e \in Content(t) : e \in Places
  BY GoodFacts, ForestFacts DEF GoodTree
<1>2. PICK s \in Seq(Entries) : s = Preorder(t.kids, NULL)
  BY <1>1, PreorderDef
<1>3. ToSet(s) = Content(t)
  BY <1>2 DEF Content, Descendants
<1>4. Once(s) /\ AfterDirs(t.kids, {NULL}, s)
  BY <1>1, <1>2, PreorderOrder
<1>5. InWalkOrder(t.kids, s)
  BY <1>1, <1>3, <1>4 DEF InWalkOrder, AfterDirs
<1> QED  BY <1>2, <1>3, <1>5

LEMMA BelowWalk ==
    ASSUME NEW t, GoodTree(t), NEW e \in Content(t)
    PROVE  \E s \in Seq(Entries) : /\ s = <<e>> \o Preorder(t.kids, e) /\ ToSet(s) = Subtree(t, e)
                                   /\ InWalkOrder(t.kids, s) /\ Len(s) > 0 /\ s[1] = e
<1>1. /\ Forest(t.kids) /\ Lists(t.kids) /\ Founded(t.kids) /\ Unrepeated(t.kids)
      /\ e \in Places /\ e \in Entries
  BY GoodFacts, ForestFacts DEF GoodTree
<1>2. PICK b \in Seq(Entries) : b = Preorder(t.kids, e)
  BY <1>1, PreorderDef
<1>3. ToSet(b) = Descendants(t.kids, e) /\ e \notin ToSet(b)
  BY <1>1, <1>2, DescendantsClosed DEF Descendants
<1>4. Once(b) /\ AfterDirs(t.kids, {e}, b)
  BY <1>1, <1>2, PreorderOrder
<1>5. PICK a \in Seq(Entries) : a = <<e>> /\ Len(a) = 1 /\ a[1] = e
  <2>1. <<e>> \in Seq(Entries) /\ Len(<<e>>) = 1 /\ <<e>>[1] = e
    BY <1>1
  <2> QED  BY <2>1
<1>6. ToSet(a) = {e}
  <2>1. \A x : x \in ToSet(a) <=> \E i \in 1 .. Len(a) : a[i] = x
    BY SetOfSeq
  <2>2. 1 .. Len(a) = {1}
    BY <1>5
  <2> QED  BY <1>5, <2>1, <2>2
<1>7. Once(a \o b)
  <2>1. Once(a)
    BY <1>5 DEF Once
  <2> QED  BY <1>3, <1>4, <1>6, <2>1, OnceConcat
<1>8. PICK s \in Seq(Entries) :
         /\ s = a \o b /\ Len(s) = Len(a) + Len(b)
         /\ \A i \in 1 .. Len(a) : i \in 1 .. Len(s) /\ s[i] = a[i]
         /\ \A i \in 1 .. Len(b) : Len(a) + i \in 1 .. Len(s) /\ s[Len(a) + i] = b[i]
         /\ \A i \in 1 .. Len(s) : i \in 1 .. Len(a) \/ i - Len(a) \in 1 .. Len(b)
  BY ConcatElements
<1>9. ToSet(s) = Subtree(t, e)
  <2>1. ToSet(a \o b) = ToSet(a) \cup ToSet(b)
    BY ConcatSet
  <2> QED  BY <1>3, <1>6, <1>8, <2>1 DEF Subtree
<1>10. Len(s) > 0 /\ 1 \in 1 .. Len(s) /\ s[1] = e
  <2>1. 1 \in 1 .. Len(a)
    BY <1>5
  <2> QED  BY <1>5, <1>8, <2>1
<1>11. ASSUME NEW i \in 1 .. Len(s), NEW c \in ToSet(s), s[i] \in ToSet(t.kids[c])
       PROVE  \E j \in 1 .. Len(s) : j < i /\ s[j] = c
  <2>1. c \in Places /\ c \in Subtree(t, e)
    <3>1. Descendants(t.kids, e) \subseteq Entries
      BY <1>1, DescendantsDef
    <3> QED  BY <1>1, <1>9, <3>1 DEF Subtree, Places
  <2>2. s[i] # e
    <3>1. s[i] = e => e \in Descendants(t.kids, e)
      BY <1>1, <1>11, <2>1, ForestParent DEF Subtree
    <3> QED  BY <1>1, <3>1, DescendantsClosed
  <2>3. i # 1
    BY <1>10, <2>2
  <2>4. i - 1 \in 1 .. Len(b) /\ s[i] = b[i - 1]
    <3>1. Len(a) + (i - 1) = i /\ Len(a) = 1
      BY <1>5
    <3>2. i - 1 \in 1 .. Len(b)
      BY <1>5, <1>8, <2>3
    <3> QED  BY <1>8, <3>1, <3>2
  <2>5. CASE c = e
    BY <1>10, <2>3, <2>5
  <2>6. CASE c # e
    <3>1. PICK k \in 1 .. Len(b) : k < i - 1 /\ b[k] = c
      BY <1>4, <1>11, <2>1, <2>4, <2>6 DEF AfterDirs
    <3>2. 1 + k \in 1 .. Len(s) /\ s[1 + k] = c /\ 1 + k < i
      BY <1>5, <1>8, <3>1
    <3> QED  BY <3>2
  <2> QED  BY <2>5, <2>6
<1>12. InWalkOrder(t.kids, s)
  BY <1>7, <1>8, <1>11 DEF InWalkOrder
<1> QED  BY <1>2, <1>5, <1>8, <1>9, <1>10, <1>12

(***************************************************************************)
(* What removing and moving does to the items of an archive.               *)
(***************************************************************************)
\* The end of s from n on.
LEMMA SliceFrom ==
    ASSUME NEW S, NEW s \in Seq(S), NEW n \in 1 .. Len(s) + 1
    PROVE  /\ SubSeq(s, n, Len(s)) \in Seq(S) /\ Len(SubSeq(s, n, Len(s))) = Len(s) - n + 1
           /\ \A i \in 1 .. Len(s) - n + 1 : SubSeq(s, n, Len(s))[i] = s[n + i - 1]
<1>1. Len(s) \in Nat /\ n \in Int /\ n <= Len(s) + 1 /\ 1 <= n
  OBVIOUS
<1>2. \A i \in n .. Len(s) : s[i] \in S
  BY <1>1
<1>3. /\ SubSeq(s, n, Len(s)) \in Seq(S)
      /\ Len(SubSeq(s, n, Len(s))) = IF n <= Len(s) THEN Len(s) - n + 1 ELSE 0
      /\ \A i \in 1 .. Len(s) - n + 1 : SubSeq(s, n, Len(s))[i] = s[n + i - 1]
  BY <1>1, <1>2, SubSeqProperties
<1>4. (IF n <= Len(s) THEN Len(s) - n + 1 ELSE 0) = Len(s) - n + 1
  BY <1>1
<1> QED  BY <1>3, <1>4

LEMMA SliceEnd ==
    ASSUME NEW S, NEW s \in Seq(S), NEW e \in S, NEW n \in 1 .. Len(s) + 1, NEW u, u = Append(s, e)
    PROVE  /\ SubSeq(s, n, Len(s)) \in Seq(S)
           /\ SubSeq(u, n, Len(u)) = Append(SubSeq(s, n, Len(s)), e)
<1>1. /\ u \in Seq(S) /\ Len(u) = Len(s) + 1 /\ u[Len(u)] = e
      /\ \A i \in 1 .. Len(s) : u[i] = s[i]
  BY AppendFacts
<1>2. Len(s) \in Nat /\ n \in Int /\ n <= Len(s) + 1 /\ 1 <= n
  OBVIOUS
<1> DEFINE m == Len(s) - n + 1
<1>3. m \in Nat /\ Len(u) - n + 1 = m + 1 /\ n <= Len(u) /\ n \in 1 .. Len(u) + 1
  BY <1>1, <1>2
<1>4. PICK a \in Seq(S) : /\ a = SubSeq(s, n, Len(s)) /\ Len(a) = m
                          /\ \A i \in 1 .. m : a[i] = s[n + i - 1]
  <2>1. /\ SubSeq(s, n, Len(s)) \in Seq(S) /\ Len(SubSeq(s, n, Len(s))) = Len(s) - n + 1
        /\ \A i \in 1 .. Len(s) - n + 1 : SubSeq(s, n, Len(s))[i] = s[n + i - 1]
    BY SliceFrom
  <2> QED  BY <2>1
<1>5. PICK b \in Seq(S) : /\ b = SubSeq(u, n, Len(u)) /\ Len(b) = m + 1
                          /\ \A i \in 1 .. m + 1 : b[i] = u[n + i - 1]
  <2>1. \A x \in Seq(S) : n \in 1 .. Len(x) + 1 =>
           /\ SubSeq(x, n, Len(x)) \in Seq(S) /\ Len(SubSeq(x, n, Len(x))) = Len(x) - n + 1
           /\ \A i \in 1 .. Len(x) - n + 1 : SubSeq(x, n, Len(x))[i] = x[n + i - 1]
    BY SliceFrom
  <2>2. /\ SubSeq(u, n, Len(u)) \in Seq(S) /\ Len(SubSeq(u, n, Len(u))) = Len(u) - n + 1
        /\ \A i \in 1 .. Len(u) - n + 1 : SubSeq(u, n, Len(u))[i] = u[n + i - 1]
    BY <1>1, <1>3, <2>1
  <2> QED  BY <1>3, <2>2
<1>6. PICK c \in Seq(S) : /\ c = Append(a, e) /\ Len(c) = m + 1 /\ c[m + 1] = e
                          /\ \A i \in 1 .. m : c[i] = a[i]
  <2>1. /\ Append(a, e) \in Seq(S) /\ Len(Append(a, e)) = Len(a) + 1
        /\ Append(a, e)[Len(a) + 1] = e
        /\ \A i \in 1 .. Len(a) : Append(a, e)[i] = a[i]
    BY AppendProperties
  <2> QED  BY <1>4, <2>1
<1>7. ASSUME NEW i \in 1 .. m + 1 PROVE b[i] = c[i]
  <2>1. CASE i = m + 1
    <3>1. n + i - 1 = Len(u)
      BY <1>3, <2>1
    <3> QED  BY <1>1, <1>5, <1>6, <2>1, <3>1
  <2>2. CASE i # m + 1
    <3>1. i \in 1 .. m /\ n + i - 1 \in 1 .. Len(s)
      BY <1>2, <1>3, <2>2
    <3> QED  BY <1>1, <1>4, <1>5, <1>6, <3>1
  <2> QED  BY <2>1, <2>2
<1>8. b = c
  <2> HIDE DEF m
  <2> QED  BY <1>5, <1>6, <1>7, SeqEqual
<1> QED  BY <1>4, <1>5, <1>6, <1>8

\* Names of src and what is below it, after src was moved to a directory with the
\* names into.
Renamed(into, old, names) == into \o SubSeq(names, Len(old), Len(names))

LEMMA RenamedItself ==
    \A S : \A into \in Seq(S), a \in Seq(S), c \in S :
       Renamed(into, Append(a, c), Append(a, c)) = Append(into, c)
<1> TAKE S
<1> TAKE into \in Seq(S), a \in Seq(S), c \in S
<1>1. PICK u : u = Append(a, c)
  OBVIOUS
<1>2. Len(u) = Len(a) + 1
  BY <1>1, AppendFacts
<1>3. PICK n \in 1 .. Len(a) + 1 : n = Len(u)
  BY <1>2
<1>4. SubSeq(u, n, Len(u)) = Append(SubSeq(a, n, Len(a)), c)
  BY <1>1, SliceEnd
<1>5. SubSeq(a, n, Len(a)) = <<>>
  <2>1. Len(a) < n /\ n \in Int /\ Len(a) \in Int
    BY <1>2, <1>3
  <2> QED  BY <2>1, SubSeqEmpty
<1>6. SubSeq(u, Len(u), Len(u)) = <<c>>
  BY <1>3, <1>4, <1>5
<1>7. Renamed(into, u, u) = Append(into, c)
  BY <1>6, ConcatAppend DEF Renamed
<1> QED  BY <1>1, <1>7

LEMMA RenamedAppend ==
    \A S : \A into \in Seq(S), old \in Seq(S), a \in Seq(S), c \in S :
       old # <<>> /\ IsPrefix(old, a)
         => Renamed(into, old, Append(a, c)) = Append(Renamed(into, old, a), c)
<1> TAKE S
<1> TAKE into \in Seq(S), old \in Seq(S), a \in Seq(S), c \in S
<1>1. PICK u : u = Append(a, c)
  OBVIOUS
<1> SUFFICES ASSUME old # <<>>, IsPrefix(old, a)
             PROVE  Renamed(into, old, u) = Append(Renamed(into, old, a), c)
  BY <1>1
<1>2. Len(old) <= Len(a) /\ Len(old) >= 1
  BY PrefixElements
<1>3. PICK n \in 1 .. Len(a) + 1 : n = Len(old)
  BY <1>2
<1>4. SubSeq(u, n, Len(u)) = Append(SubSeq(a, n, Len(a)), c) /\ SubSeq(a, n, Len(a)) \in Seq(S)
  BY <1>1, SliceEnd
<1>5. PICK b \in Seq(S) : b = SubSeq(a, n, Len(a))
  BY <1>4
<1>6. into \o Append(b, c) = Append(into \o b, c)
  BY ConcatAppend
<1> QED  BY <1>3, <1>4, <1>5, <1>6 DEF Renamed

\* The names there are after a move to directory dir.
NamesMoved(t, src, dir, u) ==
    \A x \in Content(t) :
       NamesTo(u, x) = IF x \in Subtree(t, src)
                       THEN Renamed(NamesTo(t, dir), NamesTo(t, src), NamesTo(t, x))
                       ELSE NamesTo(t, x)

LEMMA MovedNamesAll ==
    ASSUME NEW t, GoodTree(t), NEW src, NEW dir, dir # NULL, NEW u, IsMoved(t, src, dir, u)
    PROVE  NamesMoved(t, src, dir, u)
<1>1. /\ TreeOK(t) /\ src \in Content(t) /\ dir \in Dirs(t) /\ dir \notin Subtree(t, src)
      /\ dir \in Content(t)
  BY DEF IsMoved, Dirs
<1>2. /\ TreeOK(u) /\ u.info = t.info /\ Content(u) = Content(t)
      /\ ToSet(u.kids[dir]) = ToSet(t.kids[dir]) \cup {src}
      /\ \A c \in Places : c # dir => ToSet(u.kids[c]) = ToSet(t.kids[c]) \ {src}
  BY MovedTree DEF MovesTo
<1>3. \A x \in Content(t) \ Subtree(t, src) : NamesTo(u, x) = NamesTo(t, x)
  BY MovedNames
<1>4. /\ Forest(t.kids) /\ Lists(t.kids) /\ Founded(t.kids)
      /\ \A e \in Content(t) : e \in Entries /\ e \in Places /\ e # NULL /\ NamesTo(t, e) \in Seq(Names)
  BY GoodFacts, ForestFacts
<1>5. \A d \in Places : \A e \in ToSet(t.kids[d]) : InTree(t, e, d, NamesOf(t, d))
  BY GoodParent
<1>6. \A d \in Places : \A e \in ToSet(u.kids[d]) : NamesTo(u, e) = Append(NamesOf(u, d), t.info[e].name)
  BY <1>2, NamesDef, TreeFacts
<1>7. PICK into \in Seq(Names), old \in Seq(Names) : into = NamesTo(t, dir) /\ old = NamesTo(t, src) /\ old # <<>>
  <2>1. \E d, n : InTree(t, src, d, n)
    BY <1>1, GoodParent
  <2> QED  BY <1>1, <1>4, <2>1 DEF InTree
<1>8. ASSUME NEW y, NEW d, NEW n, InTree(t, y, d, n)
      PROVE  /\ y = src => Renamed(into, old, NamesTo(t, y)) = Append(into, t.info[y].name)
             /\ d # NULL /\ d \in Subtree(t, src)
                  => Renamed(into, old, NamesTo(t, y))
                       = Append(Renamed(into, old, NamesTo(t, d)), t.info[y].name)
  <2>1. PICK a, c, v : /\ a \in Seq(Names) /\ a = n /\ c \in Names /\ c = t.info[y].name
                       /\ v = NamesTo(t, y) /\ v = Append(a, c)
    BY <1>8 DEF InTree
  <2>2. /\ v = old => Renamed(into, old, v) = Append(into, c)
        /\ IsPrefix(old, a) => Renamed(into, old, v) = Append(Renamed(into, old, a), c)
    <3>1. v = Append(a, c) /\ old # <<>>
      BY <1>7, <2>1
    <3>2. v = old => Renamed(into, old, v) = Append(into, c)
      <4>1. Renamed(into, Append(a, c), Append(a, c)) = Append(into, c)
        BY <1>7, <2>1, RenamedItself
      <4> QED  BY <3>1, <4>1
    <3>3. IsPrefix(old, a) => Renamed(into, old, v) = Append(Renamed(into, old, a), c)
      <4>1. IsPrefix(old, a) => Renamed(into, old, Append(a, c)) = Append(Renamed(into, old, a), c)
        BY <1>7, <2>1, <3>1, RenamedAppend
      <4> QED  BY <3>1, <4>1
    <3> QED  BY <3>2, <3>3
  <2>3. ASSUME d # NULL, d \in Subtree(t, src) PROVE a = NamesTo(t, d) /\ IsPrefix(old, a)
    <3>1. d \in Content(t)
      BY <1>8, <2>3 DEF InTree, Dirs
    <3>2. a = NamesTo(t, d)
      BY <1>8, <2>1, <2>3 DEF InTree, NamesOf
    <3> QED  BY <1>1, <1>7, <2>3, <3>1, <3>2, BelowByNames
  <2> QED  BY <1>7, <2>1, <2>2, <2>3
<1>9. NamesTo(u, src) = Renamed(into, old, NamesTo(t, src))
  <2>1. PICK d, n : InTree(t, src, d, n)
    BY <1>1, GoodParent
  <2>2. src \in ToSet(u.kids[dir]) /\ dir \in Places
    BY <1>1, <1>2, <1>4
  <2>3. NamesTo(u, src) = Append(NamesTo(u, dir), t.info[src].name)
    BY <1>1, <1>6, <2>2 DEF NamesOf
  <2> QED  BY <1>1, <1>3, <1>7, <1>8, <2>1, <2>3
<1> DEFINE P == {y \in Content(t) : NamesTo(u, y) = Renamed(into, old, NamesTo(t, y))}
<1>10. ASSUME NEW d \in Subtree(t, src), d = src \/ d \in P, NEW y \in ToSet(t.kids[d]) PROVE y \in P
  <2>1. d \in Content(t) /\ d \in P
    BY <1>1, <1>9, <1>10
  <2>2. d \in Places /\ d # NULL /\ d # dir
    BY <1>1, <1>4, <2>1
  <2>3. InTree(t, y, d, NamesOf(t, d))
    BY <1>5, <2>2
  <2>4. y # src
    <3>1. y \in Descendants(t.kids, src)
      BY <1>1, <1>4, <2>2, ForestParent DEF Subtree
    <3> QED  BY <1>1, <1>4, <3>1, DescendantsClosed
  <2>5. y \in ToSet(u.kids[d])
    BY <1>2, <2>2, <2>4
  <2>6. NamesTo(u, y) = Append(NamesTo(u, d), t.info[y].name)
    BY <1>6, <2>2, <2>5 DEF NamesOf
  <2>7. NamesTo(u, d) = Renamed(into, old, NamesTo(t, d))
    BY <2>1
  <2>8. y \in Content(t)
    BY <2>3 DEF InTree
  <2> QED  BY <1>8, <2>2, <2>3, <2>6, <2>7, <2>8
<1>11. Descendants(t.kids, src) \subseteq P
  <2> HIDE DEF P
  <2>1. ClosedFrom(t.kids, src, P)
    BY <1>10 DEF ClosedFrom, Subtree
  <2> QED  BY <1>1, <1>4, <2>1, DescendantsInduct
<1>12. \A x \in Subtree(t, src) : NamesTo(u, x) = Renamed(into, old, NamesTo(t, x))
  BY <1>9, <1>11 DEF Subtree
<1> QED  BY <1>3, <1>7, <1>12 DEF NamesMoved

\* The items of a good tree.
ItemOf(t, x) == <<NamesTo(t, x), t.info[x].type, x>>

LEMMA ItemsRemoved ==
    ASSUME NEW t, GoodTree(t), NEW e \in Content(t), NEW u, u = Removed(t, e)
    PROVE  /\ TreeOK(u)
           /\ Items(u) = {i \in Items(t) : ~ IsPrefix(NamesTo(t, e), i[1])}
<1>1. IsRemoved(t, e, u) /\ Untyped(t) = {}
  BY DEF IsRemoved, GoodTree
<1>2. /\ TreeOK(u) /\ Content(u) = Content(t) \ Subtree(t, e) /\ Within(t, u)
      /\ \A x \in Content(u) : u.info[x] = t.info[x]
  BY <1>1, RemovedTree DEF RemovesFrom
<1>3. \A x \in Content(u) : NamesTo(u, x) = NamesTo(t, x)
  BY <1>2, WithinNames
<1>4. Untyped(u) = {}
  BY <1>1, <1>2 DEF Untyped
<1>5. \A x \in Content(t) : x \in Content(u) <=> ~ IsPrefix(NamesTo(t, e), NamesTo(t, x))
  BY <1>2, BelowByNames
<1>6. Items(u) = {ItemOf(t, x) : x \in Content(u)}
  BY <1>2, <1>3, <1>4 DEF Items, ItemOf
<1>7. Items(t) = {ItemOf(t, x) : x \in Content(t)}
  BY <1>1 DEF Items, ItemOf
<1>8. \A x : ItemOf(t, x)[1] = NamesTo(t, x)
  BY DEF ItemOf
<1> HIDE DEF ItemOf
<1>9. Content(u) \subseteq Content(t)
  BY <1>2
<1> QED  BY <1>2, <1>5, <1>6, <1>7, <1>8, <1>9

\* ItemsMoved, entry by entry.
MovedTo(d) == IF d \in Dirs(Box) THEN NamesTo(Box, d) ELSE Front(NamesTo(Box, d))

RenamedItem(e, d, x) ==
    <<Renamed(MovedTo(d), NamesTo(Box, e), NamesTo(Box, x)), Box.info[x].type, x>>

LEMMA ItemsOfBox ==
    ASSUME GoodTree(Box)
    PROVE  Items(Box) = {ItemOf(Box, x) : x \in Content(Box)}
BY DEF GoodTree, Items, ItemOf

LEMMA ItemParts ==
    /\ \A x : /\ ItemOf(Box, x)[1] = NamesTo(Box, x) /\ ItemOf(Box, x)[2] = Box.info[x].type
              /\ ItemOf(Box, x)[3] = x
BY DEF ItemOf

LEMMA ItemsMovedAre ==
    ASSUME GoodTree(Box), NEW e \in Content(Box), NEW d
    PROVE  ItemsMoved(e, d)
             = {ItemOf(Box, x) : x \in {y \in Content(Box) \ Subtree(Box, e) : y = d => d \in Dirs(Box)}}
                 \cup {RenamedItem(e, d, x) : x \in Subtree(Box, e)}
<1> DEFINE old == NamesTo(Box, e)
           Below(i) == IsPrefix(old, i[1])
           Kept == {i \in Items(Box) : ~ Below(i) /\ (i[3] = d => d \in Dirs(Box))}
           Moved == {<<Renamed(MovedTo(d), old, i[1]), i[2], i[3]>> : i \in {j \in Items(Box) : Below(j)}}
<1>1. ItemsMoved(e, d) = Kept \cup Moved
  BY DEF ItemsMoved, Renamed, MovedTo
<1>2. Subtree(Box, e) \subseteq Content(Box)
  <2>1. /\ Content(Box) = Linked(Box.kids) /\ Forest(Box.kids) /\ e \in Places
    BY GoodFacts
  <2> QED  BY <2>1, ForestFacts DEF Subtree
<1>3. \A x \in Content(Box) : Below(ItemOf(Box, x)) <=> x \in Subtree(Box, e)
  BY ItemParts, BelowByNames
<1>4. Kept = {ItemOf(Box, x) : x \in {y \in Content(Box) \ Subtree(Box, e) : y = d => d \in Dirs(Box)}}
  <2> HIDE DEF Below
  <2> QED  BY <1>3, ItemsOfBox, ItemParts
<1>5. Moved = {RenamedItem(e, d, x) : x \in Subtree(Box, e)}
  <2>1. {j \in Items(Box) : Below(j)} = {ItemOf(Box, x) : x \in Subtree(Box, e)}
    <3> HIDE DEF Below
    <3> QED  BY <1>2, <1>3, ItemsOfBox
  <2>2. \A x : RenamedItem(e, d, x) = <<Renamed(MovedTo(d), old, ItemOf(Box, x)[1]),
                                        ItemOf(Box, x)[2], ItemOf(Box, x)[3]>>
    BY ItemParts DEF RenamedItem
  <2> HIDE DEF Below, old
  <2> QED  BY <2>1, <2>2
<1> QED  BY <1>1, <1>4, <1>5

LEMMA ItemsMovedInto ==
    ASSUME GoodTree(Box), NEW src \in Content(Box), NEW dir \in Dirs(Box),
           dir \notin Subtree(Box, src), NEW u, u = MovedInto(Box, src, dir)
    PROVE  /\ TreeOK(u) /\ Items(u) = ItemsMoved(src, dir)
           /\ \A x \in Subtree(Box, src) : u.info[x] = Box.info[x]
<1>1. TreeOK(Box) /\ Untyped(Box) = {} /\ NULL \notin Content(Box) /\ dir \in Content(Box)
  BY GoodFacts DEF GoodTree, Dirs
<1>2. IsMoved(Box, src, dir, u)
  BY <1>1 DEF IsMoved
<1>3. TreeOK(u) /\ Content(u) = Content(Box) /\ u.info = Box.info
  BY <1>2, MovedTree DEF MovesTo
<1>4. NamesMoved(Box, src, dir, u)
  BY <1>1, <1>2, MovedNamesAll
<1>5. Untyped(u) = {}
  BY <1>1, <1>3 DEF Untyped
<1>6. Items(u) = {ItemOf(u, x) : x \in Content(Box)}
  BY <1>3, <1>5 DEF Items, ItemOf
<1>7. \A x \in Content(Box) : ItemOf(u, x) = IF x \in Subtree(Box, src) THEN RenamedItem(src, dir, x)
                                              ELSE ItemOf(Box, x)
  BY <1>3, <1>4 DEF NamesMoved, ItemOf, RenamedItem, MovedTo
<1>8. Subtree(Box, src) \subseteq Content(Box)
  <2>1. /\ Content(Box) = Linked(Box.kids) /\ Forest(Box.kids) /\ src \in Places
    BY GoodFacts
  <2> QED  BY <2>1, ForestFacts DEF Subtree
<1>9. ItemsMoved(src, dir) = {ItemOf(Box, x) : x \in Content(Box) \ Subtree(Box, src)}
                               \cup {RenamedItem(src, dir, x) : x \in Subtree(Box, src)}
  <2>1. {y \in Content(Box) \ Subtree(Box, src) : y = dir => dir \in Dirs(Box)}
           = Content(Box) \ Subtree(Box, src)
    OBVIOUS
  <2> QED  BY <2>1, ItemsMovedAre
<1> QED  BY <1>3, <1>6, <1>7, <1>8, <1>9

LEMMA ItemsMovedOnto ==
    ASSUME GoodTree(Box), NEW src \in Files(Box), NEW file \in Files(Box), src # file,
           NEW dir, dir = Parent(Box, file), dir # NULL, NEW u, u = MovedOnto(Box, src, file)
    PROVE  /\ TreeOK(u) /\ Items(u) = ItemsMoved(src, file)
           /\ \A x \in Subtree(Box, src) : u.info[x] = Box.info[x]
<1>1. /\ TreeOK(Box) /\ Untyped(Box) = {} /\ src \in Content(Box) /\ file \in Content(Box)
      /\ file \notin Dirs(Box) /\ src \notin Dirs(Box)
      /\ Forest(Box.kids) /\ Lists(Box.kids) /\ Founded(Box.kids)
      /\ src \in Entries /\ file \in Entries /\ src \in Places /\ file \in Places
  BY GoodFacts, ForestFacts DEF GoodTree, Files, Dirs
<1>2. \A e \in Files(Box) : Box.kids[e] = <<>>
  <2>1. \A e \in Files(Box) : e \in Entries /\ Box.info[e].type # "dir"
    BY GoodFacts DEF Files
  <2> QED  BY <1>1, <2>1 DEF TreeOK
<1>3. dir \in Dirs(Box) /\ Front(NamesTo(Box, file)) = NamesTo(Box, dir)
  <2>1. PICK d, n : InTree(Box, file, d, n)
    BY <1>1, GoodParent
  <2> QED  BY <2>1 DEF InTree, NamesOf
<1>4. Subtree(Box, src) = {src}
  <2>1. Descendants(Box.kids, src) = {}
    BY <1>1, <1>2, DescendantsDef, SetOfEmpty
  <2> QED  BY <2>1 DEF Subtree
<1>5. PICK v : v = MovedInto(Box, src, dir) /\ u = Removed(v, file)
  BY DEF MovedOnto
<1>6. IsMoved(Box, src, dir, v)
  BY <1>1, <1>3, <1>4, <1>5 DEF IsMoved
<1>7. /\ TreeOK(v) /\ Content(v) = Content(Box) /\ v.info = Box.info
      /\ \A c \in Places : c # dir => ToSet(v.kids[c]) = ToSet(Box.kids[c]) \ {src}
  BY <1>6, MovedTree DEF MovesTo
<1>8. NamesMoved(Box, src, dir, v)
  BY <1>6, MovedNamesAll
<1>9. IsRemoved(v, file, u)
  BY <1>1, <1>5, <1>7 DEF IsRemoved
<1>10. /\ TreeOK(u) /\ Content(u) = Content(v) \ Subtree(v, file) /\ Within(v, u)
       /\ \A x \in Content(u) : u.info[x] = v.info[x]
  BY <1>9, RemovedTree DEF RemovesFrom
<1>11. Subtree(v, file) = {file}
  <2>1. ToSet(v.kids[file]) = {}
    BY <1>1, <1>2, <1>3, <1>7, SetOfEmpty
  <2>2. Lists(v.kids) /\ Founded(v.kids)
    BY <1>7, TreeFacts, ForestFacts
  <2>3. Descendants(v.kids, file) = {}
    BY <1>1, <2>1, <2>2, DescendantsDef
  <2> QED  BY <2>3 DEF Subtree
<1>12. Untyped(u) = {}
  BY <1>1, <1>7, <1>10 DEF Untyped
<1>13. \A x \in Content(u) : NamesTo(u, x) = NamesTo(v, x)
  BY <1>10, WithinNames
<1>14. Items(u) = {ItemOf(u, x) : x \in Content(Box) \ {file}}
  BY <1>7, <1>10, <1>11, <1>12 DEF Items, ItemOf
<1>15. \A x \in Content(Box) \ {file} :
          ItemOf(u, x) = IF x = src THEN RenamedItem(src, file, x) ELSE ItemOf(Box, x)
  <2>1. MovedTo(file) = NamesTo(Box, dir)
    BY <1>1, <1>3 DEF MovedTo
  <2>2. \A x \in Content(Box) \ {file} : x \in Content(u)
    BY <1>7, <1>10, <1>11
  <2> QED  BY <1>4, <1>7, <1>8, <1>10, <1>13, <2>1, <2>2 DEF NamesMoved, ItemOf, RenamedItem
<1>16. ItemsMoved(src, file) = {ItemOf(Box, x) : x \in Content(Box) \ {src, file}}
                                 \cup {RenamedItem(src, file, x) : x \in {src}}
  <2>1. {y \in Content(Box) \ Subtree(Box, src) : y = file => file \in Dirs(Box)}
           = Content(Box) \ {src, file}
    BY <1>1, <1>4
  <2> QED  BY <1>1, <1>4, <2>1, ItemsMovedAre
<1>17. \A x \in Subtree(Box, src) : u.info[x] = Box.info[x]
  BY <1>1, <1>4, <1>7, <1>10, <1>11
<1>18. Items(u) = ItemsMoved(src, file)
  BY <1>1, <1>14, <1>15, <1>16
<1> QED  BY <1>10, <1>17, <1>18

LEMMA PrefixLonger ==
    ASSUME NEW S, NEW a \in Seq(S), NEW b \in Seq(S), NEW w \in Seq(S), IsPrefix(a, b)
    PROVE  IsPrefix(a, b \o w)
<1>1. Len(a) <= Len(b) /\ \A i \in 1 .. Len(a) : a[i] = b[i]
  BY PrefixElements
<1>2. PICK c \in Seq(S) :
         /\ c = b \o w /\ Len(c) = Len(b) + Len(w)
         /\ \A i \in 1 .. Len(b) : i \in 1 .. Len(c) /\ c[i] = b[i]
         /\ \A i \in 1 .. Len(w) : Len(b) + i \in 1 .. Len(c) /\ c[Len(b) + i] = w[i]
         /\ \A i \in 1 .. Len(c) : i \in 1 .. Len(b) \/ i - Len(b) \in 1 .. Len(w)
  BY ConcatElements
<1>3. Len(a) <= Len(c) /\ \A i \in 1 .. Len(a) : a[i] = c[i]
  BY <1>1, <1>2
<1>4. IsPrefix(a, c)
  BY <1>3, PrefixElements
<1> QED  BY <1>2, <1>4

\* The path of what is below an entry begins with the entry's path.
LEMMA PathsBelow ==
    ASSUME NEW t, GoodTree(t), NEW e \in Content(t), NEW x \in Subtree(t, e)
    PROVE  IsPrefix(t.info[e].path, t.info[x].path)
<1>1. /\ TreeOK(t) /\ Forest(t.kids) /\ Lists(t.kids) /\ Founded(t.kids)
      /\ \A y \in Content(t) : /\ y \in Entries /\ y \in Places /\ y # NULL
                               /\ t.info[y].path \in Seq(Parts)
                               /\ t.info[y].name \in Names /\ t.info[y].type \in {"file", "dir"}
  BY GoodFacts, ForestFacts
<1>2. PICK p \in Seq(Parts) : p = t.info[e].path /\ IsPrefix(p, p)
  BY <1>1, PrefixSelf
<1> DEFINE P == {y \in Content(t) : IsPrefix(p, t.info[y].path)}
<1>3. ASSUME NEW d \in P, NEW y \in ToSet(t.kids[d]) PROVE y \in P
  <2>1. d \in Places /\ d # NULL /\ t.info[d].path \in Seq(Parts) /\ IsPrefix(p, t.info[d].path)
    BY <1>1
  <2>2. y \in Content(t)
    BY <2>1, GoodParent DEF InTree
  <2>3. PICK b \in Seq(Parts), n \in Names, type \in {"file", "dir"} :
           /\ b = t.info[d].path /\ n = t.info[y].name /\ type = t.info[y].type
           /\ t.info[y].path = FormedPath(b, n, type, "loaded")
    BY <1>1, <2>1, <2>2 DEF GoodTree, PathOf
  <2>4. PICK w \in Seq(Parts) : t.info[y].path = b \o w
    <3>1. <<n>> \in Seq(Parts) /\ <<n, SEP>> \in Seq(Parts)
      BY DEF Parts
    <3>2. CASE type = "file"
      BY <2>3, <3>1, <3>2 DEF FormedPath
    <3>3. CASE type = "dir"
      BY <2>3, <3>1, <3>3 DEF FormedPath
    <3> QED  BY <3>2, <3>3
  <2>5. IsPrefix(p, b \o w)
    BY <2>1, <2>3, PrefixLonger
  <2> QED  BY <2>2, <2>4, <2>5
<1>4. e \in P
  BY <1>2
<1>5. Descendants(t.kids, e) \subseteq P
  <2> HIDE DEF P
  <2>1. ClosedFrom(t.kids, e, P)
    BY <1>3, <1>4 DEF ClosedFrom
  <2> QED  BY <1>1, <2>1, DescendantsInduct
<1> QED  BY <1>2, <1>4, <1>5 DEF Subtree

(***************************************************************************)
(* Options: what the variables of main() are after n of them.              *)
(***************************************************************************)
\* The last of the first n options that is in K.
Latest(c, n, K, i) == i \in 1 .. n /\ c[i].opt \in K /\ \A j \in 1 .. n : c[j].opt \in K => j <= i

NoneOf(c, n, K) == \A i \in 1 .. n : c[i].opt \notin K

SetBy(c, n, K, v) ==
    \/ \E i \in 1 .. n : Latest(c, n, K, i) /\ v = c[i].arg
    \/ NoneOf(c, n, K) /\ v = NULL

JobBy(c, n, j) ==
    \/ \E i \in 1 .. n : Latest(c, n, DOMAIN JobOf, i) /\ j = JobOf[c[i].opt]
    \/ NoneOf(c, n, DOMAIN JobOf) /\ j \in Jobs

LEMMA LatestStep ==
    ASSUME NEW c, NEW n \in Nat, NEW K
    PROVE  /\ c[n + 1].opt \in K => Latest(c, n + 1, K, n + 1)
           /\ c[n + 1].opt \notin K =>
                /\ \A i : Latest(c, n, K, i) => Latest(c, n + 1, K, i) /\ i \in 1 .. n + 1
                /\ NoneOf(c, n, K) => NoneOf(c, n + 1, K)
<1>1. \A i \in 1 .. n + 1 : i \in 1 .. n \/ i = n + 1
  OBVIOUS
<1>2. 1 .. n \subseteq 1 .. n + 1 /\ n + 1 \in 1 .. n + 1 /\ \A i \in 1 .. n + 1 : i <= n + 1
  OBVIOUS
<1> QED  BY <1>1, <1>2 DEF Latest, NoneOf

LEMMA SetStep ==
    ASSUME NEW c, NEW n \in Nat, NEW K, NEW v, SetBy(c, n, K, v)
    PROVE  SetBy(c, n + 1, K, IF c[n + 1].opt \in K THEN c[n + 1].arg ELSE v)
<1>1. n + 1 \in 1 .. n + 1
  OBVIOUS
<1> QED  BY <1>1, LatestStep DEF SetBy

LEMMA JobStep ==
    ASSUME NEW c, NEW n \in Nat, NEW j, JobBy(c, n, j)
    PROVE  JobBy(c, n + 1, IF c[n + 1].opt \in DOMAIN JobOf THEN JobOf[c[n + 1].opt] ELSE j)
<1>1. n + 1 \in 1 .. n + 1
  OBVIOUS
<1> QED  BY <1>1, LatestStep DEF JobBy

LEMMA LatestMax ==
    ASSUME NEW S, NEW c \in Seq(S), NEW K, NEW at, at = {i \in DOMAIN c : c[i].opt \in K}
    PROVE  /\ at = {} <=> NoneOf(c, Len(c), K)
           /\ \A i : Latest(c, Len(c), K, i) => i \in at /\ Max(at) = i
<1>1. DOMAIN c = 1 .. Len(c)
  OBVIOUS
<1>2. at = {} <=> NoneOf(c, Len(c), K)
  BY <1>1 DEF NoneOf
<1>3. ASSUME NEW i, Latest(c, Len(c), K, i) PROVE i \in at /\ Max(at) = i
  <2>1. i \in at /\ \A j \in at : j <= i /\ j \in Int
    BY <1>1, <1>3 DEF Latest
  <2>2. \A x \in at : (\A y \in at : x >= y) <=> x = i
    BY <2>1
  <2>3. Max(at) = CHOOSE x \in at : \A y \in at : x >= y
    BY DEF Max
  <2> QED  BY <2>1, <2>2, <2>3
<1> QED  BY <1>2, <1>3

LEMMA LastArgs ==
    ASSUME NEW S, NEW c \in Seq(S), NEW o, NEW v, SetBy(c, Len(c), {o}, v)
    PROVE  LastArg(c, o) = v
<1>1. PICK at : at = {i \in DOMAIN c : c[i].opt \in {o}}
  OBVIOUS
<1>2. PICK K : K = {o}
  OBVIOUS
<1>6. /\ at = {} <=> NoneOf(c, Len(c), K)
      /\ \A i : Latest(c, Len(c), K, i) => i \in at /\ Max(at) = i
  <2>1. at = {i \in DOMAIN c : c[i].opt \in K}
    BY <1>1, <1>2
  <2>2. at = {} <=> NoneOf(c, Len(c), K)
    BY <2>1, ElementOfSeq DEF NoneOf
  <2>3. ASSUME NEW i, Latest(c, Len(c), K, i) PROVE i \in at /\ Max(at) = i
    BY <2>1, <2>3, LatestMax
  <2> QED  BY <2>2, <2>3
<1>3. LastArg(c, o) = IF at = {} THEN NULL ELSE c[Max(at)].arg
  <2>1. at = {i \in DOMAIN c : c[i].opt = o}
    BY <1>1
  <2> QED  BY <2>1 DEF LastArg
<1>4. CASE at = {}
  <2>1. \A i : ~ Latest(c, Len(c), {o}, i)
    BY <1>2, <1>6, <1>4 DEF Latest, NoneOf
  <2> QED  BY <1>3, <1>4, <2>1 DEF SetBy
<1>5. CASE at # {}
  <2>1. PICK i : Latest(c, Len(c), {o}, i) /\ v = c[i].arg
    BY <1>2, <1>6, <1>5 DEF SetBy
  <2> QED  BY <1>2, <1>6, <1>3, <1>5, <2>1
<1> QED  BY <1>4, <1>5

LEMMA OptionTables ==
    /\ DOMAIN VariableOf = {"f", "F", "o", "c", "x", "m"}
    /\ VariableOf["f"] = "f" /\ VariableOf["F"] = "F" /\ VariableOf["o"] = "o"
    /\ VariableOf["c"] = "src" /\ VariableOf["x"] = "dest" /\ VariableOf["m"] = "dest"
    /\ DOMAIN JobOf = {"c", "x", "r", "m", "l", "d", "T", "H"}
    /\ \A o \in DOMAIN JobOf : JobOf[o] \in Jobs /\ JobOf[o] # "NONE"
                               /\ (JobOf[o] = "MOVE" <=> o = "m")
                               /\ (JobOf[o] = "CREATE" <=> o = "c")
                               /\ (JobOf[o] = "EXTRACT" <=> o = "x")
BY DEF VariableOf, JobOf, Jobs

LEMMA LastJobs ==
    ASSUME NEW S, NEW c \in Seq(S), NEW j, JobBy(c, Len(c), j), NEW dest,
           SetBy(c, Len(c), {"x", "m"}, dest)
    PROVE  /\ LastJob(c) # "NONE" => j = LastJob(c)
           /\ LastJob(c) = "MOVE" => dest = LastArg(c, "m")
           /\ j \in Jobs
<1>1. PICK K : K = DOMAIN JobOf
  OBVIOUS
<1>2. PICK at : at = {i \in DOMAIN c : c[i].opt \in K}
  OBVIOUS
<1>3. /\ at = {} <=> NoneOf(c, Len(c), K)
      /\ \A i : Latest(c, Len(c), K, i) => i \in at /\ Max(at) = i
  <2>1. at = {} <=> NoneOf(c, Len(c), K)
    BY <1>2, ElementOfSeq DEF NoneOf
  <2>2. ASSUME NEW i, Latest(c, Len(c), K, i) PROVE i \in at /\ Max(at) = i
    BY <1>2, <2>2, LatestMax
  <2> QED  BY <2>1, <2>2
<1>4. LastJob(c) = IF at = {} THEN "NONE" ELSE JobOf[c[Max(at)].opt]
  BY <1>1, <1>2 DEF LastJob
<1>5. CASE at = {}
  <2>1. \A i : ~ Latest(c, Len(c), K, i)
    BY <1>3, <1>5
  <2>2. j \in Jobs
    BY <1>1, <2>1 DEF JobBy
  <2> QED  BY <1>4, <1>5, <2>2
<1>6. CASE at # {}
  <2>1. PICK i : Latest(c, Len(c), K, i) /\ j = JobOf[c[i].opt]
    BY <1>1, <1>3, <1>6 DEF JobBy
  <2>2. LastJob(c) = JobOf[c[i].opt] /\ c[i].opt \in K
    BY <1>3, <1>4, <1>6, <2>1 DEF Latest
  <2>3. j \in Jobs
    BY <1>1, <2>1, <2>2, OptionTables
  <2>4. ASSUME LastJob(c) = "MOVE" PROVE dest = LastArg(c, "m")
    <3>1. c[i].opt = "m"
      BY <1>1, <2>2, <2>4, OptionTables
    <3>2. "x" \in K /\ "m" \in K
      BY <1>1, OptionTables
    <3>3. Latest(c, Len(c), {"x", "m"}, i) /\ Latest(c, Len(c), {"m"}, i)
      BY <2>1, <3>1, <3>2 DEF Latest
    <3>4. dest = c[i].arg
      <4>1. ASSUME NEW k, Latest(c, Len(c), {"x", "m"}, k) PROVE k = i
        <5>1. k <= i /\ i <= k /\ k \in Int /\ i \in Int
          BY <3>3, <4>1 DEF Latest
        <5> QED  BY <5>1
      <4>2. ~ NoneOf(c, Len(c), {"x", "m"})
        BY <3>3 DEF Latest, NoneOf
      <4> QED  BY <4>1, <4>2 DEF SetBy
    <3>5. SetBy(c, Len(c), {"m"}, c[i].arg)
      BY <3>3 DEF SetBy, Latest
    <3> QED  BY <3>4, <3>5, LastArgs
  <2> QED  BY <2>1, <2>2, <2>3, <2>4
<1> QED  BY <1>5, <1>6

\* n options were read.
OptionsRead(n) ==
    /\ n \in 0 .. Len(cmd)
    /\ args \in Seq(ToSet(cmd)) /\ Len(args) = Len(cmd) - n
    /\ \A i \in 1 .. Len(args) : args[i] = cmd[n + i]
    /\ \A i \in 1 .. n : cmd[i].opt # "?"
    /\ opts = [f |-> opts.f, F |-> opts.F, o |-> opts.o, src |-> opts.src, dest |-> opts.dest]
    /\ SetBy(cmd, n, {"f"}, opts.f) /\ SetBy(cmd, n, {"F"}, opts.F) /\ SetBy(cmd, n, {"o"}, opts.o)
    /\ SetBy(cmd, n, {"c"}, opts.src) /\ SetBy(cmd, n, {"x", "m"}, opts.dest)
    /\ JobBy(cmd, n, job)

OptionsKnown ==
    /\ opts.f = Arg("f") /\ opts.F = Arg("F") /\ opts.o = Arg("o") /\ opts.src = Arg("c")
    /\ Asked = "MOVE" => opts.dest = Arg("m")
    /\ Asked # "NONE" => job = Asked

Working == {"open", "entry", "job", "save", "list", "extract"}

OptionsInv ==
    /\ cmd \in CommandLines /\ ToSet(args) \subseteq ToSet(cmd)
    /\ job \in Jobs /\ code \in {0, 1}
    /\ pc \in {"args", "getopt", "exit", "crash"} \cup Working
    /\ pc \in {"args", "getopt"} => \E n \in Nat : OptionsRead(n)
    /\ pc = "getopt" => Words(cmd) >= 2
    /\ pc \in Working => OptionsKnown /\ Understood /\ CharIsSigned

LEMMA CommandLineFacts ==
    ASSUME NEW c \in CommandLines
    PROVE  /\ c \in Seq(ToSet(c)) /\ DOMAIN c = 1 .. Len(c) /\ Len(c) \in Nat
           /\ \A i \in 1 .. Len(c) : c[i] \in ToSet(c)
<1>1. c \in Seq(ToSet(c))
  BY CommandsAssumption
<1> QED  BY <1>1, ElementOfSeq

LEMMA OptionsInit == Init => OptionsInv
<1> SUFFICES ASSUME Init PROVE OptionsInv
  OBVIOUS
<1>1. /\ cmd \in CommandLines /\ args = cmd /\ pc = "args" /\ code = 0
      /\ opts = [f |-> NULL, F |-> NULL, o |-> NULL, src |-> NULL, dest |-> NULL]
  BY DEF Init
<1>2. job \in Jobs
  BY DEF Init, Jobs
<1>3. cmd \in Seq(ToSet(cmd)) /\ Len(cmd) \in Nat
  BY <1>1, CommandLineFacts
<1>4. \A K : SetBy(cmd, 0, K, NULL)
  BY DEF SetBy, NoneOf
<1>5. JobBy(cmd, 0, job)
  BY <1>2 DEF JobBy, NoneOf
<1>6. OptionsRead(0)
  <2>1. \A i \in 1 .. Len(args) : args[i] = cmd[0 + i]
    BY <1>1, <1>3
  <2> QED  BY <1>1, <1>3, <1>4, <1>5, <2>1 DEF OptionsRead
<1> QED  BY <1>1, <1>2, <1>6 DEF OptionsInv, Working

\* What all steps after the options leave alone.
Works ==
    /\ pc \in Working /\ pc' \in Working \cup {"exit", "crash"}
    /\ UNCHANGED <<cmd, before, args, opts, job>> /\ code' \in {0, 1, code}

LEMMA WorkSteps ==
    ASSUME Next
    PROVE  CountArguments \/ getopt \/ OptionsEnd \/ Works
<1> USE DEF Working, Works, given, Exit, Refuse, Crash, Changed, Do
<1>1. OpenArchive => Works
  BY DEF OpenArchive
<1>2. StartEntry => Works
  BY DEF StartEntry
<1>3. Create => Works
  BY DEF Create
<1>4. Extract => Works
  BY DEF Extract
<1>5. RemoveEntry => Works
  BY DEF RemoveEntry
<1>6. MoveEntry => Works
  BY DEF MoveEntry
<1>7. List => Works
  BY DEF List, ListPaths
<1>8. Details => Works
  BY DEF Details
<1>9. Show => Works
  BY DEF Show
<1>10. ba_save => Works
  BY DEF ba_save
<1>11. rec_extract_func => Works
  BY DEF rec_extract_func
<1>12. Extracted => Works
  BY DEF Extracted
<1> QED  BY <1>1, <1>2, <1>3, <1>4, <1>5, <1>6, <1>7, <1>8, <1>9, <1>10, <1>11, <1>12 DEF Next

LEMMA OptionRead ==
    ASSUME OptionsInv, getopt, Head(args).opt # "?", NEW n \in Nat, OptionsRead(n)
    PROVE  OptionsRead(n + 1)'
<1>1. /\ cmd \in Seq(ToSet(cmd)) /\ Len(cmd) \in Nat
      /\ \A i \in 1 .. Len(cmd) : cmd[i] \in ToSet(cmd)
  BY CommandLineFacts DEF OptionsInv
<1>2. /\ args \in Seq(ToSet(cmd)) /\ Len(args) = Len(cmd) - n /\ n \in 0 .. Len(cmd)
      /\ \A i \in 1 .. Len(args) : args[i] = cmd[n + i]
      /\ \A i \in 1 .. n : cmd[i].opt # "?"
      /\ opts = [f |-> opts.f, F |-> opts.F, o |-> opts.o, src |-> opts.src, dest |-> opts.dest]
      /\ JobBy(cmd, n, job)
  BY DEF OptionsRead
<1>3. args # <<>> /\ args' = Tail(args) /\ cmd' = cmd
  BY DEF getopt, given
<1>4. PICK o : o = cmd[n + 1]
  OBVIOUS
<1>5. Len(args) >= 1 /\ Head(args) = o
  <2>1. Len(args) >= 1 /\ Head(args) = args[1]
    BY <1>2, <1>3
  <2>2. 1 \in 1 .. Len(args)
    BY <1>2, <2>1
  <2> QED  BY <1>2, <1>4, <2>1, <2>2
<1>6. /\ n + 1 \in 0 .. Len(cmd)
      /\ args' \in Seq(ToSet(cmd)) /\ Len(args') = Len(cmd) - (n + 1)
      /\ \A i \in 1 .. Len(args') : args'[i] = cmd[n + 1 + i]
  <2>1. PICK r \in Seq(ToSet(cmd)) : r = args' /\ Len(r) = Len(args) - 1
                                      /\ \A i \in 1 .. Len(r) : r[i] = args[i + 1]
    <3>1. /\ Tail(args) \in Seq(ToSet(cmd)) /\ Len(Tail(args)) = Len(args) - 1
          /\ \A i \in 1 .. Len(Tail(args)) : Tail(args)[i] = args[i + 1]
      BY <1>2, <1>5
    <3> QED  BY <1>3, <3>1
  <2>2. ASSUME NEW i \in 1 .. Len(r) PROVE r[i] = cmd[n + 1 + i]
    <3>1. i + 1 \in 1 .. Len(args) /\ n + (i + 1) = n + 1 + i
      BY <1>1, <1>2, <2>1, <2>2
    <3> QED  BY <1>2, <2>1, <3>1
  <2> QED  BY <1>1, <1>2, <1>5, <2>1, <2>2
<1>7. /\ opts' = IF o.opt \in DOMAIN VariableOf
                 THEN [opts EXCEPT ![VariableOf[o.opt]] = o.arg] ELSE opts
      /\ job' = IF o.opt \in DOMAIN JobOf THEN JobOf[o.opt] ELSE job
      /\ o.opt # "?"
  BY <1>5 DEF getopt
<1>8. \A i \in 1 .. n + 1 : cmd[i].opt # "?"
  <2>1. \A i \in 1 .. n + 1 : i \in 1 .. n \/ i = n + 1
    OBVIOUS
  <2> QED  BY <1>2, <1>4, <1>7, <2>1
<1>9. /\ opts' = [f |-> opts'.f, F |-> opts'.F, o |-> opts'.o, src |-> opts'.src, dest |-> opts'.dest]
      /\ opts'.f = IF o.opt \in {"f"} THEN o.arg ELSE opts.f
      /\ opts'.F = IF o.opt \in {"F"} THEN o.arg ELSE opts.F
      /\ opts'.o = IF o.opt \in {"o"} THEN o.arg ELSE opts.o
      /\ opts'.src = IF o.opt \in {"c"} THEN o.arg ELSE opts.src
      /\ opts'.dest = IF o.opt \in {"x", "m"} THEN o.arg ELSE opts.dest
  <2>1. PICK f1, F1, o1, s1, d1 : opts = [f |-> f1, F |-> F1, o |-> o1, src |-> s1, dest |-> d1]
    BY <1>2
  <2>2. PICK v : v = o.arg
    OBVIOUS
  <2>3. o.opt \in {"f", "F", "o", "c", "x", "m"} \/ o.opt \notin DOMAIN VariableOf
    BY OptionTables
  <2>4. CASE o.opt = "f"
    <3>1. opts' = [opts EXCEPT !["f"] = v]
      BY <1>7, <2>2, <2>4, OptionTables
    <3> QED  BY <2>1, <2>2, <2>4, <3>1
  <2>5. CASE o.opt = "F"
    <3>1. opts' = [opts EXCEPT !["F"] = v]
      BY <1>7, <2>2, <2>5, OptionTables
    <3> QED  BY <2>1, <2>2, <2>5, <3>1
  <2>6. CASE o.opt = "o"
    <3>1. opts' = [opts EXCEPT !["o"] = v]
      BY <1>7, <2>2, <2>6, OptionTables
    <3> QED  BY <2>1, <2>2, <2>6, <3>1
  <2>7. CASE o.opt = "c"
    <3>1. opts' = [opts EXCEPT !["src"] = v]
      BY <1>7, <2>2, <2>7, OptionTables
    <3> QED  BY <2>1, <2>2, <2>7, <3>1
  <2>8. CASE o.opt = "x"
    <3>1. opts' = [opts EXCEPT !["dest"] = v]
      BY <1>7, <2>2, <2>8, OptionTables
    <3> QED  BY <2>1, <2>2, <2>8, <3>1
  <2>9. CASE o.opt = "m"
    <3>1. opts' = [opts EXCEPT !["dest"] = v]
      BY <1>7, <2>2, <2>9, OptionTables
    <3> QED  BY <2>1, <2>2, <2>9, <3>1
  <2>10. CASE o.opt \notin DOMAIN VariableOf
    <3>1. opts' = opts /\ o.opt \notin {"f", "F", "o", "c", "x", "m"}
      BY <1>7, <2>10, OptionTables
    <3> QED  BY <2>1, <3>1
  <2> QED  BY <2>3, <2>4, <2>5, <2>6, <2>7, <2>8, <2>9, <2>10
<1>10. /\ SetBy(cmd, n + 1, {"f"}, opts'.f) /\ SetBy(cmd, n + 1, {"F"}, opts'.F)
       /\ SetBy(cmd, n + 1, {"o"}, opts'.o)
       /\ SetBy(cmd, n + 1, {"c"}, opts'.src) /\ SetBy(cmd, n + 1, {"x", "m"}, opts'.dest)
  <2>1. \A K, v : SetBy(cmd, n, K, v)
                  => SetBy(cmd, n + 1, K, IF cmd[n + 1].opt \in K THEN cmd[n + 1].arg ELSE v)
    BY SetStep
  <2> QED  BY <1>4, <1>9, <2>1 DEF OptionsRead
<1>11. JobBy(cmd, n + 1, job')
  <2>1. JobBy(cmd, n + 1, IF cmd[n + 1].opt \in DOMAIN JobOf THEN JobOf[cmd[n + 1].opt] ELSE job)
    BY <1>2, JobStep
  <2> QED  BY <1>4, <1>7, <2>1
<1> QED  BY <1>3, <1>6, <1>8, <1>9, <1>10, <1>11 DEF OptionsRead

LEMMA OptionsDone ==
    ASSUME OptionsInv, OptionsEnd, CharIsSigned, pc' = "open"
    PROVE  OptionsKnown /\ Understood
<1>1. PICK n \in Nat : OptionsRead(n)
  BY DEF OptionsInv, OptionsEnd
<1>2. cmd \in Seq(ToSet(cmd)) /\ DOMAIN cmd = 1 .. Len(cmd) /\ Len(cmd) \in Nat
  BY CommandLineFacts DEF OptionsInv
<1>3. n = Len(cmd)
  <2>1. Len(args) = 0
    BY DEF OptionsEnd
  <2> QED  BY <1>1, <1>2, <2>1 DEF OptionsRead
<1>4. Understood
  <2>1. Words(cmd) >= 2
    BY DEF OptionsInv, OptionsEnd
  <2>2. \A i \in DOMAIN cmd : cmd[i].opt # "?"
    BY <1>1, <1>2, <1>3 DEF OptionsRead
  <2> QED  BY <2>1, <2>2 DEF Understood, Understands
<1>5. /\ SetBy(cmd, Len(cmd), {"f"}, opts.f) /\ SetBy(cmd, Len(cmd), {"F"}, opts.F)
      /\ SetBy(cmd, Len(cmd), {"o"}, opts.o) /\ SetBy(cmd, Len(cmd), {"c"}, opts.src)
      /\ SetBy(cmd, Len(cmd), {"x", "m"}, opts.dest) /\ JobBy(cmd, Len(cmd), job)
  BY <1>1, <1>3 DEF OptionsRead
<1>6. opts.f = Arg("f") /\ opts.F = Arg("F") /\ opts.o = Arg("o") /\ opts.src = Arg("c")
  BY <1>2, <1>5, LastArgs DEF Arg
<1>7. /\ Asked # "NONE" => job = Asked
      /\ Asked = "MOVE" => opts.dest = Arg("m")
  <2>1. LastJob(cmd) # "NONE" => job = LastJob(cmd)
    BY <1>2, <1>5, LastJobs
  <2>2. LastJob(cmd) = "MOVE" => opts.dest = LastArg(cmd, "m")
    BY <1>2, <1>5, LastJobs
  <2> QED  BY <2>1, <2>2 DEF Asked, Arg
<1> QED  BY <1>4, <1>6, <1>7 DEF OptionsKnown

LEMMA OptionsStep ==
    ASSUME OptionsInv, [Next]_vars
    PROVE  OptionsInv'
<1> USE DEF given
<1>1. CASE UNCHANGED vars
  BY <1>1 DEF vars, OptionsInv, OptionsRead, OptionsKnown, Understood, Asked, Arg
<1>2. CASE CountArguments
  <2>1. /\ pc = "args" /\ UNCHANGED <<cmd, args, opts, job>>
        /\ \/ pc' = "exit" /\ code' = 0
           \/ pc' = "getopt" /\ Words(cmd) >= 2 /\ code' = code
    <3>1. Words(cmd) \in Int
      <4>1. PICK n \in Nat : OptionsRead(n)
        BY <1>2 DEF OptionsInv, CountArguments
      <4>2. DOMAIN cmd = 1 .. Len(cmd) /\ Len(cmd) \in Nat
        BY CommandLineFacts DEF OptionsInv
      <4>3. IsFiniteSet(DOMAIN cmd)
        BY <4>2, FS_Interval
      <4>4. IsFiniteSet({i \in DOMAIN cmd : cmd[i].arg # NULL})
        BY <4>3, FS_Subset
      <4>5. Cardinality({i \in DOMAIN cmd : cmd[i].arg # NULL}) \in Nat
        BY <4>4, FS_CardinalityType
      <4> QED  BY <4>2, <4>5 DEF Words
    <3> QED  BY <1>2, <3>1 DEF CountArguments, Exit
  <2> QED  BY <2>1 DEF OptionsInv, OptionsRead, Working
<1>3. CASE getopt
  <2>1. CASE Head(args).opt = "?"
    <3>1. pc' = "exit" /\ code' = 1 /\ UNCHANGED <<cmd, args, opts, job>>
      BY <1>3, <2>1 DEF getopt, Exit
    <3> QED  BY <3>1 DEF OptionsInv, Working
  <2>2. CASE Head(args).opt # "?"
    <3>1. pc = "getopt" /\ pc' = pc /\ code' = code /\ cmd' = cmd
      BY <1>3, <2>2 DEF getopt
    <3>2. PICK n \in Nat : OptionsRead(n)
      BY <3>1 DEF OptionsInv
    <3>3. OptionsRead(n + 1)'
      BY <1>3, <2>2, <3>2, OptionRead
    <3>4. ToSet(args') \subseteq ToSet(cmd)
      <4>1. args' \in Seq(ToSet(cmd))
        BY <3>1, <3>3 DEF OptionsRead
      <4> QED  BY <4>1, SetOfSeq
    <3>5. job' \in Jobs
      <4>1. job' = IF Head(args).opt \in DOMAIN JobOf THEN JobOf[Head(args).opt] ELSE job
        BY <1>3, <2>2 DEF getopt
      <4> QED  BY <4>1, OptionTables DEF OptionsInv
    <3>6. Words(cmd') >= 2
      BY <3>1 DEF OptionsInv
    <3>7. \E k \in Nat : OptionsRead(k)'
      BY <3>3
    <3> QED  BY <3>1, <3>4, <3>5, <3>6, <3>7 DEF OptionsInv, Working
  <2> QED  BY <2>1, <2>2
<1>4. CASE OptionsEnd
  <2>1. UNCHANGED <<cmd, args, opts, job>>
    BY <1>4 DEF OptionsEnd
  <2>2. CASE CharIsSigned
    <3>1. pc' = "open" /\ code' = code
      BY <1>4, <2>2 DEF OptionsEnd
    <3>2. OptionsKnown /\ Understood
      BY <1>4, <2>2, <3>1, OptionsDone
    <3>3. OptionsKnown' /\ Understood'
      BY <2>1, <3>2 DEF OptionsKnown, Understood, Arg, Asked
    <3> QED  BY <2>1, <2>2, <3>1, <3>3 DEF OptionsInv, Working
  <2>3. CASE ~ CharIsSigned
    <3>1. pc' = "exit" /\ code' = 1
      BY <1>4, <2>3 DEF OptionsEnd, Exit
    <3> QED  BY <2>1, <3>1 DEF OptionsInv, Working
  <2> QED  BY <2>2, <2>3
<1>5. CASE Works
  <2>1. /\ UNCHANGED <<cmd, args, opts, job>> /\ code' \in {0, 1}
        /\ pc \in Working /\ pc' \in Working \cup {"exit", "crash"}
    BY <1>5 DEF Works, OptionsInv
  <2>2. pc' \notin {"args", "getopt"}
    BY <2>1 DEF Working
  <2>3. OptionsKnown /\ Understood /\ CharIsSigned
    BY <2>1 DEF OptionsInv
  <2>4. OptionsKnown' /\ Understood'
    BY <2>1, <2>3 DEF OptionsKnown, Understood, Arg, Asked
  <2> QED  BY <2>1, <2>2, <2>3, <2>4 DEF OptionsInv
<1> QED  BY <1>1, <1>2, <1>3, <1>4, <1>5, WorkSteps

LEMMA OptionsKept == Spec => []OptionsInv
<1>1. Init => OptionsInv
  BY OptionsInit
<1>2. OptionsInv /\ [Next]_vars => OptionsInv'
  BY OptionsStep
<1> QED  BY <1>1, <1>2, PTL DEF Spec

LEMMA LastArgIs ==
    ASSUME NEW S, NEW c \in Seq(S), NEW o
    PROVE  LastArg(c, o) = NULL \/ \E i \in 1 .. Len(c) : c[i].opt = o /\ LastArg(c, o) = c[i].arg
<1> DEFINE N == {n \in Nat : NoneOf(c, n, {o}) \/ \E i : Latest(c, n, {o}, i)}
<1>1. 0 \in N
  BY DEF NoneOf
<1>2. ASSUME NEW n \in Nat, NoneOf(c, n, {o}) \/ \E i : Latest(c, n, {o}, i)
      PROVE  NoneOf(c, n + 1, {o}) \/ \E i : Latest(c, n + 1, {o}, i)
  <2>1. CASE c[n + 1].opt \in {o}
    <3>1. Latest(c, n + 1, {o}, n + 1)
      BY <2>1, LatestStep
    <3> QED  BY <3>1
  <2>2. CASE c[n + 1].opt \notin {o}
    <3>1. \A i : Latest(c, n, {o}, i) => Latest(c, n + 1, {o}, i)
      BY <2>2, LatestStep
    <3>2. NoneOf(c, n, {o}) => NoneOf(c, n + 1, {o})
      BY <2>2, LatestStep
    <3> QED  BY <1>2, <3>1, <3>2
  <2> QED  BY <2>1, <2>2
<1>3. Nat \subseteq N
  <2>1. ASSUME NEW n \in Nat, n \in N PROVE n + 1 \in N
    <3>1. NoneOf(c, n, {o}) \/ \E i : Latest(c, n, {o}, i)
      BY <2>1
    <3>2. NoneOf(c, n + 1, {o}) \/ \E i : Latest(c, n + 1, {o}, i)
      BY <1>2, <3>1
    <3>3. n + 1 \in Nat
      OBVIOUS
    <3> QED  BY <3>2, <3>3
  <2> HIDE DEF N
  <2> QED  BY <1>1, <2>1, NatInduct
<1>4. NoneOf(c, Len(c), {o}) \/ \E i : Latest(c, Len(c), {o}, i)
  <2>1. Len(c) \in Nat
    OBVIOUS
  <2> QED  BY <1>3, <2>1
<1>5. CASE NoneOf(c, Len(c), {o})
  <2>1. SetBy(c, Len(c), {o}, NULL)
    BY <1>5 DEF SetBy
  <2> QED  BY <2>1, LastArgs
<1>6. ASSUME NEW i, Latest(c, Len(c), {o}, i)
      PROVE  \E k \in 1 .. Len(c) : c[k].opt = o /\ LastArg(c, o) = c[k].arg
  <2>1. i \in 1 .. Len(c) /\ c[i].opt = o
    BY <1>6 DEF Latest
  <2>2. SetBy(c, Len(c), {o}, c[i].arg)
    BY <1>6, <2>1 DEF SetBy
  <2>3. LastArg(c, o) = c[i].arg
    BY <2>2, LastArgs
  <2> QED  BY <2>1, <2>3
<1> QED  BY <1>4, <1>5, <1>6

LEMMA ArgsOfCommands ==
    ASSUME NEW c \in CommandLines
    PROVE  /\ \A o \in {"f", "o"} : LastArg(c, o) # NULL => LastArg(c, o) \in Boxes
           /\ LastArg(c, "c") # NULL => LastArg(c, "c") \in DOMAIN Sources
<1>1. c \in Seq(ToSet(c)) /\ \A i \in 1 .. Len(c) : c[i] \in ToSet(c)
  BY CommandLineFacts
<1>2. \A o \in ToSet(c) : /\ o.opt \in {"f", "o"} => o.arg \in Boxes
                          /\ o.opt = "c" => o.arg \in DOMAIN Sources
  BY CommandsAssumption
<1>3. ASSUME NEW o \in {"f", "o"}, LastArg(c, o) # NULL PROVE LastArg(c, o) \in Boxes
  <2>1. PICK i \in 1 .. Len(c) : c[i].opt = o /\ LastArg(c, o) = c[i].arg
    BY <1>1, <1>3, LastArgIs
  <2> QED  BY <1>1, <1>2, <2>1
<1>4. ASSUME LastArg(c, "c") # NULL PROVE LastArg(c, "c") \in DOMAIN Sources
  <2>1. PICK i \in 1 .. Len(c) : c[i].opt = "c" /\ LastArg(c, "c") = c[i].arg
    BY <1>1, <1>4, LastArgIs
  <2> QED  BY <1>1, <1>2, <2>1
<1> QED  BY <1>3, <1>4

\* A tree whose walks end is no null pointer.
LEMMA ListedIsNoNull ==
    ASSUME NEW t, Listed(t)
    PROVE  t # NULL
BY TreesAssumption DEF Listed, Lists, Trees

LEMMA GoodListed ==
    ASSUME NEW t, GoodTree(t)
    PROVE  Listed(t) /\ t # NULL /\ Content(t) \subseteq Entries
<1>1. Listed(t)
  BY TreeListed DEF GoodTree
<1> QED  BY <1>1, ListedIsNoNull, GoodFacts

LEMMA FirstFacts ==
    ASSUME NEW b \in Boxes
    PROVE  FirstFiles[b] # NULL =>
             /\ ~ Unreadable(FirstFiles[b])
             /\ \E t \in Saved : IsTree(t) /\ FirstFiles[b] = Header(Rearranged(t))
<1> SUFFICES ASSUME FirstFiles[b] # NULL
             PROVE  /\ ~ Unreadable(FirstFiles[b])
                    /\ \E t \in Saved : IsTree(t) /\ FirstFiles[b] = Header(Rearranged(t))
  OBVIOUS
<1>1. PICK t, h : /\ t = FirstTrees[b] /\ h = Header(Rearranged(t))
                  /\ FirstFiles[b] = IF t = NULL THEN NULL ELSE h
  BY DEF FirstFiles
<1>2. t \in Saved /\ FirstFiles[b] = h
  BY <1>1 DEF Saved
<1>3. IsTree(t)
  BY <1>2, TreesAssumption
<1>4. ~ Unreadable(h)
  BY <1>1, <1>3, OpenedTree
<1> QED  BY <1>1, <1>2, <1>3, <1>4

\* The archive the command line is about was made by saving and opening.
LEMMA GivenGood ==
    ASSUME cmd \in CommandLines
    PROVE  /\ GoodTree(Given)
           /\ \A e \in Content(Given) : NamesTo(Given, e) \in Targets
<1>1. CASE Given = NoTree
  <2>1. Content(NoTree) = {}
    BY NoTreeOK, TreeFacts
  <2> QED  BY <1>1, <2>1, GoodEmpty
<1>2. CASE Given # NoTree
  <2>1. PICK b, h : /\ b = Arg("f") /\ b # NULL /\ h = FirstFiles[b] /\ h # NULL /\ Given = Loaded(h)
    BY <1>2 DEF Given
  <2>2. b \in Boxes
    BY <2>1, ArgsOfCommands DEF Arg
  <2>3. PICK t \in Saved : IsTree(t) /\ h = Header(Rearranged(t))
    BY <2>1, <2>2, FirstFacts
  <2>4. /\ GoodTree(Given)
        /\ \A e \in Content(Given) : e \in Files(t) \cup Dirs(t) /\ NamesTo(Given, e) = NamesTo(t, e)
    BY <2>1, <2>3, OpenedTree
  <2>5. \A e \in Files(t) \cup Dirs(t) : NamesTo(t, e) \in Targets
    BY PlacesAssumption
  <2> QED  BY <2>4, <2>5
<1> QED  BY <1>1, <1>2

(***************************************************************************)
(* The archive and the entries the command line is about.                  *)
(***************************************************************************)
\* The archive that was opened.
Opened ==
    IF job = "CREATE" THEN archive = NoTree
    ELSE IF archive = NULL THEN Box = NoTree ELSE archive = Box

\* start_entry was found.
Started ==
    /\ Once(start)
    /\ job = "CREATE" => opts.F = NULL
    /\ job # "CREATE" =>
         /\ ToSet(start) = AskedEntries /\ InWalkOrder(Box.kids, start)
         /\ opts.F # NULL => ba_get(Box, opts.F) # NULL

\* The tree was changed, to be saved.
Edited ==
    /\ opts.f # NULL /\ archive # NULL /\ job \in {"CREATE", "REMOVE", "MOVE"}
    /\ job = "MOVE" => \A e \in ToSet(start) : archive.info[e].path = Box.info[e].path

BaseInv ==
    /\ before.box = Given /\ before.out \in FirstOuts[cmd]
    /\ start \in Seq(Entries)
    /\ \A b \in Boxes : files[b] # NULL => ~ Unreadable(files[b])
    /\ archive # NULL => Listed(archive)
    /\ pc \in {"args", "getopt"} \cup (Working \ {"list"}) => files = FirstFiles
    /\ pc # "exit" => printed = <<>>
    /\ pc \in {"entry", "job", "extract"} => Opened
    /\ pc \in {"job", "save", "list", "extract"} => Started
    /\ pc \in {"save", "list"} => Edited
    /\ pc = "extract" => job = "EXTRACT" /\ opts.f # NULL /\ archive = Box

LEMMA BoxIsGood ==
    ASSUME OptionsInv, BaseInv
    PROVE  /\ GoodTree(Box) /\ Listed(Box) /\ Box # NULL /\ Content(Box) \subseteq Entries
           /\ \A e \in Content(Box) : NamesTo(Box, e) \in Targets
<1>1. cmd \in CommandLines /\ Box = Given
  BY DEF OptionsInv, BaseInv, Box
<1> QED  BY <1>1, GivenGood, GoodListed

LEMMA EmptyTree ==
    /\ GoodTree(NoTree) /\ Listed(NoTree) /\ NoTree # NULL /\ Content(NoTree) = {}
    /\ \A path : ba_get(NoTree, path) = NULL
<1>1. GoodTree(NoTree) /\ Listed(NoTree) /\ NoTree # NULL
  BY GoodEmpty, GoodListed
<1>2. Content(NoTree) = {}
  BY NoTreeOK, TreeFacts
<1> QED  BY <1>1, <1>2, FoundAt

\* The entries asked for.
LEMMA AskedIs ==
    ASSUME GoodTree(Box)
    PROVE  /\ Arg("F") = NULL => AskedEntries = Content(Box)
           /\ Arg("F") # NULL /\ ba_get(Box, Arg("F")) = NULL =>
                AtPath(Arg("F")) = {} /\ AskedEntries = {}
           /\ Arg("F") # NULL /\ ba_get(Box, Arg("F")) # NULL =>
                /\ AtPath(Arg("F")) = {ba_get(Box, Arg("F"))}
                /\ AskedEntries = Subtree(Box, ba_get(Box, Arg("F")))
<1>1. PICK p, e : p = Arg("F") /\ e = ba_get(Box, p)
  OBVIOUS
<1>2. /\ e = NULL => AtPath(p) = {}
      /\ e # NULL => AtPath(p) = {e}
  BY <1>1, FoundAt DEF AtPath
<1> QED  BY <1>1, <1>2 DEF AskedEntries

LEMMA BaseInit == Init => BaseInv
<1> SUFFICES ASSUME Init PROVE BaseInv
  OBVIOUS
<1>1. /\ before.box = Given /\ before.out \in FirstOuts[cmd]
      /\ pc = "args" /\ archive = NULL /\ start = <<>> /\ files = FirstFiles /\ printed = <<>>
  BY DEF Init
<1>2. \A b \in Boxes : files[b] # NULL => ~ Unreadable(files[b])
  BY <1>1, FirstFacts
<1> QED  BY <1>1, <1>2 DEF BaseInv

LEMMA SameArchive ==
    ASSUME UNCHANGED <<cmd, before>>
    PROVE  /\ Box' = Box /\ Given' = Given /\ AskedEntries' = AskedEntries /\ Asked' = Asked
           /\ \A o : LastArg(cmd', o) = LastArg(cmd, o)
           /\ \A path : AtPath(path)' = AtPath(path)
BY DEF Box, Given, AskedEntries, Asked, AtPath, Arg

LEMMA SameStart ==
    ASSUME UNCHANGED <<cmd, before, opts, job, start>>, Started
    PROVE  Started'
BY SameArchive DEF Started

\* Steps before the archive is opened.
LEMMA BaseBefore ==
    ASSUME BaseInv, CountArguments \/ getopt \/ OptionsEnd
    PROVE  BaseInv'
<1>1. /\ UNCHANGED <<cmd, before, archive, start, files, out, printed>>
      /\ pc \in {"args", "getopt"} /\ pc' \in {"getopt", "open", "exit"}
  BY DEF CountArguments, getopt, OptionsEnd, given, world, Exit
<1>2. Given' = Given
  BY <1>1, SameArchive
<1> QED  BY <1>1, <1>2 DEF BaseInv, Working

\* The last step of a run.
LEMMA BaseEnds ==
    ASSUME BaseInv, UNCHANGED <<cmd, before, archive, start, files>>,
           pc' \in {"exit", "crash"}, printed' = printed \/ pc' = "exit", pc # "exit"
    PROVE  BaseInv'
<1>1. Given' = Given
  BY SameArchive
<1>2. pc' \notin {"args", "getopt"} \cup Working
  BY DEF Working
<1> QED  BY <1>1, <1>2 DEF BaseInv, Working

LEMMA BaseOpen ==
    ASSUME OptionsInv, BaseInv, OpenArchive
    PROVE  BaseInv'
<1>1. /\ pc = "open" /\ pc' = "entry" /\ files = FirstFiles
      /\ UNCHANGED <<cmd, before, opts, job, start, files, printed>>
      /\ archive' = IF job = "CREATE" THEN NoTree ELSE ba_open(opts.f)
  BY DEF OpenArchive, given, world, BaseInv, Working
<1>2. Given' = Given /\ Box' = Box /\ before.box = Given /\ Box = Given
  BY <1>1, SameArchive DEF BaseInv, Box
<1>3. opts.f = Arg("f")
  BY <1>1 DEF OptionsInv, OptionsKnown, Working
<1>4. PICK b : b = opts.f
  OBVIOUS
<1>5. ba_open(b) = IF b = NULL THEN NULL ELSE IF FirstFiles[b] = NULL THEN NULL ELSE Loaded(FirstFiles[b])
  BY <1>1 DEF ba_open
<1>6. Given = IF b = NULL THEN NoTree ELSE IF FirstFiles[b] = NULL THEN NoTree ELSE Loaded(FirstFiles[b])
  BY <1>3, <1>4 DEF Given
<1>7. Box # NULL /\ Listed(Box) /\ Listed(NoTree) /\ NoTree # NULL
  BY BoxIsGood, EmptyTree
<1>8. /\ job = "CREATE" => archive' = NoTree
      /\ job # "CREATE" => (archive' = NULL /\ Box = NoTree) \/ archive' = Box
  BY <1>1, <1>2, <1>4, <1>5, <1>6
<1>9. Opened' /\ (archive' # NULL => Listed(archive'))
  BY <1>1, <1>2, <1>7, <1>8 DEF Opened
<1> QED  BY <1>1, <1>2, <1>9 DEF BaseInv, Working

LEMMA BaseStart ==
    ASSUME OptionsInv, BaseInv, StartEntry
    PROVE  BaseInv'
<1>1. /\ pc = "entry" /\ Opened /\ files = FirstFiles /\ printed = <<>>
      /\ UNCHANGED <<cmd, before, opts, job, archive, files, printed>>
      /\ before.box = Given /\ Given' = Given /\ Box' = Box
  BY SameArchive DEF StartEntry, given, world, BaseInv, Working
<1>2. CASE opts.F # NULL /\ Found(opts.F) = NULL
  <2>1. UNCHANGED start /\ pc' = "exit"
    BY <1>2 DEF StartEntry, Exit
  <2> QED  BY <1>1, <2>1, BaseEnds
<1>3. CASE ~ (opts.F # NULL /\ Found(opts.F) = NULL)
  <2>1. /\ pc' = "job"
        /\ start' = IF opts.F # NULL THEN WithBelow(Found(opts.F))
                    ELSE IF archive # NULL THEN Preorder(archive.kids, NULL) ELSE <<>>
    BY <1>3 DEF StartEntry
  <2>2. GoodTree(Box) /\ Box # NULL /\ opts.F = Arg("F")
    BY <1>1, BoxIsGood DEF OptionsInv, OptionsKnown, Working
  <2>3. start' \in Seq(Entries) /\ Started'
    <3>1. CASE opts.F # NULL
      <4>1. PICK e : e = Found(opts.F) /\ e # NULL
        BY <1>3, <3>1
      <4>2. archive # NULL /\ e = ba_get(archive, opts.F)
        BY <4>1 DEF Found
      <4>3. archive = Box /\ job # "CREATE"
        <5>1. archive # NoTree
          BY <4>1, <4>2, EmptyTree
        <5> QED  BY <1>1, <4>2, <5>1 DEF Opened
      <4>4. e \in Content(Box)
        BY <2>2, <4>1, <4>2, <4>3, FoundAt
      <4>5. PICK s \in Seq(Entries) : /\ s = <<e>> \o Preorder(Box.kids, e)
                                      /\ ToSet(s) = Subtree(Box, e) /\ InWalkOrder(Box.kids, s)
        BY <2>2, <4>4, BelowWalk
      <4>6. start' = s
        BY <2>1, <3>1, <4>1, <4>3, <4>5 DEF WithBelow
      <4>7. AskedEntries = Subtree(Box, e)
        BY <2>2, <3>1, <4>1, <4>2, <4>3, AskedIs
      <4>8. AskedEntries' = AskedEntries
        BY <1>1, SameArchive
      <4>9. ToSet(start') = AskedEntries' /\ InWalkOrder(Box.kids, start') /\ Once(start')
        <5>1. ToSet(s) = Subtree(Box, e) /\ InWalkOrder(Box.kids, s)
          BY <4>5
        <5>2. Once(s)
          BY <5>1 DEF InWalkOrder
        <5> QED  BY <4>6, <4>7, <4>8, <5>1, <5>2
      <4>10. ba_get(Box', opts.F') # NULL /\ job' # "CREATE"
        BY <1>1, <4>1, <4>2, <4>3
      <4> QED  BY <1>1, <4>5, <4>6, <4>9, <4>10 DEF Started
    <3>2. CASE opts.F = NULL
      <4>1. AskedEntries' = Content(Box)
        BY <1>1, <2>2, <3>2, AskedIs, SameArchive
      <4>2. PICK s \in Seq(Entries) : /\ s = Preorder(Box.kids, NULL) /\ ToSet(s) = Content(Box)
                                      /\ InWalkOrder(Box.kids, s)
        BY <2>2, WholeWalk
      <4>3. PICK r \in Seq(Entries) : /\ r = Preorder(NoTree.kids, NULL) /\ ToSet(r) = {}
                                      /\ InWalkOrder(NoTree.kids, r)
        BY EmptyTree, WholeWalk
      <4>4. /\ <<>> \in Seq(Entries) /\ Once(<<>>) /\ ToSet(<<>>) = {}
            /\ InWalkOrder(Box.kids, <<>>)
        BY SetOfEmpty DEF Once, InWalkOrder
      <4>5. CASE job = "CREATE"
        <5>1. start' = r
          BY <1>1, <2>1, <3>2, <4>3, <4>5, EmptyTree DEF Opened
        <5> QED  BY <1>1, <3>2, <4>3, <4>5, <5>1 DEF Started, InWalkOrder
      <4>6. CASE job # "CREATE" /\ archive = NULL
        <5>1. start' = <<>> /\ Content(Box) = {}
          BY <1>1, <2>1, <3>2, <4>6, EmptyTree DEF Opened
        <5> QED  BY <1>1, <3>2, <4>1, <4>4, <4>6, <5>1 DEF Started
      <4>7. CASE job # "CREATE" /\ archive # NULL
        <5>1. start' = s
          BY <1>1, <2>1, <3>2, <4>2, <4>7 DEF Opened
        <5> QED  BY <1>1, <3>2, <4>1, <4>2, <4>7, <5>1 DEF Started, InWalkOrder
      <4> QED  BY <4>5, <4>6, <4>7
    <3> QED  BY <3>1, <3>2
  <2>4. Opened'
    BY <1>1 DEF Opened
  <2> QED  BY <1>1, <2>1, <2>3, <2>4 DEF BaseInv, Working
<1> QED  BY <1>2, <1>3

LEMMA BaseChanged ==
    ASSUME BaseInv, pc = "job", UNCHANGED <<cmd, before, opts, job, start>>,
           NEW t, Changed(t), Listed(t), opts.f # NULL, job \in {"CREATE", "REMOVE", "MOVE"},
           job = "MOVE" => \A e \in ToSet(start) : t.info[e].path = Box.info[e].path
    PROVE  BaseInv'
<1>1. /\ archive' = t /\ pc' = "save" /\ UNCHANGED <<files, printed>> /\ files = FirstFiles
      /\ printed = <<>> /\ Started /\ Given' = Given /\ Box' = Box
  BY SameArchive DEF Changed, world, BaseInv, Working
<1>2. Started'
  BY <1>1, SameStart
<1>3. Edited'
  BY <1>1, ListedIsNoNull DEF Edited
<1> QED  BY <1>1, <1>2, <1>3 DEF BaseInv, Working

\* A job that refuses or crashes.
LEMMA BaseStops ==
    ASSUME BaseInv, pc # "exit", UNCHANGED <<cmd, before, start>>, Refuse \/ Crash
    PROVE  BaseInv'
<1>1. UNCHANGED <<cmd, before, archive, start, files, printed>> /\ pc' \in {"exit", "crash"}
  BY DEF Refuse, Crash, Exit, world
<1> QED  BY <1>1, BaseEnds

LEMMA BaseCreate ==
    ASSUME OptionsInv, BaseInv, Create
    PROVE  BaseInv'
<1>1. pc = "job" /\ job = "CREATE" /\ UNCHANGED <<cmd, before, opts, job, start>>
  BY DEF Create, Do, given
<1>2. CASE opts.f = NULL \/ opts.src = NULL
  <2>1. Refuse \/ Crash
    BY <1>2 DEF Create
  <2> QED  BY <1>1, <2>1, BaseStops
<1>3. CASE opts.f # NULL /\ opts.src # NULL
  <2>1. PICK t : t = Sources[opts.src] /\ Changed(t)
    BY <1>3 DEF Create
  <2>2. opts.src \in DOMAIN Sources
    <3>1. opts.src = Arg("c") /\ cmd \in CommandLines
      BY <1>1 DEF OptionsInv, OptionsKnown, Working
    <3> QED  BY <1>3, <3>1, ArgsOfCommands DEF Arg
  <2>3. IsTree(t)
    BY <2>1, <2>2, TreesAssumption
  <2>4. Listed(t)
    BY <2>3, GivenTrees, TreeListed
  <2> QED  BY <1>1, <1>3, <2>1, <2>4, BaseChanged
<1> QED  BY <1>2, <1>3

\* What the jobs know of the archive that was opened.
LEMMA AtJob ==
    ASSUME OptionsInv, BaseInv, pc = "job", job # "CREATE", archive # NULL
    PROVE  /\ archive = Box /\ GoodTree(Box)
           /\ opts.F = Arg("F") /\ opts.f = Arg("f")
           /\ ToSet(start) = AskedEntries /\ Once(start) /\ start \in Seq(Entries)
           /\ opts.F # NULL => /\ Found(opts.F) \in Content(Box) /\ Found(opts.F) # NULL
                               /\ AtPath(opts.F) = {Found(opts.F)}
                               /\ ToSet(start) = Subtree(Box, Found(opts.F))
           /\ \A path : Found(path) # NULL => /\ Found(path) \in Content(Box) /\ path # NULL
                                              /\ AtPath(path) = {Found(path)}
           /\ \A path : path # NULL /\ Found(path) = NULL => AtPath(path) = {}
<1>1. /\ Opened /\ Started /\ start \in Seq(Entries) /\ opts.F = Arg("F") /\ opts.f = Arg("f")
  BY DEF BaseInv, OptionsInv, OptionsKnown, Working
<1>2. archive = Box /\ GoodTree(Box)
  BY <1>1, BoxIsGood DEF Opened
<1>3. \A path : Found(path) = IF path = NULL THEN NULL ELSE ba_get(Box, path)
  BY <1>2 DEF Found
<1>4. ASSUME NEW path
      PROVE  /\ ba_get(Box, path) # NULL => /\ ba_get(Box, path) \in Content(Box)
                                            /\ AtPath(path) = {ba_get(Box, path)}
             /\ ba_get(Box, path) = NULL => AtPath(path) = {}
  <2>1. PICK e : e = ba_get(Box, path)
    OBVIOUS
  <2>2. /\ e = NULL => AtPath(path) = {}
        /\ e # NULL => e \in Content(Box) /\ AtPath(path) = {e}
    BY <1>2, <2>1, FoundAt DEF AtPath
  <2> QED  BY <2>1, <2>2
<1>5. opts.F # NULL => Found(opts.F) # NULL /\ ToSet(start) = Subtree(Box, Found(opts.F))
  <2>1. opts.F # NULL => ba_get(Box, opts.F) # NULL
    BY <1>1 DEF Started
  <2>2. opts.F # NULL => AskedEntries = Subtree(Box, ba_get(Box, opts.F))
    BY <1>1, <1>2, <2>1, AskedIs
  <2> QED  BY <1>1, <1>3, <2>1, <2>2 DEF Started
<1> QED  BY <1>1, <1>2, <1>3, <1>4, <1>5 DEF Started

LEMMA BaseRemove ==
    ASSUME OptionsInv, BaseInv, RemoveEntry
    PROVE  BaseInv'
<1>1. pc = "job" /\ job = "REMOVE" /\ UNCHANGED <<cmd, before, opts, job, start>>
  BY DEF RemoveEntry, Do, given
<1>2. CASE NULL \in {opts.f, opts.F, archive}
  <2>1. Refuse
    BY <1>2 DEF RemoveEntry
  <2> QED  BY <1>1, <2>1, BaseStops
<1>3. CASE NULL \notin {opts.f, opts.F, archive}
  <2>1. PICK e, t : e = Found(opts.F) /\ t = Removed(archive, e) /\ Changed(t)
    BY <1>3 DEF RemoveEntry
  <2>2. archive = Box /\ GoodTree(Box) /\ e \in Content(Box)
    BY <1>1, <1>3, <2>1, AtJob
  <2>3. TreeOK(t)
    BY <2>1, <2>2, ItemsRemoved
  <2>4. Listed(t)
    BY <2>3, TreeListed
  <2> QED  BY <1>1, <1>3, <2>1, <2>4, BaseChanged
<1> QED  BY <1>2, <1>3

\* The tree an entry is moved in, unless it crashes.
MovedBy(src, dest, t) ==
    \/ /\ dest \in Subtree(Box, src)
       /\ t = [Box EXCEPT !.kids = Unlinked(@, src)]
    \/ /\ dest \notin Subtree(Box, src) /\ dest \in Files(Box) /\ src \in Files(Box) /\ src # dest
       /\ Parent(Box, dest) # NULL
       /\ t = MovedOnto(Box, src, dest)
    \/ /\ dest \notin Subtree(Box, src) /\ dest \in Dirs(Box)
       /\ t = MovedInto(Box, src, dest)

LEMMA Moves ==
    ASSUME OptionsInv, BaseInv, MoveEntry
    PROVE  \/ Refuse /\ NULL \in {opts.f, opts.F, archive, Found(opts.dest)}
           \/ Crash
           \/ \E src, dest, t :
                 /\ opts.f # NULL /\ opts.F # NULL /\ opts.dest # NULL /\ GoodTree(Box)
                 /\ AtPath(opts.F) = {src} /\ AtPath(opts.dest) = {dest}
                 /\ src \in Content(Box) /\ dest \in Content(Box)
                 /\ ToSet(start) = Subtree(Box, src)
                 /\ MovedBy(src, dest, t) /\ Changed(t)
<1>1. pc = "job" /\ job = "MOVE"
  BY DEF MoveEntry, Do
<1>2. PICK src, dest : src = Found(opts.F) /\ dest = Found(opts.dest)
  OBVIOUS
<1>3. CASE NULL \in {opts.f, opts.F, archive, dest}
  BY <1>2, <1>3 DEF MoveEntry
<1>4. CASE NULL \notin {opts.f, opts.F, archive, dest}
  <2>1. /\ archive = Box /\ GoodTree(Box) /\ src \in Content(Box) /\ AtPath(opts.F) = {src}
        /\ ToSet(start) = Subtree(Box, src)
        /\ dest \in Content(Box) /\ opts.dest # NULL /\ AtPath(opts.dest) = {dest}
    BY <1>1, <1>2, <1>4, AtJob
  <2>2. /\ Box.info[src].type = "file" <=> src \in Files(Box)
        /\ Box.info[dest].type = "file" <=> dest \in Files(Box)
        /\ dest \in Files(Box) \/ dest \in Dirs(Box)
    <3>1. Box.info[dest].type \in {"file", "dir"}
      BY <2>1, GoodFacts
    <3> QED  BY <2>1, <3>1 DEF Files, Dirs
  <2>3. CASE dest \in Files(Box) /\ (Parent(Box, dest) = NULL \/ src \notin Files(Box))
    BY <1>2, <1>4, <2>1, <2>2, <2>3 DEF MoveEntry
  <2>4. CASE ~ (dest \in Files(Box) /\ (Parent(Box, dest) = NULL \/ src \notin Files(Box)))
    <3>1. PICK t : /\ t = IF dest \in Subtree(Box, src)
                          THEN [Box EXCEPT !.kids = Unlinked(@, src)]
                          ELSE IF dest \in Files(Box) THEN MovedOnto(Box, src, dest)
                          ELSE MovedInto(Box, src, dest)
                   /\ Changed(t)
      BY <1>2, <1>4, <2>1, <2>2, <2>4 DEF MoveEntry
    <3>2. dest \notin Subtree(Box, src) => src # dest
      BY DEF Subtree
    <3>3. MovedBy(src, dest, t)
      BY <2>2, <2>4, <3>1, <3>2 DEF MovedBy
    <3> QED  BY <1>4, <2>1, <3>1, <3>3
  <2> QED  BY <2>3, <2>4
<1> QED  BY <1>3, <1>4

LEMMA MovedListed ==
    ASSUME GoodTree(Box), NEW src \in Content(Box), NEW dest, NEW t, MovedBy(src, dest, t)
    PROVE  Listed(t) /\ \A x \in Subtree(Box, src) : t.info[x] = Box.info[x]
<1>1. CASE dest \in Subtree(Box, src)
  <2>1. t = [Box EXCEPT !.kids = Unlinked(@, src)]
    BY <1>1 DEF MovedBy
  <2>2. /\ Forest(Box.kids) /\ Lists(Box.kids) /\ src \in Entries /\ TreeOK(Box)
        /\ Box = [kids |-> Box.kids, info |-> Box.info] /\ Box.info \in [Entries -> Infos]
    BY GoodFacts, ForestFacts DEF TreeOK
  <2>3. PICK less : less = Unlinked(Box.kids, src)
    OBVIOUS
  <2>4. Lists(less) /\ \A c \in Places : ToSet(less[c]) \subseteq ToSet(Box.kids[c])
    <3>1. Lists(Unlinked(Box.kids, src))
      BY <2>2, UnlinkedSets
    <3>2. \A c \in Places : ToSet(Unlinked(Box.kids, src)[c]) = ToSet(Box.kids[c]) \ {src}
      BY <2>2, UnlinkedSets
    <3> QED  BY <2>3, <3>1, <3>2
  <2>5. Founded(less)
    BY <2>2, <2>4, ForestFewer
  <2>6. t.kids = less /\ t.info = Box.info /\ t = [kids |-> t.kids, info |-> t.info]
    BY <2>1, <2>2, <2>3
  <2> QED  BY <2>2, <2>4, <2>5, <2>6 DEF Listed
<1>2. CASE dest \notin Subtree(Box, src) /\ dest \in Dirs(Box)
  <2>1. t = MovedInto(Box, src, dest)
    BY <1>2 DEF MovedBy, Dirs, Files
  <2>2. TreeOK(t) /\ \A x \in Subtree(Box, src) : t.info[x] = Box.info[x]
    BY <1>2, <2>1, ItemsMovedInto
  <2> QED  BY <2>2, TreeListed
<1>3. CASE dest \notin Subtree(Box, src) /\ dest \notin Dirs(Box)
  <2>1. /\ dest \in Files(Box) /\ src \in Files(Box) /\ src # dest /\ Parent(Box, dest) # NULL
        /\ t = MovedOnto(Box, src, dest)
    BY <1>3 DEF MovedBy
  <2>2. TreeOK(t) /\ \A x \in Subtree(Box, src) : t.info[x] = Box.info[x]
    BY <2>1, ItemsMovedOnto
  <2> QED  BY <2>2, TreeListed
<1> QED  BY <1>1, <1>2, <1>3

LEMMA BaseMove ==
    ASSUME OptionsInv, BaseInv, MoveEntry
    PROVE  BaseInv'
<1>1. pc = "job" /\ job = "MOVE" /\ UNCHANGED <<cmd, before, opts, job, start>>
  BY DEF MoveEntry, Do, given
<1>2. CASE Refuse \/ Crash
  BY <1>1, <1>2, BaseStops
<1>3. ASSUME NEW src, NEW dest, NEW t, opts.f # NULL, GoodTree(Box), src \in Content(Box),
             ToSet(start) = Subtree(Box, src), MovedBy(src, dest, t), Changed(t)
      PROVE  BaseInv'
  <2>1. Listed(t) /\ \A x \in Subtree(Box, src) : t.info[x] = Box.info[x]
    BY <1>3, MovedListed
  <2> QED  BY <1>1, <1>3, <2>1, BaseChanged
<1> QED  BY <1>2, <1>3, Moves

LEMMA OutfileFacts ==
    ASSUME OptionsInv, pc \in Working, opts.f # NULL
    PROVE  /\ Outfile \in Boxes
           /\ Outfile = IF Arg("o") # NULL THEN Arg("o") ELSE Arg("f")
<1>1. cmd \in CommandLines /\ opts.f = Arg("f") /\ opts.o = Arg("o")
  BY DEF OptionsInv, OptionsKnown
<1>2. /\ Arg("f") # NULL => Arg("f") \in Boxes
      /\ Arg("o") # NULL => Arg("o") \in Boxes
  BY <1>1, ArgsOfCommands DEF Arg
<1> QED  BY <1>1, <1>2 DEF Outfile

LEMMA BaseSaved ==
    ASSUME OptionsInv, BaseInv, ba_save
    PROVE  BaseInv'
<1>1. /\ pc = "save" /\ files = FirstFiles /\ printed = <<>> /\ Edited /\ Started
      /\ UNCHANGED <<cmd, before, opts, job, archive, start, printed>>
      /\ archive # NULL /\ Listed(archive) /\ opts.f # NULL
  BY DEF ba_save, given, BaseInv, Working, Edited
<1>2. PICK h : h = Header(Rearranged(archive))
  OBVIOUS
<1>3. ~ Unreadable(h)
  <2>1. Listed(Rearranged(archive))
    BY <1>1, RearrangedInfo
  <2> QED  BY <1>2, <2>1, HeaderReadable
<1>4. \A b \in Boxes : files'[b] # NULL => ~ Unreadable(files'[b])
  <2>1. files' = files \/ files' = [files EXCEPT ![Outfile] = h]
    BY <1>2 DEF ba_save
  <2>2. \A b \in Boxes : files'[b] = files[b] \/ files'[b] = h
    BY <1>1, <2>1 DEF FirstFiles
  <2> QED  BY <1>3, <2>2 DEF BaseInv
<1>5. Started' /\ Edited'
  <2>1. Started'
    BY <1>1, SameStart
  <2>2. Box' = Box
    BY <1>1, SameArchive
  <2> QED  BY <1>1, <2>1, <2>2 DEF Edited
<1>6. pc' \in {"list", "exit"} /\ Given' = Given
  BY <1>1, SameArchive DEF ba_save, Exit
<1> QED  BY <1>1, <1>4, <1>5, <1>6 DEF BaseInv, Working

\* Jobs that leave the archive as it is.
LEMMA BaseShown ==
    ASSUME BaseInv, List \/ Details \/ Show
    PROVE  BaseInv'
<1>1. /\ UNCHANGED <<cmd, before, start, archive, files>> /\ pc # "exit"
      /\ pc' \in {"exit", "crash"} /\ (printed' = printed \/ pc' = "exit")
  BY DEF List, Details, Show, ListPaths, Refuse, Exit, Do, given, world
<1> QED  BY <1>1, BaseEnds

LEMMA BaseExtract ==
    ASSUME OptionsInv, BaseInv, Extract \/ rec_extract_func \/ Extracted
    PROVE  BaseInv'
<1>1. /\ UNCHANGED <<cmd, before, opts, job, start, archive, files, printed>> /\ pc \in {"job", "extract"}
      /\ pc' \in {"extract", "exit", "crash"}
      /\ pc' = "extract" => pc = "extract" \/ (Extract /\ opts.f # NULL /\ archive # NULL)
  BY DEF Extract, rec_extract_func, Extracted, Refuse, Exit, Do, given, world
<1>2. CASE pc' \in {"exit", "crash"}
  BY <1>1, <1>2, BaseEnds
<1>3. CASE pc' = "extract"
  <2>1. Given' = Given /\ Box' = Box
    BY <1>1, SameArchive
  <2>2. Started /\ Opened
    BY <1>1 DEF BaseInv
  <2>3. Started' /\ Opened'
    BY <1>1, <2>1, <2>2, SameStart DEF Opened
  <2>4. job = "EXTRACT" /\ opts.f # NULL /\ archive = Box
    <3>1. CASE pc = "extract"
      BY <3>1 DEF BaseInv
    <3>2. CASE pc # "extract"
      <4>1. job = "EXTRACT"
        BY <1>1, <1>3, <3>2 DEF Extract, Do
      <4> QED  BY <1>1, <1>3, <2>2, <3>2, <4>1 DEF Opened
    <3> QED  BY <3>1, <3>2
  <2>5. files = FirstFiles /\ printed = <<>>
    BY <1>1 DEF BaseInv, Working
  <2> QED  BY <1>1, <1>3, <2>1, <2>3, <2>4, <2>5 DEF BaseInv, Working
<1> QED  BY <1>1, <1>2, <1>3

LEMMA BaseStep ==
    ASSUME OptionsInv, BaseInv, [Next]_vars
    PROVE  BaseInv'
<1>1. CASE UNCHANGED vars
  <2>1. UNCHANGED <<cmd, before, opts, job, archive, start, files, printed, pc>>
    BY <1>1 DEF vars, given, world
  <2>2. Given' = Given /\ Box' = Box
    BY <2>1, SameArchive
  <2>3. /\ Opened => Opened'
        /\ Started => Started'
        /\ Edited => Edited'
    BY <2>1, <2>2, SameStart DEF Opened, Edited
  <2> QED  BY <2>1, <2>2, <2>3 DEF BaseInv
<1> QED  BY <1>1, BaseBefore, BaseOpen, BaseStart, BaseCreate, BaseRemove, BaseMove, BaseSaved,
            BaseShown, BaseExtract DEF Next

LEMMA BaseKept == Spec => [](OptionsInv /\ BaseInv)
<1>1. Init => OptionsInv /\ BaseInv
  BY OptionsInit, BaseInit
<1>2. OptionsInv /\ BaseInv /\ [Next]_vars => (OptionsInv /\ BaseInv)'
  BY OptionsStep, BaseStep
<1> QED  BY <1>1, <1>2, PTL DEF Spec

LEMMA OnceCounted ==
    ASSUME NEW S, NEW s \in Seq(S), Once(s)
    PROVE  IsFiniteSet(ToSet(s)) /\ Cardinality(ToSet(s)) = Len(s)
<1> DEFINE P == {r \in Seq(S) : Once(r) => IsFiniteSet(ToSet(r)) /\ Cardinality(ToSet(r)) = Len(r)}
<1>1. <<>> \in P
  <2>1. <<>> \in Seq(S) /\ Len(<<>>) = 0
    OBVIOUS
  <2>2. IsFiniteSet({}) /\ Cardinality({}) = 0
    BY FS_EmptySet
  <2> QED  BY <2>1, <2>2, SetOfEmpty
<1>2. ASSUME NEW r \in Seq(S), r \in P, NEW e \in S PROVE Append(r, e) \in P
  <2>1. Append(r, e) \in Seq(S) /\ Len(Append(r, e)) = Len(r) + 1
    OBVIOUS
  <2> SUFFICES ASSUME Once(Append(r, e))
               PROVE  /\ IsFiniteSet(ToSet(Append(r, e)))
                      /\ Cardinality(ToSet(Append(r, e))) = Len(Append(r, e))
    BY <2>1
  <2>2. Once(r) /\ e \notin ToSet(r)
    BY OnceFront
  <2>3. PICK A : A = ToSet(r) /\ IsFiniteSet(A) /\ Cardinality(A) = Len(r) /\ e \notin A
    BY <1>2, <2>2
  <2>4. IsFiniteSet(A \cup {e}) /\ Cardinality(A \cup {e}) = Cardinality(A) + 1
    BY <2>3, FS_AddElement
  <2>5. ToSet(Append(r, e)) = A \cup {e}
    BY <2>3, SetOfSeq
  <2> QED  BY <2>1, <2>3, <2>4, <2>5
<1>3. Seq(S) \subseteq P
  <2> HIDE DEF P
  <2> QED  BY <1>1, <1>2, SeqInduct
<1> QED  BY <1>3

LEMMA ListsPaths ==
    ASSUME OptionsInv, BaseInv, List, printed' # <<>>, Asked \in {"LIST", "MOVE"}
    PROVE  /\ printed' = [i \in DOMAIN start |-> archive.info[start[i]].path]
           /\ ToSet(start) = AskedEntries /\ Once(start) /\ start \in Seq(Entries)
           /\ \A e \in ToSet(start) : archive.info[e].path = Box.info[e].path
<1>1. pc \in {"job", "list"} /\ (pc = "job" => job = "LIST")
  BY DEF List, Do
<1>2. printed = <<>> /\ job = Asked /\ Started /\ start \in Seq(Entries)
  BY <1>1 DEF BaseInv, OptionsInv, OptionsKnown, Working
<1>3. printed' = [i \in DOMAIN start |-> archive.info[start[i]].path] /\ (pc = "job" => archive # NULL)
  BY <1>2 DEF List, ListPaths, Refuse, Do
<1>4. ToSet(start) = AskedEntries /\ Once(start)
  BY <1>2 DEF Started
<1>5. CASE pc = "job"
  <2>1. archive = Box
    BY <1>1, <1>3, <1>5, AtJob
  <2> QED  BY <1>2, <1>3, <1>4, <2>1
<1>6. CASE pc = "list"
  <2>1. \A e \in ToSet(start) : archive.info[e].path = Box.info[e].path
    BY <1>2, <1>6 DEF BaseInv, Edited
  <2> QED  BY <1>2, <1>3, <1>4, <2>1
<1> QED  BY <1>1, <1>5, <1>6

LEMMA ListedStep ==
    ASSUME OptionsInv, BaseInv, ListedAsAsked, [Next]_vars
    PROVE  ListedAsAsked'
<1>1. CASE UNCHANGED vars
  <2>1. UNCHANGED <<cmd, before, pc, printed>>
    BY <1>1 DEF vars, given
  <2> QED  BY <2>1, SameArchive DEF ListedAsAsked
<1>2. CASE Next
  <2> SUFFICES ASSUME pc' = "exit", printed' # <<>>, Asked' \in {"LIST", "MOVE"}
               PROVE  /\ ToSet(printed') = {Box'.info[e].path : e \in AskedEntries'}
                      /\ Len(printed') = Cardinality(AskedEntries')
    BY DEF ListedAsAsked
  <2>1. pc # "exit" /\ UNCHANGED <<cmd, before>>
    BY <1>2, WorkSteps DEF CountArguments, getopt, OptionsEnd, Works, Working, given
  <2>2. Box' = Box /\ AskedEntries' = AskedEntries /\ Asked' = Asked /\ printed = <<>>
    BY <2>1, SameArchive DEF BaseInv
  <2>3. List
    <3>1. List \/ Details
      BY <1>2, <2>2 DEF Next, CountArguments, getopt, OptionsEnd, OpenArchive, StartEntry, Create,
           Extract, RemoveEntry, MoveEntry, Show, ba_save, rec_extract_func, Extracted, Refuse, Crash,
           Changed
    <3>2. ~ Details
      BY <2>2 DEF Details, Do, OptionsInv, OptionsKnown, Working
    <3> QED  BY <3>1, <3>2
  <2>4. /\ printed' = [i \in DOMAIN start |-> archive.info[start[i]].path]
        /\ ToSet(start) = AskedEntries /\ Once(start) /\ start \in Seq(Entries)
        /\ \A e \in ToSet(start) : archive.info[e].path = Box.info[e].path
    BY <2>2, <2>3, ListsPaths
  <2>5. ToSet(printed') = {archive.info[e].path : e \in ToSet(start)} /\ Len(printed') = Len(start)
    <3>1. PICK s, info, u : /\ s \in Seq(Entries) /\ s = start
                            /\ info = archive.info /\ u = printed'
                            /\ u = [i \in DOMAIN s |-> info[s[i]].path]
      BY <2>4
    <3>2. ToSet(u) = {info[e].path : e \in ToSet(s)}
      <4>1. DOMAIN s = 1 .. Len(s) /\ Len(s) \in Nat
        OBVIOUS
      <4>2. u = [i \in 1 .. Len(s) |-> info[s[i]].path]
        BY <3>1, <4>1
      <4>3. DOMAIN u = 1 .. Len(s)
        BY <4>2
      <4>4. \A x : x \in ToSet(s) <=> \E i \in 1 .. Len(s) : s[i] = x
        BY <3>1, SetOfSeq
      <4>5. \A x : x \in ToSet(u) <=> \E i \in 1 .. Len(s) : info[s[i]].path = x
        BY <4>2, <4>3 DEF ToSet
      <4> QED  BY <4>4, <4>5
    <3>3. Len(u) = Len(s)
      <4>1. DOMAIN s = 1 .. Len(s) /\ Len(s) \in Nat
        OBVIOUS
      <4>2. u = [i \in 1 .. Len(s) |-> info[s[i]].path]
        BY <3>1, <4>1
      <4> QED  BY <4>1, <4>2
    <3> QED  BY <3>1, <3>2, <3>3
  <2>6. Cardinality(ToSet(start)) = Len(start)
    BY <2>4, OnceCounted
  <2> QED  BY <2>2, <2>4, <2>5, <2>6
<1> QED  BY <1>1, <1>2

\* Listing prints the entries asked for, with what is below them, each once, under the
\* paths they were opened with, whether or not the archive was changed before
\* (main.c:155, :223).
THEOREM PathsListed == Spec => []ListedAsAsked
<1>1. Init => ListedAsAsked
  BY DEF Init, ListedAsAsked
<1>2. OptionsInv /\ BaseInv /\ ListedAsAsked /\ [Next]_vars => ListedAsAsked'
  BY ListedStep
<1> QED  BY <1>1, <1>2, BaseKept, PTL DEF Spec

(***************************************************************************)
(* What is saved.                                                          *)
(***************************************************************************)
Target == IF Arg("o") # NULL THEN Arg("o") ELSE Arg("f")

SavedSoFar ==
    \A b \in Boxes :
       IF b = Target /\ b \notin Unwritable /\ Understood /\ Wanted # {}
       THEN Items(Loaded(files[b])) \in Wanted
       ELSE files[b] = FirstFiles[b]

SavedInv ==
    /\ pc = "save" => TreeOK(archive) /\ Items(archive) \in Wanted
    /\ pc \in {"list", "exit"} => SavedSoFar

LEMMA NothingWanted ==
    ASSUME \/ Arg("f") = NULL
           \/ Asked \notin {"CREATE", "REMOVE", "MOVE"}
           \/ Asked = "CREATE" /\ Arg("F") # NULL
           \/ Asked \in {"REMOVE", "MOVE"} /\ AtPath(Arg("F")) = {}
           \/ Asked = "MOVE" /\ AtPath(Arg("m")) = {}
    PROVE  Wanted = {}
<1>1. PICK f, F, j : f = Arg("f") /\ F = Arg("F") /\ j = Asked
  OBVIOUS
<1>2. CASE f = NULL \/ j \notin {"CREATE", "REMOVE", "MOVE"} \/ (j = "CREATE" /\ F # NULL)
  BY <1>1, <1>2 DEF Wanted
<1>3. CASE f # NULL /\ j = "REMOVE" /\ AtPath(Arg("F")) = {}
  BY <1>1, <1>3 DEF Wanted
<1>4. CASE f # NULL /\ j = "MOVE" /\ (AtPath(Arg("F")) = {} \/ AtPath(Arg("m")) = {})
  <2>1. Wanted = {ItemsMoved(p[1], p[2]) : p \in AtPath(Arg("F")) \X AtPath(Arg("m"))}
    BY <1>1, <1>4 DEF Wanted
  <2>2. AtPath(Arg("F")) \X AtPath(Arg("m")) = {}
    BY <1>4
  <2> QED  BY <2>1, <2>2
<1> QED  BY <1>1, <1>2, <1>3, <1>4

LEMMA CreatedWanted ==
    ASSUME Arg("f") # NULL, Asked = "CREATE", Arg("F") = NULL
    PROVE  Wanted = {Items(Sources[Arg("c")])}
BY DEF Wanted

LEMMA RemovedWanted ==
    ASSUME Arg("f") # NULL, Asked = "REMOVE", NEW e, AtPath(Arg("F")) = {e}
    PROVE  Wanted = {{i \in Items(Box) : ~ IsPrefix(NamesTo(Box, e), i[1])}}
<1>1. Wanted = {{i \in Items(Box) : ~ IsPrefix(NamesTo(Box, x), i[1])} : x \in AtPath(Arg("F"))}
  BY DEF Wanted
<1> QED  BY <1>1

LEMMA MovedWanted ==
    ASSUME Arg("f") # NULL, Asked = "MOVE", NEW e, AtPath(Arg("F")) = {e},
           NEW d, AtPath(Arg("m")) = {d}
    PROVE  Wanted = {ItemsMoved(e, d)}
<1>1. Wanted = {ItemsMoved(p[1], p[2]) : p \in AtPath(Arg("F")) \X AtPath(Arg("m"))}
  BY DEF Wanted
<1>2. AtPath(Arg("F")) \X AtPath(Arg("m")) = {<<e, d>>}
  OBVIOUS
<1>3. <<e, d>>[1] = e /\ <<e, d>>[2] = d
  OBVIOUS
<1> QED  BY <1>1, <1>2, <1>3

LEMMA SameWanted ==
    ASSUME UNCHANGED <<cmd, before>>
    PROVE  /\ Wanted' = Wanted /\ Understood' = Understood /\ Target' = Target
           /\ UNCHANGED files => SavedSoFar' = SavedSoFar
<1>1. Box' = Box /\ Asked' = Asked /\ \A path : AtPath(path)' = AtPath(path)
  BY SameArchive
<1>2. Wanted' = Wanted
  BY DEF Wanted, Box, Asked, AtPath, Arg, ItemsMoved, Items
<1>3. Understood' = Understood /\ Target' = Target
  BY DEF Understood, Target, Arg
<1> QED  BY <1>2, <1>3 DEF SavedSoFar

\* A run that ends before it has changed anything, when no change was asked for.
LEMMA EndsUnchanged ==
    ASSUME UNCHANGED <<cmd, before, files>>, pc' \in {"exit", "crash"}, files = FirstFiles,
           ~ Understood \/ Wanted = {}
    PROVE  SavedInv'
<1>1. SavedSoFar
  BY DEF SavedSoFar
<1> QED  BY <1>1, SameWanted DEF SavedInv

\* What the command line asks for is what main() does.
LEMMA AskedJob ==
    ASSUME OptionsInv, \A c \in CommandLines : Careful(c), pc \in Working
    PROVE  /\ job = Asked /\ opts.f = Arg("f") /\ opts.F = Arg("F") /\ opts.src = Arg("c")
           /\ job = "MOVE" => opts.dest = Arg("m")
           /\ Asked = "MOVE" /\ Arg("F") # NULL /\ Arg("m") # NULL => ~ IsPrefix(Arg("F"), Arg("m"))
<1>1. OptionsKnown /\ Understood /\ cmd \in CommandLines
  BY DEF OptionsInv
<1>2. Careful(cmd)
  BY <1>1
<1>3. Asked # "NONE"
  BY <1>1, <1>2 DEF Careful, Understood, Asked
<1>4. Asked = "MOVE" /\ Arg("F") # NULL /\ Arg("m") # NULL => ~ IsPrefix(Arg("F"), Arg("m"))
  BY <1>1, <1>2 DEF Careful, Understood, Asked, Arg
<1> QED  BY <1>1, <1>3, <1>4 DEF OptionsKnown

LEMMA PathsAreNoNull ==
    ASSUME GoodTree(Box)
    PROVE  AtPath(NULL) = {}
BY GoodFacts DEF AtPath

LEMMA NotUnderstood ==
    ASSUME OptionsInv, CountArguments \/ getopt, pc' = "exit"
    PROVE  ~ Understood
<1>1. CASE CountArguments
  <2>1. Words(cmd) < 2
    BY <1>1 DEF CountArguments
  <2>2. Words(cmd) \in Int
    <3>1. DOMAIN cmd = 1 .. Len(cmd) /\ Len(cmd) \in Nat
      BY CommandLineFacts DEF OptionsInv
    <3>2. IsFiniteSet(DOMAIN cmd)
      BY <3>1, FS_Interval
    <3>3. IsFiniteSet({i \in DOMAIN cmd : cmd[i].arg # NULL})
      BY <3>2, FS_Subset
    <3>4. Cardinality({i \in DOMAIN cmd : cmd[i].arg # NULL}) \in Nat
      BY <3>3, FS_CardinalityType
    <3> QED  BY <3>1, <3>4 DEF Words
  <2> QED  BY <2>1, <2>2 DEF Understood, Understands
<1>2. CASE getopt
  <2>1. args # <<>> /\ Head(args).opt = "?"
    BY <1>2 DEF getopt
  <2>2. PICK n \in Nat : OptionsRead(n)
    BY <1>2 DEF OptionsInv, getopt
  <2>3. DOMAIN cmd = 1 .. Len(cmd) /\ Len(cmd) \in Nat
    BY CommandLineFacts DEF OptionsInv
  <2>4. /\ args \in Seq(ToSet(cmd)) /\ Len(args) = Len(cmd) - n /\ n \in 0 .. Len(cmd)
        /\ \A i \in 1 .. Len(args) : args[i] = cmd[n + i]
    BY <2>2 DEF OptionsRead
  <2>5. Len(args) >= 1 /\ Head(args) = args[1] /\ Len(args) \in Nat
    BY <2>1, <2>4
  <2>6. 1 \in 1 .. Len(args) /\ n + 1 \in DOMAIN cmd
    BY <2>3, <2>4, <2>5
  <2>7. cmd[n + 1].opt = "?"
    BY <2>1, <2>4, <2>5, <2>6
  <2> QED  BY <2>6, <2>7 DEF Understood, Understands
<1> QED  BY <1>1, <1>2

LEMMA SavedBefore ==
    ASSUME OptionsInv, BaseInv, CharIsSigned, CountArguments \/ getopt \/ OptionsEnd
    PROVE  SavedInv'
<1>1. /\ UNCHANGED <<cmd, before, files>> /\ files = FirstFiles
      /\ pc \in {"args", "getopt"} /\ pc' \in {"getopt", "open", "exit"}
  BY DEF CountArguments, getopt, OptionsEnd, given, world, Exit, BaseInv
<1>2. CASE pc' # "exit"
  BY <1>1, <1>2 DEF SavedInv
<1>3. CASE pc' = "exit"
  <2>1. ~ Understood
    <3>1. CASE CountArguments \/ getopt
      BY <1>3, <3>1, NotUnderstood
    <3>2. CASE OptionsEnd
      BY <1>3, <3>2 DEF OptionsEnd
    <3> QED  BY <3>1, <3>2
  <2> QED  BY <1>1, <1>3, <2>1, EndsUnchanged
<1> QED  BY <1>2, <1>3

LEMMA SavedStart ==
    ASSUME OptionsInv, BaseInv, \A c \in CommandLines : Careful(c), StartEntry
    PROVE  SavedInv'
<1>1. /\ pc = "entry" /\ UNCHANGED <<cmd, before, files>> /\ files = FirstFiles /\ Opened
      /\ pc' \in {"job", "exit"}
      /\ pc' = "exit" => opts.F # NULL /\ Found(opts.F) = NULL
  BY DEF StartEntry, given, world, Exit, BaseInv, Working
<1>2. CASE pc' = "job"
  BY <1>2 DEF SavedInv
<1>3. CASE pc' = "exit"
  <2>1. job = Asked /\ opts.F = Arg("F")
    BY <1>1, AskedJob DEF Working
  <2>2. CASE job = "CREATE"
    <3>1. Wanted = {}
      BY <1>1, <1>3, <2>1, <2>2, NothingWanted
    <3> QED  BY <1>1, <1>3, <3>1, EndsUnchanged
  <2>3. CASE job # "CREATE"
    <3>1. AtPath(opts.F) = {}
      <4>1. CASE archive = NULL
        <5>1. Content(Box) = {}
          BY <1>1, <2>3, <4>1, EmptyTree DEF Opened
        <5> QED  BY <5>1 DEF AtPath
      <4>2. CASE archive # NULL
        <5>1. archive = Box /\ ba_get(Box, opts.F) = NULL
          BY <1>1, <1>3, <2>3, <4>2 DEF Opened, Found
        <5> QED  BY <2>1, <1>1, <1>3, <5>1, BoxIsGood, AskedIs
      <4> QED  BY <4>1, <4>2
    <3>2. Wanted = {}
      BY <2>1, <2>3, <3>1, NothingWanted
    <3> QED  BY <1>1, <1>3, <3>2, EndsUnchanged
  <2> QED  BY <2>2, <2>3
<1> QED  BY <1>1, <1>2, <1>3

\* No entry is at the path of -F if there is no archive or no -F.
LEMMA NoneAsked ==
    ASSUME OptionsInv, BaseInv, pc = "job", job # "CREATE", opts.F = NULL \/ archive = NULL
    PROVE  \A path : path = opts.F => AtPath(path) = {}
<1>1. CASE opts.F = NULL
  BY <1>1, BoxIsGood, PathsAreNoNull
<1>2. CASE archive = NULL
  <2>1. Opened
    BY DEF BaseInv
  <2>2. Content(Box) = {}
    BY <1>2, <2>1, EmptyTree DEF Opened
  <2> QED  BY <2>2 DEF AtPath
<1> QED  BY <1>1, <1>2

LEMMA ChangesWanted ==
    ASSUME UNCHANGED <<cmd, before>>, NEW t, Changed(t), TreeOK(t), Items(t) \in Wanted
    PROVE  SavedInv'
<1>1. archive' = t /\ pc' = "save"
  BY DEF Changed
<1>2. PICK i : i = Items(t)
  OBVIOUS
<1>3. Items(archive') = i
  BY <1>1, <1>2 DEF Items
<1>4. Wanted' = Wanted
  BY SameWanted
<1> QED  BY <1>1, <1>2, <1>3, <1>4 DEF SavedInv, Items

LEMMA StopsUnwanted ==
    ASSUME BaseInv, pc = "job", UNCHANGED <<cmd, before>>, Refuse, Wanted = {}
    PROVE  SavedInv'
<1>1. UNCHANGED files /\ files = FirstFiles /\ pc' = "exit"
  BY DEF Refuse, Exit, world, BaseInv, Working
<1> QED  BY <1>1, EndsUnchanged

LEMMA SavedCreate ==
    ASSUME OptionsInv, BaseInv, \A c \in CommandLines : Careful(c), Create
    PROVE  SavedInv'
<1>1. pc = "job" /\ job = "CREATE" /\ UNCHANGED <<cmd, before>> /\ Started
  BY DEF Create, Do, given, BaseInv
<1>2. job = Asked /\ opts.f = Arg("f") /\ opts.F = Arg("F") /\ opts.src = Arg("c") /\ opts.F = NULL
  BY <1>1, AskedJob DEF Working, Started
<1>3. CASE opts.f = NULL
  <2>1. Refuse /\ Wanted = {}
    BY <1>2, <1>3, NothingWanted DEF Create
  <2> QED  BY <1>1, <2>1, StopsUnwanted
<1>4. CASE opts.f # NULL /\ opts.src = NULL
  BY <1>4 DEF Create, Crash, SavedInv
<1>5. CASE opts.f # NULL /\ opts.src # NULL
  <2>1. PICK t : t = Sources[opts.src] /\ Changed(t)
    BY <1>5 DEF Create
  <2>2. opts.src \in DOMAIN Sources
    BY <1>2, <1>5, ArgsOfCommands DEF Arg, OptionsInv
  <2>3. TreeOK(t)
    BY <2>1, <2>2, TreesAssumption, GivenTrees
  <2>4. Wanted = {Items(t)}
    BY <1>1, <1>2, <1>5, <2>1, CreatedWanted
  <2> QED  BY <1>1, <2>1, <2>3, <2>4, ChangesWanted
<1> QED  BY <1>3, <1>4, <1>5

LEMMA SavedRemove ==
    ASSUME OptionsInv, BaseInv, \A c \in CommandLines : Careful(c), RemoveEntry
    PROVE  SavedInv'
<1>1. pc = "job" /\ job = "REMOVE" /\ UNCHANGED <<cmd, before>>
  BY DEF RemoveEntry, Do, given
<1>2. job = Asked /\ opts.f = Arg("f") /\ opts.F = Arg("F")
  BY <1>1, AskedJob DEF Working
<1>3. CASE NULL \in {opts.f, opts.F, archive}
  <2>1. Refuse
    BY <1>3 DEF RemoveEntry
  <2>2. opts.f = NULL \/ AtPath(Arg("F")) = {}
    BY <1>1, <1>2, <1>3, NoneAsked
  <2>3. Wanted = {}
    BY <1>1, <1>2, <2>2, NothingWanted
  <2> QED  BY <1>1, <2>1, <2>3, StopsUnwanted
<1>4. CASE NULL \notin {opts.f, opts.F, archive}
  <2>1. PICK e, t : e = Found(opts.F) /\ t = Removed(archive, e) /\ Changed(t)
    BY <1>4 DEF RemoveEntry
  <2>2. archive = Box /\ GoodTree(Box) /\ e \in Content(Box) /\ AtPath(opts.F) = {e}
    BY <1>1, <1>4, <2>1, AtJob
  <2>3. TreeOK(t) /\ Items(t) = {i \in Items(Box) : ~ IsPrefix(NamesTo(Box, e), i[1])}
    BY <2>1, <2>2, ItemsRemoved
  <2>4. Wanted = {{i \in Items(Box) : ~ IsPrefix(NamesTo(Box, e), i[1])}}
    BY <1>1, <1>2, <1>4, <2>2, RemovedWanted
  <2> QED  BY <1>1, <2>1, <2>3, <2>4, ChangesWanted
<1> QED  BY <1>3, <1>4

LEMMA SavedMove ==
    ASSUME OptionsInv, BaseInv, \A c \in CommandLines : Careful(c), MoveEntry
    PROVE  SavedInv'
<1>1. pc = "job" /\ job = "MOVE" /\ UNCHANGED <<cmd, before>>
  BY DEF MoveEntry, Do, given
<1>2. /\ job = Asked /\ opts.f = Arg("f") /\ opts.F = Arg("F") /\ opts.dest = Arg("m")
      /\ Arg("F") # NULL /\ Arg("m") # NULL => ~ IsPrefix(Arg("F"), Arg("m"))
  BY <1>1, AskedJob DEF Working
<1>3. CASE Refuse /\ NULL \in {opts.f, opts.F, archive, Found(opts.dest)}
  <2>1. opts.f = NULL \/ AtPath(Arg("F")) = {} \/ AtPath(Arg("m")) = {}
    <3>1. CASE opts.F = NULL \/ archive = NULL
      BY <1>1, <1>2, <3>1, NoneAsked
    <3>2. CASE archive # NULL /\ Found(opts.dest) = NULL
      <4>1. CASE opts.dest = NULL
        BY <1>2, <4>1, BoxIsGood, PathsAreNoNull
      <4>2. CASE opts.dest # NULL
        BY <1>1, <1>2, <3>2, <4>2, AtJob
      <4> QED  BY <4>1, <4>2
    <3> QED  BY <1>3, <3>1, <3>2
  <2>2. Wanted = {}
    BY <1>1, <1>2, <2>1, NothingWanted
  <2> QED  BY <1>1, <1>3, <2>2, StopsUnwanted
<1>4. CASE Crash
  BY <1>4 DEF Crash, SavedInv
<1>5. ASSUME NEW src, NEW dest, NEW t,
             opts.f # NULL, opts.F # NULL, opts.dest # NULL, GoodTree(Box),
             AtPath(opts.F) = {src}, AtPath(opts.dest) = {dest},
             src \in Content(Box), dest \in Content(Box), MovedBy(src, dest, t), Changed(t)
      PROVE  SavedInv'
  <2>1. Box.info[src].path = opts.F /\ Box.info[dest].path = opts.dest
    BY <1>5 DEF AtPath
  <2>2. dest \notin Subtree(Box, src)
    <3>1. ASSUME dest \in Subtree(Box, src) PROVE FALSE
      <4>1. IsPrefix(Box.info[src].path, Box.info[dest].path)
        BY <1>5, <3>1, PathsBelow
      <4> QED  BY <1>2, <1>5, <2>1, <4>1
    <3> QED  BY <3>1
  <2>3. TreeOK(t) /\ Items(t) = ItemsMoved(src, dest)
    <3>1. CASE dest \in Dirs(Box)
      <4>1. t = MovedInto(Box, src, dest)
        BY <1>5, <2>2, <3>1 DEF MovedBy, Dirs, Files
      <4> QED  BY <1>5, <2>2, <3>1, <4>1, ItemsMovedInto
    <3>2. CASE dest \notin Dirs(Box)
      <4>1. /\ dest \in Files(Box) /\ src \in Files(Box) /\ src # dest /\ Parent(Box, dest) # NULL
            /\ t = MovedOnto(Box, src, dest)
        BY <1>5, <2>2, <3>2 DEF MovedBy
      <4> QED  BY <1>5, <4>1, ItemsMovedOnto
    <3> QED  BY <3>1, <3>2
  <2>4. Wanted = {ItemsMoved(src, dest)}
    BY <1>1, <1>2, <1>5, MovedWanted
  <2> QED  BY <1>1, <1>5, <2>3, <2>4, ChangesWanted
<1> QED  BY <1>3, <1>4, <1>5, Moves

LEMMA SavedSave ==
    ASSUME OptionsInv, BaseInv, SavedInv, ba_save
    PROVE  SavedInv'
<1>1. /\ pc = "save" /\ files = FirstFiles /\ opts.f # NULL /\ UNCHANGED <<cmd, before>>
      /\ TreeOK(archive) /\ Items(archive) \in Wanted /\ Understood
  BY DEF ba_save, given, BaseInv, OptionsInv, Working, Edited, SavedInv
<1>2. Outfile \in Boxes /\ Outfile = Target
  BY <1>1, OutfileFacts DEF Working, Target
<1>3. PICK h, out1 : h = Header(Rearranged(archive)) /\ out1 = Outfile
  OBVIOUS
<1>4. Items(Loaded(h)) = Items(archive)
  BY <1>1, <1>3, ItemsSaved
<1>5. files' = IF out1 \in Unwritable THEN files ELSE [files EXCEPT ![out1] = h]
  BY <1>3 DEF ba_save
<1>6. DOMAIN files = Boxes
  BY <1>1 DEF FirstFiles
<1>7. \A b \in Boxes : IF b = Target /\ b \notin Unwritable THEN files'[b] = h
                       ELSE files'[b] = FirstFiles[b]
  BY <1>1, <1>2, <1>3, <1>5, <1>6
<1>8. \A b \in Boxes : IF b = Target /\ b \notin Unwritable THEN Items(Loaded(files'[b])) \in Wanted
                       ELSE files'[b] = FirstFiles[b]
  BY <1>1, <1>4, <1>7
<1>9. Wanted' = Wanted /\ Target' = Target /\ Understood' = Understood
  BY <1>1, SameWanted
<1>10. SavedSoFar'
  <2>1. Wanted # {}
    BY <1>1
  <2> SUFFICES ASSUME NEW b \in Boxes
               PROVE  IF b = Target' /\ b \notin Unwritable /\ Understood' /\ Wanted' # {}
                      THEN Items(Loaded(files'[b])) \in Wanted'
                      ELSE files'[b] = FirstFiles[b]
    BY DEF SavedSoFar, Items
  <2> QED  BY <1>1, <1>8, <1>9, <2>1
<1>11. pc' \in {"list", "exit"}
  BY DEF ba_save, Exit
<1> QED  BY <1>10, <1>11 DEF SavedInv

LEMMA SavedShown ==
    ASSUME OptionsInv, BaseInv, SavedInv, \A c \in CommandLines : Careful(c),
           \/ OpenArchive \/ Extract \/ List \/ Details \/ Show \/ rec_extract_func \/ Extracted
    PROVE  SavedInv'
<1>1. /\ UNCHANGED <<cmd, before, files>> /\ pc' \in {"entry", "extract", "exit", "crash"}
      /\ \/ pc = "open" /\ pc' = "entry"
         \/ pc = "list" \/ pc = "extract"
         \/ pc = "job" /\ job \notin {"CREATE", "REMOVE", "MOVE"}
  BY DEF OpenArchive, Extract, List, Details, Show, rec_extract_func, Extracted, ListPaths, Refuse,
         Exit, Do, given, world
<1>2. CASE pc' # "exit"
  BY <1>1, <1>2 DEF SavedInv
<1>3. CASE pc' = "exit" /\ pc = "list"
  BY <1>1, <1>3, SameWanted DEF SavedInv
<1>4. CASE pc' = "exit" /\ pc # "list"
  <2>1. pc \in {"job", "extract"} /\ files = FirstFiles /\ job \notin {"CREATE", "REMOVE", "MOVE"}
    BY <1>1, <1>4 DEF BaseInv, Working
  <2>2. job = Asked
    BY <2>1, AskedJob DEF Working
  <2>3. Wanted = {}
    BY <2>1, <2>2, NothingWanted
  <2> QED  BY <1>1, <1>4, <2>1, <2>3, EndsUnchanged
<1> QED  BY <1>2, <1>3, <1>4

LEMMA SavedStep ==
    ASSUME OptionsInv, BaseInv, SavedInv, CharIsSigned, \A c \in CommandLines : Careful(c), [Next]_vars
    PROVE  SavedInv'
<1>1. CASE UNCHANGED vars
  <2>1. UNCHANGED <<cmd, before, files, pc, archive>>
    BY <1>1 DEF vars, given, world
  <2>2. Wanted' = Wanted /\ SavedSoFar' = SavedSoFar
    BY <2>1, SameWanted
  <2>3. Items(archive)' = Items(archive)
    BY <2>1 DEF Items
  <2> QED  BY <2>1, <2>2, <2>3 DEF SavedInv
<1> QED  BY <1>1, SavedBefore, SavedStart, SavedCreate, SavedRemove, SavedMove, SavedSave, SavedShown
         DEF Next

\* When the program is done, the archive to be written holds what the command line asks
\* for, whatever there was in it and on the host, and no other archive has changed
\* (main.c:139, :164).  Where char is unsigned nothing is ever done, a command line
\* without a job does any, and an entry that is moved into or onto itself is lost.
THEOREM ArchiveSaved ==
    ASSUME CharIsSigned, \A c \in CommandLines : Careful(c)
    PROVE  Spec => []SavedAsAsked
<1>1. Init => SavedInv
  BY DEF Init, SavedInv
<1>2. OptionsInv /\ BaseInv /\ SavedInv /\ [Next]_vars => SavedInv'
  BY SavedStep
<1>3. SavedInv => SavedAsAsked
  BY DEF SavedInv, SavedSoFar, SavedAsAsked, Target
<1> QED  BY <1>1, <1>2, <1>3, BaseKept, PTL DEF Spec

(***************************************************************************)
(* What extracting leaves behind.                                          *)
(***************************************************************************)
\* The entries of s that todo has not.
Gone(s, todo1) == ToSet(s) \ ToSet(todo1)

\* rest is what is still to come of s, and no entry is behind while its directory
\* is still to come.
IsRest(kids, s, rest) ==
    /\ rest \in Seq(Entries) /\ Once(rest) /\ ToSet(rest) \subseteq ToSet(s)
    /\ \A i \in 1 .. Len(rest) : \A c \in ToSet(s) :
          rest[i] \in ToSet(kids[c]) => c \in Gone(s, rest) \/ \E j \in 1 .. Len(rest) : j < i /\ rest[j] = c
    /\ \A x \in Gone(s, rest) : \A c \in ToSet(s) : x \in ToSet(kids[c]) => c \in Gone(s, rest)

LEMMA AllRest ==
    ASSUME NEW kids, NEW s \in Seq(Entries), InWalkOrder(kids, s)
    PROVE  IsRest(kids, s, s) /\ Gone(s, s) = {}
BY DEF IsRest, InWalkOrder, Gone

LEMMA NextRest ==
    ASSUME NEW kids, NEW s \in Seq(Entries), NEW rest, IsRest(kids, s, rest), rest # <<>>
    PROVE  \E e, less : /\ e = Head(rest) /\ less = Tail(rest)
                        /\ IsRest(kids, s, less)
                        /\ e \in ToSet(s) /\ e \notin Gone(s, rest)
                        /\ Gone(s, less) = Gone(s, rest) \cup {e}
                        /\ \A c \in ToSet(s) : e \in ToSet(kids[c]) => c \in Gone(s, rest)
<1>1. rest \in Seq(Entries) /\ Once(rest) /\ ToSet(rest) \subseteq ToSet(s)
  BY DEF IsRest
<1>2. PICK e, less : e = Head(rest) /\ less = Tail(rest)
  OBVIOUS
<1>3. Len(rest) \in Nat /\ Len(rest) >= 1 /\ 1 \in 1 .. Len(rest) /\ rest[1] = e
  <2>1. Len(rest) \in Nat /\ Len(rest) >= 1 /\ Head(rest) = rest[1]
    BY <1>1
  <2> QED  BY <1>2, <2>1
<1>4. /\ less \in Seq(Entries) /\ Len(less) = Len(rest) - 1
      /\ \A i \in 1 .. Len(less) : less[i] = rest[i + 1] /\ i + 1 \in 1 .. Len(rest)
  <2>1. /\ Tail(rest) \in Seq(Entries) /\ Len(Tail(rest)) = Len(rest) - 1
        /\ \A i \in 1 .. Len(Tail(rest)) : Tail(rest)[i] = rest[i + 1]
    BY <1>1, <1>3
  <2>2. \A i \in 1 .. Len(rest) - 1 : i + 1 \in 1 .. Len(rest)
    BY <1>3
  <2> QED  BY <1>2, <2>1, <2>2
<1>5. /\ \A x : x \in ToSet(rest) <=> \E i \in 1 .. Len(rest) : rest[i] = x
      /\ \A x : x \in ToSet(less) <=> \E i \in 1 .. Len(less) : less[i] = x
  BY <1>1, <1>4, SetOfSeq
<1>6. e \notin ToSet(less)
  <2>1. ASSUME NEW i \in 1 .. Len(less), less[i] = e PROVE FALSE
    <3>1. i + 1 = 1
      BY <1>1, <1>3, <1>4, <2>1 DEF Once
    <3> QED  BY <3>1
  <2> QED  BY <1>5, <2>1
<1>7. ToSet(rest) = {e} \cup ToSet(less)
  <2>1. ASSUME NEW i \in 1 .. Len(rest) PROVE rest[i] = e \/ rest[i] \in ToSet(less)
    <3>1. CASE i = 1
      BY <1>3, <3>1
    <3>2. CASE i # 1
      <4>1. i - 1 \in 1 .. Len(less) /\ (i - 1) + 1 = i
        BY <1>3, <1>4, <3>2
      <4> QED  BY <1>4, <1>5, <4>1
    <3> QED  BY <3>1, <3>2
  <2>2. \A i \in 1 .. Len(less) : less[i] \in ToSet(rest)
    BY <1>4, <1>5
  <2> QED  BY <1>3, <1>5, <2>1, <2>2
<1>8. e \in ToSet(s) /\ e \notin Gone(s, rest) /\ Gone(s, less) = Gone(s, rest) \cup {e}
  BY <1>1, <1>6, <1>7 DEF Gone
<1>9. ASSUME NEW c \in ToSet(s), e \in ToSet(kids[c]) PROVE c \in Gone(s, rest)
  <2>1. c \in Gone(s, rest) \/ \E j \in 1 .. Len(rest) : j < 1 /\ rest[j] = c
    BY <1>3, <1>9 DEF IsRest
  <2> QED  BY <2>1
<1>10. Once(less)
  BY <1>1, <1>4 DEF Once
<1>11. ASSUME NEW i \in 1 .. Len(less), NEW c \in ToSet(s), less[i] \in ToSet(kids[c])
       PROVE  c \in Gone(s, less) \/ \E j \in 1 .. Len(less) : j < i /\ less[j] = c
  <2>1. c \in Gone(s, rest) \/ \E j \in 1 .. Len(rest) : j < i + 1 /\ rest[j] = c
    BY <1>4, <1>11 DEF IsRest
  <2>2. CASE c \in Gone(s, rest)
    BY <1>8, <2>2
  <2>3. ASSUME NEW j \in 1 .. Len(rest), j < i + 1, rest[j] = c
        PROVE  c \in Gone(s, less) \/ \E k \in 1 .. Len(less) : k < i /\ less[k] = c
    <3>1. CASE j = 1
      BY <1>3, <1>8, <2>3, <3>1
    <3>2. CASE j # 1
      <4>1. j - 1 \in 1 .. Len(less) /\ (j - 1) + 1 = j /\ j - 1 < i
        BY <1>3, <1>4, <2>3, <3>2
      <4> QED  BY <1>4, <2>3, <4>1
    <3> QED  BY <3>1, <3>2
  <2> QED  BY <2>1, <2>2, <2>3
<1>12. ASSUME NEW x \in Gone(s, less), NEW c \in ToSet(s), x \in ToSet(kids[c])
       PROVE  c \in Gone(s, less)
  <2>1. CASE x = e
    BY <1>8, <1>9, <1>12, <2>1
  <2>2. CASE x # e
    <3>1. x \in Gone(s, rest)
      BY <1>8, <2>2
    <3>2. c \in Gone(s, rest)
      BY <1>12, <3>1 DEF IsRest
    <3> QED  BY <1>8, <3>2
  <2> QED  BY <2>1, <2>2
<1>13. IsRest(kids, s, less)
  <2>1. ToSet(less) \subseteq ToSet(s)
    BY <1>1, <1>7
  <2> QED  BY <1>4, <1>10, <1>11, <1>12, <2>1 DEF IsRest
<1> QED  BY <1>2, <1>8, <1>9, <1>13

Was == before.out

Nodes == [kind : {"none", "file", "dir"}, data : Entries \cup {NULL}, time : {"old", "now", "saved"}]

PlaceOf(x) == NamesTo(Box, x)
PlacesAsked == {PlaceOf(x) : x \in AskedEntries}

\* Nothing on the way to p keeps it from being made.
Reach(p) ==
    \A q \in Prefixes(p) \ {p} : Was[q].kind = "dir" \/ (Was[q].kind = "none" /\ q \in PlacesAsked)

\* What is there is in a directory.
OutShape(o) ==
    /\ o \in [Targets -> Nodes]
    /\ \A p \in Targets \ {<<>>} : o[p].kind # "none" => o[Front(p)].kind = "dir"

\* What extraction starts from.
Setting ==
    /\ GoodTree(Box) /\ Content(Box) \subseteq Entries /\ NULL \notin Entries
    /\ AskedEntries \subseteq Content(Box)
    /\ \A e \in Content(Box) : PlaceOf(e) \in Targets
    /\ OutShape(Was)
    /\ \A p \in Targets : Was[p].data = NULL

LEMMA NodeParts ==
    ASSUME NEW o \in [Targets -> Nodes], NEW p \in Targets
    PROVE  /\ o[p].kind \in {"none", "file", "dir"} /\ o[p].data \in Entries \cup {NULL}
           /\ o[p].time \in {"old", "now", "saved"}
           /\ o[p] = [kind |-> o[p].kind, data |-> o[p].data, time |-> o[p].time]
<1>1. o[p] \in Nodes
  OBVIOUS
<1> QED  BY <1>1 DEF Nodes

LEMMA SettingGiven ==
    ASSUME OptionsInv, BaseInv
    PROVE  Setting
<1>1. /\ GoodTree(Box) /\ Content(Box) \subseteq Entries
      /\ \A e \in Content(Box) : PlaceOf(e) \in Targets
  BY BoxIsGood DEF PlaceOf
<1>2. AskedEntries \subseteq Content(Box)
  <2>1. Content(Box) = Linked(Box.kids) /\ Forest(Box.kids)
    BY <1>1, GoodFacts
  <2>2. ASSUME NEW e \in Content(Box) PROVE Subtree(Box, e) \subseteq Content(Box)
    <3>1. e \in Places
      BY <1>1 DEF Places
    <3> QED  BY <2>1, <3>1, ForestFacts DEF Subtree
  <2>3. AtPath(Arg("F")) \subseteq Content(Box)
    BY DEF AtPath
  <2> QED  BY <2>2, <2>3 DEF AskedEntries
<1>3. /\ Was \in [Targets -> [kind : {"none", "file", "dir"}, data : {NULL}, time : {"old"}]]
      /\ \A p \in Targets \ {<<>>} : Was[p].kind # "none" => Was[Front(p)].kind = "dir"
  BY PlacesAssumption DEF OptionsInv, BaseInv, Was
<1>4. \A p \in Targets : Was[p] \in Nodes /\ Was[p].data = NULL
  <2>1. \A p \in Targets : Was[p] \in [kind : {"none", "file", "dir"}, data : {NULL}, time : {"old"}]
    BY <1>3
  <2> QED  BY <2>1 DEF Nodes
<1>5. OutShape(Was)
  BY <1>3, <1>4 DEF OutShape
<1> QED  BY <1>1, <1>2, <1>4, <1>5, PathsAssumption DEF Setting

\* The directories on the way to a place are places.
LEMMA WayInTargets ==
    ASSUME NEW p \in Targets
    PROVE  Prefixes(p) \subseteq Targets
<1> DEFINE P == {t \in Seq(Names) : t \in Targets => Prefixes(t) \subseteq Targets}
<1>1. <<>> \in P
  <2>1. <<>> \in Seq(Names)
    OBVIOUS
  <2>2. Prefixes(<<>>) = {<<>>}
    BY <2>1, PrefixSet
  <2> QED  BY <2>1, <2>2
<1>2. ASSUME NEW t \in Seq(Names), t \in P, NEW n \in Names PROVE Append(t, n) \in P
  <2>1. Append(t, n) \in Seq(Names) /\ Front(Append(t, n)) = t /\ Append(t, n) # <<>>
    BY FrontOfAppend
  <2>2. PICK u \in Seq(Names) : u = Append(t, n)
    BY <2>1
  <2> SUFFICES ASSUME u \in Targets PROVE Prefixes(u) \subseteq Targets
    BY <2>2
  <2>3. t \in Targets
    BY <2>1, <2>2, PlacesAssumption
  <2>4. Prefixes(u) \ {u} = Prefixes(t)
    BY <2>2, WayTo
  <2> QED  BY <1>2, <2>3, <2>4
<1>3. Seq(Names) \subseteq P
  <2> HIDE DEF P
  <2> QED  BY <1>1, <1>2, SeqInduct
<1>4. p \in Seq(Names)
  BY PlacesAssumption
<1> QED  BY <1>3, <1>4

\* What there is can be reached.
LEMMA ReachWhatIs ==
    ASSUME Setting, NEW p \in Targets, Was[p].kind # "none"
    PROVE  Reach(p)
<1> DEFINE P == {t \in Seq(Names) : t \in Targets /\ Was[t].kind # "none" => Reach(t)}
<1>1. <<>> \in P
  <2>1. <<>> \in Seq(Names)
    OBVIOUS
  <2>2. Prefixes(<<>>) = {<<>>}
    BY <2>1, PrefixSet
  <2> QED  BY <2>1, <2>2 DEF Reach
<1>2. ASSUME NEW t \in Seq(Names), t \in P, NEW n \in Names PROVE Append(t, n) \in P
  <2>1. Append(t, n) \in Seq(Names) /\ Front(Append(t, n)) = t /\ Append(t, n) # <<>>
    BY FrontOfAppend
  <2>2. PICK u \in Seq(Names) : u = Append(t, n)
    BY <2>1
  <2> SUFFICES ASSUME u \in Targets, Was[u].kind # "none" PROVE Reach(u)
    BY <2>2
  <2>3. t \in Targets /\ Was[t].kind = "dir"
    <3>1. u \in Targets \ {<<>>} /\ Front(u) = t
      BY <2>1, <2>2
    <3>2. t \in Targets
      BY <3>1, PlacesAssumption
    <3> QED  BY <3>1, <3>2 DEF Setting, OutShape
  <2>4. Prefixes(u) \ {u} = (Prefixes(t) \ {t}) \cup {t}
    <3>1. Prefixes(u) \ {u} = Prefixes(t)
      BY <2>2, WayTo
    <3>2. t \in Prefixes(t)
      BY PrefixSet, PrefixSelf
    <3> QED  BY <3>1, <3>2
  <2>5. Reach(t)
    BY <1>2, <2>3
  <2> QED  BY <2>3, <2>4, <2>5 DEF Reach
<1>3. Seq(Names) \subseteq P
  <2> HIDE DEF P
  <2> QED  BY <1>1, <1>2, SeqInduct
<1>4. p \in Seq(Names)
  BY PlacesAssumption
<1> QED  BY <1>3, <1>4

\* A place can be reached if the directory around it can, and is there or is asked for.
LEMMA ReachInDir ==
    ASSUME Setting, NEW e \in Content(Box), NEW d, NEW n, InTree(Box, e, d, n)
    PROVE  /\ PlaceOf(e) \in Targets /\ PlaceOf(e) # <<>> /\ n \in Targets
           /\ Front(PlaceOf(e)) = n /\ n # PlaceOf(e)
           /\ Reach(PlaceOf(e)) <=> /\ Reach(n)
                                    /\ \/ Was[n].kind = "dir"
                                       \/ Was[n].kind = "none" /\ n \in PlacesAsked
<1>1. PICK c, u : /\ c \in Names /\ c = Box.info[e].name /\ u = PlaceOf(e) /\ u = Append(n, c)
                  /\ u # <<>> /\ Front(u) = n /\ n \in Seq(Names) /\ Len(u) = Len(n) + 1
  BY DEF InTree, PlaceOf
<1>2. u \in Targets
  BY <1>1 DEF Setting
<1>3. n \in Targets
  BY <1>1, <1>2, PlacesAssumption
<1>4. n # u
  <2>1. Len(n) \in Nat
    BY <1>1
  <2> QED  BY <1>1, <2>1
<1>5. Prefixes(u) \ {u} = (Prefixes(n) \ {n}) \cup {n}
  <2>1. Prefixes(u) \ {u} = Prefixes(n)
    <3>1. n \in Seq(Names) /\ c \in Names /\ u = Append(n, c)
      BY <1>1
    <3> QED  BY <3>1, WayTo
  <2>2. n \in Prefixes(n)
    BY <1>1, PrefixSet, PrefixSelf
  <2> QED  BY <2>1, <2>2
<1>6. Reach(u) <=> /\ Reach(n)
                   /\ Was[n].kind = "dir" \/ (Was[n].kind = "none" /\ n \in PlacesAsked)
  BY <1>5 DEF Reach
<1> QED  BY <1>1, <1>2, <1>3, <1>4, <1>6

ItemKept(o, p) == o[p].kind = Was[p].kind /\ o[p].data = NULL

FileOut(o, x, p) ==
    IF Was[p].kind # "dir" /\ Reach(p)
    THEN o[p].kind = "file" /\ o[p].data = x /\ o[p].time = "saved"
    ELSE ItemKept(o, p)

DirOut(o, p) ==
    /\ o[p].kind = IF Was[p].kind = "none" /\ Reach(p) THEN "dir" ELSE Was[p].kind
    /\ o[p].data = NULL

\* Something was made in the directory p.
NewIn(o, p) ==
    \E q \in Targets \ {<<>>} : Was[q].kind = "none" /\ o[q].kind # "none" /\ Front(q) = p

DirTime(o, p) == o[p].kind = "dir" => (o[p].time = "saved" <=> ~ NewIn(o, p))

\* The entries in D were extracted.
OutFacts(o, D) ==
    /\ OutShape(o)
    /\ D \subseteq AskedEntries
    /\ \A y \in D : \A c \in AskedEntries : y \in ToSet(Box.kids[c]) => c \in D
    /\ \A p \in Targets : p \notin {PlaceOf(x) : x \in D} => ItemKept(o, p)
    /\ \A x \in D \cap Files(Box) : FileOut(o, x, PlaceOf(x))
    /\ \A x \in D \cap Dirs(Box) : DirOut(o, PlaceOf(x)) /\ DirTime(o, PlaceOf(x))

LEMMA OutFirst ==
    ASSUME Setting
    PROVE  OutFacts(Was, {})
BY DEF Setting, OutFacts, ItemKept

\* Entry e is the next to be extracted, to p, which is in n.
Comes(D, e, p, n) ==
    /\ e \in AskedEntries /\ e \notin D
    /\ \A c \in AskedEntries : e \in ToSet(Box.kids[c]) => c \in D
    /\ p = PlaceOf(e) /\ p \in Targets /\ p # <<>> /\ n = Front(p) /\ n \in Targets /\ n # p

LEMMA NextComes ==
    ASSUME Setting, NEW o, NEW D, OutFacts(o, D), NEW e \in AskedEntries, e \notin D,
           \A c \in AskedEntries : e \in ToSet(Box.kids[c]) => c \in D
    PROVE  \E p, n : /\ Comes(D, e, p, n) /\ ItemKept(o, p)
                     /\ p \notin {PlaceOf(x) : x \in D}
                     /\ o[n].kind = "dir" <=> Reach(p)
<1>1. /\ GoodTree(Box) /\ e \in Content(Box) /\ AskedEntries \subseteq Content(Box)
      /\ D \subseteq AskedEntries
  BY DEF Setting, OutFacts
<1>2. PICK d, n : InTree(Box, e, d, n)
  BY <1>1, GoodParent
<1>3. PICK p : /\ p = PlaceOf(e) /\ p \in Targets /\ p # <<>> /\ n \in Targets /\ Front(p) = n /\ n # p
               /\ Reach(p) <=> /\ Reach(n)
                               /\ \/ Was[n].kind = "dir"
                                  \/ Was[n].kind = "none" /\ n \in PlacesAsked
  BY <1>1, <1>2, ReachInDir
<1>4. \A x, y \in Content(Box) : PlaceOf(x) = PlaceOf(y) => x = y
  BY <1>1, GoodFacts DEF PlaceOf
<1>5. p \notin {PlaceOf(x) : x \in D}
  BY <1>1, <1>3, <1>4
<1>6. ItemKept(o, p)
  BY <1>3, <1>5 DEF OutFacts
<1>7. Was[n].kind \in {"none", "file", "dir"} /\ (Was[n].kind = "dir" => Reach(n))
  <2>1. Was \in [Targets -> Nodes]
    BY DEF Setting, OutShape
  <2> QED  BY <1>3, <2>1, NodeParts, ReachWhatIs
<1>8. /\ d = NULL \/ d \in Dirs(Box)
      /\ d \in Dirs(Box) => d # NULL /\ d \in Content(Box) /\ n = PlaceOf(d)
      /\ d = NULL => n = <<>>
      /\ e \in ToSet(Box.kids[d])
  BY <1>1, <1>2, GoodFacts DEF InTree, NamesOf, PlaceOf, Dirs
<1>9. ASSUME NEW x \in AskedEntries, PlaceOf(x) = n PROVE x = d /\ d \in Dirs(Box)
  <2>1. PlaceOf(x) # <<>>
    <3>1. PICK c, m : InTree(Box, x, c, m)
      BY <1>1, GoodParent
    <3> QED  BY <3>1 DEF InTree, PlaceOf
  <2> QED  BY <1>1, <1>4, <1>8, <1>9, <2>1
<1>10. CASE d \in AskedEntries
  <2>1. d \in D /\ d \in Dirs(Box) /\ n = PlaceOf(d) /\ n \in PlacesAsked
    <3>1. d # NULL
      BY <1>10 DEF Setting
    <3> QED  BY <1>8, <1>10, <3>1 DEF PlacesAsked
  <2>2. DirOut(o, n)
    BY <2>1 DEF OutFacts
  <2> QED  BY <1>3, <1>5, <1>6, <1>7, <2>1, <2>2 DEF DirOut, Comes
<1>11. CASE d \notin AskedEntries
  <2>1. n \notin PlacesAsked /\ n \notin {PlaceOf(x) : x \in D}
    BY <1>1, <1>9, <1>11 DEF PlacesAsked
  <2>2. ItemKept(o, n)
    BY <1>3, <2>1 DEF OutFacts
  <2> QED  BY <1>3, <1>5, <1>6, <1>7, <2>1, <2>2 DEF ItemKept, Comes
<1> QED  BY <1>10, <1>11

\* node comes to p, which is in n.
Changes(o, u, p, n, node) ==
    /\ u \in [Targets -> Nodes] /\ u[p] = node
    /\ \A q \in Targets : q # p =>
          /\ u[q].kind = o[q].kind /\ u[q].data = o[q].data
          /\ u[q].time = IF o[p].kind = "none" /\ q = n THEN "now" ELSE o[q].time

LEMMA PutChanges ==
    ASSUME NEW o \in [Targets -> Nodes], NEW p \in Targets, NEW n \in Targets, n # p,
           NEW node \in Nodes, NEW u,
           u = IF o[p].kind = "none" THEN [o EXCEPT ![p] = node, ![n].time = "now"]
               ELSE [o EXCEPT ![p] = node]
    PROVE  Changes(o, u, p, n, node)
<1>1. PICK m : m = [o[n] EXCEPT !.time = "now"]
  OBVIOUS
<1>2. /\ m \in Nodes /\ m.kind = o[n].kind /\ m.data = o[n].data /\ m.time = "now"
  BY <1>1, NodeParts DEF Nodes
<1>3. CASE o[p].kind = "none"
  <2>1. u = [o EXCEPT ![p] = node, ![n].time = "now"]
    BY <1>3
  <2>2. u = [q \in Targets |-> IF q = n THEN m ELSE IF q = p THEN node ELSE o[q]]
    BY <1>1, <2>1
  <2> QED  BY <1>2, <1>3, <2>2 DEF Changes
<1>4. CASE o[p].kind # "none"
  <2>1. u = [q \in Targets |-> IF q = p THEN node ELSE o[q]]
    BY <1>4
  <2> QED  BY <1>4, <2>1 DEF Changes
<1> QED  BY <1>3, <1>4

\* Only the place of e need have changed, or the time of the directory it is in.
OthersKept(u, D, e) ==
    /\ OutShape(u)
    /\ \A q \in Targets : q \notin {PlaceOf(x) : x \in D \cup {e}} => ItemKept(u, q)
    /\ \A x \in D \cap Files(Box) : FileOut(u, x, PlaceOf(x))
    /\ \A x \in D \cap Dirs(Box) : DirOut(u, PlaceOf(x)) /\ DirTime(u, PlaceOf(x))

\* What comes to a place with a directory around it changes nothing else.
LEMMA PutKeeps ==
    ASSUME Setting, NEW o, NEW D, OutFacts(o, D), NEW e, NEW p, NEW n, Comes(D, e, p, n),
           p \notin {PlaceOf(x) : x \in D}, ItemKept(o, p), o[n].kind = "dir",
           NEW node \in Nodes, node.kind \in {"file", "dir"}, node.kind = "file" => o[p].kind # "dir",
           NEW u, Changes(o, u, p, n, node)
    PROVE  OthersKept(u, D, e)
<1>1. /\ o \in [Targets -> Nodes] /\ u \in [Targets -> Nodes] /\ u[p] = node
      /\ p \in Targets /\ p # <<>> /\ n = Front(p) /\ n \in Targets /\ n # p /\ p = PlaceOf(e)
      /\ D \subseteq AskedEntries
      /\ \A q \in Targets \ {<<>>} : o[q].kind # "none" => o[Front(q)].kind = "dir"
      /\ \A q \in Targets : q # p =>
          /\ u[q].kind = o[q].kind /\ u[q].data = o[q].data
          /\ u[q].time = IF o[p].kind = "none" /\ q = n THEN "now" ELSE o[q].time
  BY DEF Comes, OutFacts, OutShape, Changes
<1>2. \A x \in D : PlaceOf(x) \in Targets /\ PlaceOf(x) # p
  BY <1>1 DEF Setting
<1>3. ASSUME NEW q \in Targets \ {<<>>}, u[q].kind # "none" PROVE u[Front(q)].kind = "dir"
  <2>1. Front(q) \in Targets
    BY PlacesAssumption
  <2>2. CASE q = p
    BY <1>1, <2>2
  <2>3. CASE q # p
    <3>1. o[Front(q)].kind = "dir"
      BY <1>1, <1>3, <2>3
    <3>2. CASE Front(q) = p
      BY <1>1, <3>1, <3>2
    <3>3. CASE Front(q) # p
      BY <1>1, <2>1, <3>1, <3>3
    <3> QED  BY <3>2, <3>3
  <2> QED  BY <2>2, <2>3
<1>4. ASSUME NEW q \in Targets, q \notin {PlaceOf(x) : x \in D \cup {e}} PROVE ItemKept(u, q)
  <2>1. q # p /\ q \notin {PlaceOf(x) : x \in D}
    BY <1>1, <1>4
  <2>2. ItemKept(o, q)
    BY <2>1 DEF OutFacts
  <2> QED  BY <1>1, <2>1, <2>2 DEF ItemKept
<1>5. ASSUME NEW x \in D \cap Files(Box) PROVE FileOut(u, x, PlaceOf(x))
  <2>1. PICK q : q = PlaceOf(x) /\ q \in Targets /\ q # p /\ FileOut(o, x, q)
    BY <1>2 DEF OutFacts
  <2>2. /\ u[q].kind = o[q].kind /\ u[q].data = o[q].data
        /\ o[q].kind = "file" => u[q].time = o[q].time
    BY <1>1, <2>1
  <2> QED  BY <2>1, <2>2 DEF FileOut, ItemKept
<1>6. \A q : NewIn(u, q) <=> NewIn(o, q) \/ (Was[p].kind = "none" /\ q = n)
  BY <1>1 DEF NewIn, ItemKept
<1>7. ASSUME NEW x \in D \cap Dirs(Box) PROVE DirOut(u, PlaceOf(x)) /\ DirTime(u, PlaceOf(x))
  <2>1. PICK q : q = PlaceOf(x) /\ q \in Targets /\ q # p /\ DirOut(o, q) /\ DirTime(o, q)
    BY <1>2 DEF OutFacts
  <2>2. /\ u[q].kind = o[q].kind /\ u[q].data = o[q].data
        /\ u[q].time = IF Was[p].kind = "none" /\ q = n THEN "now" ELSE o[q].time
    BY <1>1, <2>1 DEF ItemKept
  <2>3. DirOut(u, q)
    BY <2>1, <2>2 DEF DirOut
  <2>4. DirTime(u, q)
    BY <1>6, <2>1, <2>2 DEF DirTime
  <2> QED  BY <2>1, <2>3, <2>4
<1>8. OutShape(u)
  BY <1>1, <1>3 DEF OutShape
<1> QED  BY <1>4, <1>5, <1>7, <1>8 DEF OthersKept

\* What is left to show of an entry that is extracted.
Extracts(o, u, D, e) ==
    /\ e \in AskedEntries /\ e \notin D
    /\ \A c \in AskedEntries : e \in ToSet(Box.kids[c]) => c \in D

LEMMA OneMore ==
    ASSUME NEW o, NEW u, NEW D, NEW e, Extracts(o, u, D, e), OutFacts(o, D),
           OthersKept(u, D, e),
           e \in Files(Box) => FileOut(u, e, PlaceOf(e)),
           e \in Dirs(Box) => DirOut(u, PlaceOf(e)) /\ DirTime(u, PlaceOf(e))
    PROVE  OutFacts(u, D \cup {e})
<1>1. /\ D \cup {e} \subseteq AskedEntries
      /\ \A y \in D \cup {e} : \A c \in AskedEntries : y \in ToSet(Box.kids[c]) => c \in D \cup {e}
  BY DEF OutFacts, Extracts
<1>2. \A x \in (D \cup {e}) \cap Files(Box) : FileOut(u, x, PlaceOf(x))
  BY DEF OthersKept
<1>3. \A x \in (D \cup {e}) \cap Dirs(Box) : DirOut(u, PlaceOf(x)) /\ DirTime(u, PlaceOf(x))
  BY DEF OthersKept
<1> QED  BY <1>1, <1>2, <1>3 DEF OutFacts, OthersKept

LEMMA FilesAreNoDirs == \A e : ~ (e \in Files(Box) /\ e \in Dirs(Box))
BY DEF Files, Dirs

LEMMA FileExtracted ==
    ASSUME Setting, NEW o, NEW D, OutFacts(o, D), NEW e \in Files(Box), NEW u, Extracts(o, u, D, e),
           NEW p, p = PlaceOf(e),
           NEW node \in Nodes, node.kind = "file", node.data = e, node.time = "saved",
           \/ /\ o[Front(p)].kind = "dir" /\ o[p].kind = "none"
              /\ u = [o EXCEPT ![p] = node, ![Front(p)].time = "now"]
           \/ o[Front(p)].kind = "dir" /\ o[p].kind = "file" /\ u = [o EXCEPT ![p] = node]
           \/ ~ (o[Front(p)].kind = "dir" /\ o[p].kind # "dir") /\ u = o
    PROVE  OutFacts(u, D \cup {e})
<1>1. PICK n : /\ Comes(D, e, p, n) /\ ItemKept(o, p) /\ p \notin {PlaceOf(x) : x \in D}
               /\ o[n].kind = "dir" <=> Reach(p)
  BY NextComes DEF Extracts, Comes
<1>2. p \in Targets /\ n \in Targets /\ n # p /\ n = Front(p) /\ o \in [Targets -> Nodes]
  BY <1>1 DEF Comes, OutFacts, OutShape
<1>4. e \notin Dirs(Box)
  BY FilesAreNoDirs
<1>5. CASE o[n].kind = "dir" /\ o[p].kind # "dir"
  <2>1. Changes(o, u, p, n, node)
    <3>1. u = IF o[p].kind = "none" THEN [o EXCEPT ![p] = node, ![n].time = "now"]
              ELSE [o EXCEPT ![p] = node]
      BY <1>2, <1>5
    <3> QED  BY <1>2, <3>1, PutChanges
  <2>2. OthersKept(u, D, e)
    <3>1. node \in Nodes /\ node.kind \in {"file", "dir"} /\ (node.kind = "file" => o[p].kind # "dir")
      BY <1>5
    <3>2. Comes(D, e, p, n) /\ p \notin {PlaceOf(x) : x \in D} /\ ItemKept(o, p) /\ o[n].kind = "dir"
      BY <1>1, <1>5
    <3> QED  BY <2>1, <3>1, <3>2, PutKeeps
  <2>3. FileOut(u, e, p)
    BY <1>1, <1>5, <2>1 DEF FileOut, Changes, ItemKept
  <2> QED  BY <1>4, <2>2, <2>3, OneMore
<1>6. CASE ~ (o[n].kind = "dir" /\ o[p].kind # "dir")
  <2>1. u = o
    BY <1>2, <1>6
  <2>2. OthersKept(o, D, e)
    BY DEF OutFacts, OthersKept
  <2>3. FileOut(o, e, p)
    BY <1>1, <1>6 DEF FileOut, ItemKept
  <2>4. FileOut(o, e, PlaceOf(e))
    BY <2>3
  <2>5. OutFacts(o, D \cup {e})
    <3>1. Extracts(o, o, D, e)
      BY DEF Extracts
    <3> QED  BY <1>4, <2>2, <2>4, <3>1, OneMore
  <2> QED  BY <2>1, <2>5
<1> QED  BY <1>5, <1>6

\* Nothing was made in a directory that is still to come.
LEMMA NothingNewYet ==
    ASSUME Setting, NEW o, NEW D, OutFacts(o, D), NEW e \in Dirs(Box), NEW p, NEW n, Comes(D, e, p, n)
    PROVE  ~ NewIn(o, p)
<1> SUFFICES ASSUME NEW q \in Targets, Was[q].kind = "none", o[q].kind # "none", Front(q) = p
             PROVE  FALSE
  BY DEF NewIn
<1>1. PICK y \in D : q = PlaceOf(y)
  BY DEF OutFacts, ItemKept
<1>2. GoodTree(Box) /\ y \in Content(Box) /\ e \in Content(Box)
  BY DEF Setting, OutFacts, Dirs
<1>3. PICK d, m : InTree(Box, y, d, m)
  BY <1>2, GoodParent
<1>4. d \in Dirs(Box) /\ NamesTo(Box, d) = p /\ y \in ToSet(Box.kids[d])
  <2>1. Front(q) = NamesOf(Box, d) /\ d \in Dirs(Box) \cup {NULL} /\ y \in ToSet(Box.kids[d])
    BY <1>1, <1>3 DEF InTree, PlaceOf
  <2>2. p # <<>>
    BY DEF Comes
  <2>3. d # NULL
    BY <2>1, <2>2 DEF NamesOf
  <2> QED  BY <2>1, <2>3 DEF NamesOf
<1>5. d = e
  <2>1. d \in Content(Box) /\ NamesTo(Box, d) = NamesTo(Box, e)
    BY <1>4 DEF Dirs, Comes, PlaceOf
  <2> QED  BY <1>2, <2>1, GoodFacts
<1> QED  BY <1>1, <1>4, <1>5 DEF OutFacts, Comes

LEMMA DirExtracted ==
    ASSUME Setting, NEW o, NEW D, OutFacts(o, D), NEW e \in Dirs(Box), NEW u, Extracts(o, u, D, e),
           NEW p, p = PlaceOf(e),
           NEW node, node = [kind |-> "dir", data |-> NULL, time |-> "saved"],
           \/ /\ o[Front(p)].kind = "dir" /\ o[p].kind = "none"
              /\ u = [o EXCEPT ![p] = node, ![Front(p)].time = "now"]
           \/ o[p].kind = "dir" /\ u = [o EXCEPT ![p].time = "saved"]
           \/ ~ (o[Front(p)].kind = "dir" /\ o[p].kind = "none") /\ o[p].kind # "dir" /\ u = o
    PROVE  OutFacts(u, D \cup {e})
<1>1. PICK n : /\ Comes(D, e, p, n) /\ ItemKept(o, p) /\ p \notin {PlaceOf(x) : x \in D}
               /\ o[n].kind = "dir" <=> Reach(p)
  BY NextComes DEF Extracts, Comes
<1>2. /\ p \in Targets /\ n \in Targets /\ n # p /\ n = Front(p) /\ p # <<>>
      /\ o \in [Targets -> Nodes]
      /\ o[p].kind # "none" => o[n].kind = "dir"
  BY <1>1 DEF Comes, OutFacts, OutShape
<1>3. node \in Nodes /\ node.kind = "dir" /\ node.data = NULL /\ node.time = "saved"
  BY DEF Nodes
<1>4. e \notin Files(Box)
  BY FilesAreNoDirs
<1>5. CASE ~ (o[n].kind = "dir" /\ o[p].kind = "none") /\ o[p].kind # "dir"
  <2>1. u = o
    BY <1>2, <1>5
  <2>2. OthersKept(o, D, e)
    BY DEF OutFacts, OthersKept
  <2>3. DirOut(o, p) /\ DirTime(o, p)
    BY <1>1, <1>5 DEF DirOut, DirTime, ItemKept
  <2> QED  BY <1>4, <2>1, <2>2, <2>3, OneMore
<1>6. CASE (o[n].kind = "dir" /\ o[p].kind = "none") \/ o[p].kind = "dir"
  <2>1. o[n].kind = "dir"
    BY <1>2, <1>6
  <2>2. u = IF o[p].kind = "none" THEN [o EXCEPT ![p] = node, ![n].time = "now"]
            ELSE [o EXCEPT ![p] = node]
    <3>1. CASE o[p].kind = "none"
      BY <1>2, <1>6, <3>1
    <3>2. CASE o[p].kind = "dir"
      <4>1. node = [o[p] EXCEPT !.time = "saved"]
        <5>1. PICK t : t = o[p].time
          OBVIOUS
        <5>2. o[p] = [kind |-> "dir", data |-> NULL, time |-> t]
          <6>1. o[p] = [kind |-> o[p].kind, data |-> o[p].data, time |-> o[p].time]
            BY <1>2, NodeParts
          <6> QED  BY <1>1, <3>2, <5>1, <6>1 DEF ItemKept
        <5> QED  BY <5>2
      <4>2. u = [o EXCEPT ![p].time = "saved"]
        BY <3>2
      <4> QED  BY <3>2, <4>1, <4>2
    <3> QED  BY <1>6, <3>1, <3>2
  <2>3. Changes(o, u, p, n, node)
    BY <1>2, <1>3, <2>2, PutChanges
  <2>4. OthersKept(u, D, e)
    BY <1>1, <1>3, <2>1, <2>3, PutKeeps
  <2>5. DirOut(u, p)
    BY <1>1, <1>3, <1>6, <2>1, <2>3 DEF DirOut, Changes, ItemKept
  <2>6. DirTime(u, p)
    <3>1. ~ NewIn(o, p)
      BY <1>1, NothingNewYet
    <3>2. ~ NewIn(u, p)
      <4> SUFFICES ASSUME NEW q \in Targets \ {<<>>}, Was[q].kind = "none", u[q].kind # "none",
                          Front(q) = p
                   PROVE  FALSE
        BY DEF NewIn
      <4>1. q # p
        BY <1>2
      <4>2. u[q].kind = o[q].kind
        BY <2>3, <4>1 DEF Changes
      <4> QED  BY <3>1, <4>2 DEF NewIn
    <3> QED  BY <1>3, <2>3, <3>2 DEF DirTime, Changes
  <2> QED  BY <1>4, <2>4, <2>5, <2>6, OneMore
<1> QED  BY <1>5, <1>6

ExtractInv ==
    /\ todo \in Seq(Entries) /\ OutShape(out)
    /\ pc \notin {"extract", "exit"} => out = Was
    /\ pc = "extract" =>
         /\ IsRest(Box.kids, start, todo)
         /\ \E D : D = Gone(start, todo) /\ OutFacts(out, D)
    /\ ExtractEnded => \E D : D = AskedEntries /\ OutFacts(out, D)

\* OutFacts says the same while the command line and what there was are the same.
LEMMA SameFacts ==
    ASSUME UNCHANGED <<cmd, before>>, NEW o, o = out', NEW D
    PROVE  OutFacts(out, D)' <=> OutFacts(o, D)
<1>1. Box' = Box /\ AskedEntries' = AskedEntries /\ Was' = Was
  BY SameArchive DEF Was
<1>2. PlacesAsked' = PlacesAsked /\ Files(Box)' = Files(Box) /\ Dirs(Box)' = Dirs(Box)
  BY <1>1 DEF PlacesAsked, PlaceOf, Files, Dirs
<1>3. \A p : Reach(p)' <=> Reach(p)
  BY <1>1, <1>2 DEF Reach
<1>4. \A x : PlaceOf(x)' = PlaceOf(x)
  BY <1>1 DEF PlaceOf
<1>5. \A p : NewIn(out, p)' <=> NewIn(o, p)
  BY <1>1 DEF NewIn
<1>6. \A p : ItemKept(out, p)' <=> ItemKept(o, p)
  BY <1>1 DEF ItemKept
<1>7. \A x, p : FileOut(out, x, p)' <=> FileOut(o, x, p)
  BY <1>1, <1>3, <1>6 DEF FileOut
<1>8. \A p : /\ DirOut(out, p)' <=> DirOut(o, p)
             /\ DirTime(out, p)' <=> DirTime(o, p)
  BY <1>1, <1>3, <1>5 DEF DirOut, DirTime
<1>9. OutShape(out)' <=> OutShape(o)
  BY DEF OutShape
<1> QED  BY <1>1, <1>2, <1>4, <1>6, <1>7, <1>8, <1>9 DEF OutFacts

LEMMA OtherSteps ==
    ASSUME OptionsInv, BaseInv,
           \/ CountArguments \/ getopt \/ OptionsEnd \/ OpenArchive \/ StartEntry
           \/ Create \/ RemoveEntry \/ MoveEntry \/ List \/ Details \/ Show \/ ba_save
    PROVE  /\ UNCHANGED <<cmd, before, out, todo>>
           /\ pc \notin {"extract", "exit"} /\ pc' # "extract"
           /\ ~ ExtractEnded'
<1>1. UNCHANGED <<cmd, before, out, todo>> /\ pc \notin {"extract", "exit"} /\ pc' # "extract"
  BY DEF CountArguments, getopt, OptionsEnd, OpenArchive, StartEntry, Create, RemoveEntry, MoveEntry,
         List, Details, Show, ba_save, ListPaths, Changed, Crash, Refuse, Exit, Do, given, world
<1>2. SUFFICES ASSUME pc' = "exit", code' = 0, Asked = "EXTRACT", Understood PROVE FALSE
  BY <1>1, SameArchive DEF ExtractEnded, Understood
<1>3. CASE CountArguments \/ getopt
  BY <1>2, <1>3, NotUnderstood
<1>4. CASE OptionsEnd \/ OpenArchive \/ StartEntry
  BY <1>2, <1>4 DEF OptionsEnd, OpenArchive, StartEntry, Exit
<1>5. CASE Create \/ RemoveEntry \/ MoveEntry \/ List \/ Details \/ Show \/ ba_save
  <2>1. /\ pc \in {"job", "save", "list"}
        /\ pc = "job" => job # "EXTRACT"
    BY <1>5 DEF Create, RemoveEntry, MoveEntry, List, Details, Show, ba_save, Do
  <2>2. job = "EXTRACT"
    BY <1>2, <2>1 DEF OptionsInv, OptionsKnown, Working
  <2>3. Edited
    BY <2>1, <2>2 DEF BaseInv
  <2> QED  BY <2>2, <2>3 DEF Edited
<1> QED  BY <1>3, <1>4, <1>5

LEMMA ExtractStarts ==
    ASSUME OptionsInv, BaseInv, ExtractInv, Extract
    PROVE  ExtractInv'
<1>1. /\ UNCHANGED <<cmd, before, out, start>> /\ pc = "job" /\ job = "EXTRACT"
      /\ pc' \in {"exit", "crash", "extract"}
      /\ todo' \in {start, todo} /\ (pc' = "extract" => todo' = start)
      /\ pc' = "exit" /\ code' = 0 => NULL \in {opts.f, archive}
  BY DEF Extract, Refuse, Exit, Do, given, world
<1>2. Box' = Box /\ AskedEntries' = AskedEntries /\ Was' = Was /\ out = Was /\ Asked' = Asked
  BY <1>1, SameArchive DEF Was, ExtractInv
<1>3. start \in Seq(Entries) /\ Started /\ Opened /\ OptionsKnown /\ OutShape(out) /\ todo \in Seq(Entries)
  BY <1>1 DEF BaseInv, ExtractInv, OptionsInv, Working
<1>4. OutFacts(out, {})
  BY <1>2, SettingGiven, OutFirst
<1>5. PICK o : o = out' /\ o = out
  BY <1>1
<1>6. OutFacts(out, {})'
  BY <1>1, <1>4, <1>5, SameFacts
<1>7. ASSUME pc' = "extract"
      PROVE  /\ IsRest(Box.kids, start, todo)'
             /\ (\E D : D = Gone(start, todo) /\ OutFacts(out, D))'
  <2>1. InWalkOrder(Box.kids, start)
    BY <1>1, <1>3 DEF Started
  <2>2. IsRest(Box.kids, start, start) /\ Gone(start, start) = {}
    BY <1>3, <2>1, AllRest
  <2>3. IsRest(Box.kids, start, todo)'
    BY <1>1, <1>2, <1>7, <2>2 DEF IsRest, Gone
  <2>4. Gone(start, todo)' = {}
    BY <1>1, <1>7, <2>2 DEF Gone
  <2> QED  BY <1>6, <2>3, <2>4
<1>8. ASSUME ExtractEnded' PROVE AskedEntries' = {}
  <2>1. NULL \in {opts.f, archive} /\ Asked = "EXTRACT"
    BY <1>1, <1>2, <1>8 DEF ExtractEnded
  <2>2. Box = NoTree
    <3>1. CASE opts.f = NULL
      <4>1. Arg("f") = NULL /\ Box = Given
        BY <1>3, <3>1 DEF OptionsKnown, BaseInv, Box
      <4> QED  BY <4>1 DEF Given
    <3>2. CASE archive = NULL
      BY <1>1, <1>3, <3>2 DEF Opened
    <3> QED  BY <2>1, <3>1, <3>2
  <2>3. AskedEntries \subseteq Content(Box)
    BY SettingGiven DEF Setting
  <2> QED  BY <1>2, <2>2, <2>3, EmptyTree
<1>9. OutShape(out)' /\ todo' \in Seq(Entries)
  BY <1>1, <1>3 DEF OutShape
<1> QED  BY <1>1, <1>2, <1>6, <1>7, <1>8, <1>9 DEF ExtractInv

\* What extracting the next entry does.
LEMMA StepMakes ==
    ASSUME OptionsInv, BaseInv, NEW e \in AskedEntries, archive = Box,
           NEW D, OutFacts(out, D), Extracts(out, out, D, e), NEW u, u = out',
           IF archive.info[e].type = "file" THEN ba_extract(e) ELSE ba_mkdir(e)
    PROVE  OutFacts(u, D \cup {e})
<1>1. Setting
  BY SettingGiven
<1>2. /\ GoodTree(Box) /\ e \in Content(Box) /\ e \in Entries
      /\ Box.info[e].type \in {"file", "dir"}
  BY <1>1, GoodFacts DEF Setting
<1>3. PICK p : p = PlaceOf(e)
  OBVIOUS
<1>4. Place(e) = p
  BY <1>2, <1>3 DEF Place, PlaceOf, GoodTree
<1>5. PICK o : o = out
  OBVIOUS
<1>6. OutFacts(o, D) /\ Extracts(o, u, D, e)
  BY <1>5 DEF Extracts
<1>7. CASE archive.info[e].type = "file"
  <2>1. e \in Files(Box)
    BY <1>2, <1>7 DEF Files
  <2>2. PICK node : node = [kind |-> "file", data |-> e, time |-> "saved"]
    OBVIOUS
  <2>3. \/ /\ o[Front(p)].kind = "dir" /\ o[p].kind = "none"
           /\ u = [o EXCEPT ![p] = node, ![Front(p)].time = "now"]
        \/ o[Front(p)].kind = "dir" /\ o[p].kind = "file" /\ u = [o EXCEPT ![p] = node]
        \/ ~ (o[Front(p)].kind = "dir" /\ o[p].kind # "dir") /\ u = o
    <3>1. ba_extract(e)
      BY <1>7
    <3>2. o[p].kind \in {"none", "file", "dir"}
      BY <1>1, <1>2, <1>3, <1>6, NodeParts DEF Setting, OutFacts, OutShape
    <3> QED  BY <1>4, <1>5, <2>2, <3>1, <3>2 DEF ba_extract, Put, InDir, Absent
  <2>4. node \in Nodes /\ node.kind = "file" /\ node.data = e /\ node.time = "saved"
    BY <1>2, <2>2 DEF Nodes
  <2> QED  BY <1>1, <1>3, <1>6, <2>1, <2>3, <2>4, FileExtracted
<1>8. CASE archive.info[e].type # "file"
  <2>1. e \in Dirs(Box)
    BY <1>2, <1>8 DEF Dirs
  <2>2. PICK node : node = [kind |-> "dir", data |-> NULL, time |-> "saved"]
    OBVIOUS
  <2>3. \/ /\ o[Front(p)].kind = "dir" /\ o[p].kind = "none"
           /\ u = [o EXCEPT ![p] = node, ![Front(p)].time = "now"]
        \/ o[p].kind = "dir" /\ u = [o EXCEPT ![p].time = "saved"]
        \/ ~ (o[Front(p)].kind = "dir" /\ o[p].kind = "none") /\ o[p].kind # "dir" /\ u = o
    <3>1. ba_mkdir(e)
      BY <1>8
    <3> QED  BY <1>4, <1>5, <2>2, <3>1 DEF ba_mkdir, Put, InDir, Absent
  <2> QED  BY <1>1, <1>3, <1>6, <2>1, <2>2, <2>3, DirExtracted
<1> QED  BY <1>7, <1>8

LEMMA ExtractMore ==
    ASSUME OptionsInv, BaseInv, ExtractInv, rec_extract_func
    PROVE  ExtractInv'
<1>1. /\ UNCHANGED <<cmd, before, start>> /\ pc = "extract" /\ pc' = "extract" /\ todo # <<>>
      /\ todo' = Tail(todo)
  BY DEF rec_extract_func, given, Following
<1>2. archive = Box /\ ToSet(start) = AskedEntries /\ start \in Seq(Entries)
  BY <1>1 DEF BaseInv, Started
<1>3. Box' = Box /\ AskedEntries' = AskedEntries
  BY <1>1, SameArchive
<1>4. IsRest(Box.kids, start, todo)
  BY <1>1 DEF ExtractInv
<1>5. PICK D : D = Gone(start, todo) /\ OutFacts(out, D)
  BY <1>1 DEF ExtractInv
<1>6. PICK e, less : /\ e = Head(todo) /\ less = Tail(todo)
                     /\ IsRest(Box.kids, start, less)
                     /\ e \in ToSet(start) /\ e \notin Gone(start, todo)
                     /\ Gone(start, less) = Gone(start, todo) \cup {e}
                     /\ \A c \in ToSet(start) : e \in ToSet(Box.kids[c]) => c \in Gone(start, todo)
  BY <1>1, <1>2, <1>4, NextRest
<1>7. PICK u : u = out'
  OBVIOUS
<1>8. OutFacts(u, D \cup {e})
  <2>1. e \in AskedEntries /\ Extracts(out, out, D, e)
    BY <1>2, <1>5, <1>6 DEF Extracts
  <2>2. IF archive.info[e].type = "file" THEN ba_extract(e) ELSE ba_mkdir(e)
    BY <1>6 DEF rec_extract_func
  <2> QED  BY <1>2, <1>5, <1>7, <2>1, <2>2, StepMakes
<1>9. OutFacts(out, D \cup {e})'
  BY <1>1, <1>7, <1>8, SameFacts
<1>10. (\E E : E = Gone(start, todo) /\ OutFacts(out, E))'
  <2>1. Gone(start, todo)' = D \cup {e}
    BY <1>1, <1>5, <1>6 DEF Gone
  <2> QED  BY <1>9, <2>1
<1>11. IsRest(Box.kids, start, todo)'
  BY <1>1, <1>3, <1>6 DEF IsRest, Gone
<1>12. OutShape(out)'
  BY <1>7, <1>8 DEF OutFacts, OutShape
<1>13. todo' \in Seq(Entries)
  BY <1>1, <1>6 DEF IsRest
<1> QED  BY <1>1, <1>10, <1>11, <1>12, <1>13 DEF ExtractInv, ExtractEnded

LEMMA ExtractEnds ==
    ASSUME OptionsInv, BaseInv, ExtractInv, Extracted
    PROVE  ExtractInv'
<1>1. UNCHANGED <<cmd, before, out, start, todo>> /\ pc = "extract" /\ pc' = "exit" /\ todo = <<>>
  BY DEF Extracted, Exit, given, world
<1>2. AskedEntries' = AskedEntries
  BY <1>1, SameArchive
<1>3. ToSet(start) = AskedEntries
  BY <1>1 DEF BaseInv, Started
<1>4. PICK D : D = Gone(start, todo) /\ OutFacts(out, D)
  BY <1>1 DEF ExtractInv
<1>5. D = AskedEntries
  BY <1>1, <1>3, <1>4, SetOfEmpty DEF Gone
<1>6. PICK o : o = out' /\ o = out
  BY <1>1
<1>7. OutFacts(out, D)'
  BY <1>1, <1>4, <1>6, SameFacts
<1>8. OutShape(out)' /\ todo' \in Seq(Entries)
  BY <1>1 DEF ExtractInv, OutShape
<1> QED  BY <1>1, <1>2, <1>5, <1>7, <1>8 DEF ExtractInv

LEMMA ExtractStep ==
    ASSUME OptionsInv, BaseInv, ExtractInv, [Next]_vars
    PROVE  ExtractInv'
<1>1. CASE UNCHANGED vars
  <2>1. UNCHANGED <<cmd, before, out, start, todo, pc, code>>
    BY <1>1 DEF vars, given, world
  <2>2. PICK o : o = out' /\ o = out
    BY <2>1
  <2>3. \A D : OutFacts(out, D) => OutFacts(out, D)'
    BY <2>1, <2>2, SameFacts
  <2>4. Box' = Box /\ AskedEntries' = AskedEntries /\ Was' = Was /\ (ExtractEnded' <=> ExtractEnded)
    BY <2>1, SameArchive DEF Was, ExtractEnded, Understood
  <2>5. /\ IsRest(Box.kids, start, todo)' <=> IsRest(Box.kids, start, todo)
        /\ Gone(start, todo)' = Gone(start, todo) /\ (OutShape(out)' <=> OutShape(out))
    BY <2>1, <2>4 DEF IsRest, Gone, OutShape
  <2> QED  BY <2>1, <2>3, <2>4, <2>5 DEF ExtractInv
<1>2. ASSUME \/ CountArguments \/ getopt \/ OptionsEnd \/ OpenArchive \/ StartEntry
             \/ Create \/ RemoveEntry \/ MoveEntry \/ List \/ Details \/ Show \/ ba_save
      PROVE  ExtractInv'
  <2>1. /\ UNCHANGED <<cmd, before, out, todo>> /\ pc \notin {"extract", "exit"} /\ pc' # "extract"
        /\ ~ ExtractEnded'
    BY <1>2, OtherSteps
  <2> QED  BY <2>1 DEF ExtractInv, OutShape, Was
<1> QED  BY <1>1, <1>2, ExtractStarts, ExtractMore, ExtractEnds DEF Next

LEMMA ExtractKept == Spec => []ExtractInv
<1>1. Init => ExtractInv
  <2> SUFFICES ASSUME Init PROVE ExtractInv
    OBVIOUS
  <2>1. OptionsInv /\ BaseInv
    BY OptionsInit, BaseInit
  <2>2. pc = "args" /\ todo = <<>> /\ out = Was
    BY DEF Init, Was
  <2>3. OutShape(out)
    BY <2>1, <2>2, SettingGiven DEF Setting
  <2> QED  BY <2>2, <2>3 DEF ExtractInv, ExtractEnded
<1>2. OptionsInv /\ BaseInv /\ ExtractInv /\ [Next]_vars => ExtractInv'
  BY ExtractStep
<1> QED  BY <1>1, <1>2, BaseKept, PTL DEF Spec

LEMMA BlockedMeans ==
    ASSUME Setting, NEW p \in Targets
    PROVE  Blocked(p, PlacesAsked) <=> ~ (Was[p].kind # "dir" /\ Reach(p))
<1>1. Was \in [Targets -> Nodes]
  BY DEF Setting, OutShape
<1>2. \A q \in Prefixes(p) : Was[q].kind \in {"none", "file", "dir"}
  BY <1>1, WayInTargets, NodeParts
<1> QED  BY <1>2 DEF Blocked, Reach, Was

\* Extracting puts each file asked for in its place with its contents, unless something
\* on the way or at the place blocks it, and leaves everything else but times as it was
\* (main.c:360), whatever there was before.
THEOREM FilesExtracted == Spec => []ExtractedUnlessBlocked
<1>1. ASSUME OptionsInv, BaseInv, ExtractInv PROVE ExtractedUnlessBlocked
  <2> SUFFICES ASSUME ExtractEnded PROVE ExtractedUnlessBlocked
    BY DEF ExtractedUnlessBlocked
  <2>1. Setting /\ OutFacts(out, AskedEntries)
    BY <1>1, SettingGiven DEF ExtractInv
  <2>2. PlacesAsked = {NamesTo(Box, e) : e \in AskedEntries}
    BY DEF PlacesAsked, PlaceOf
  <2>3. ASSUME NEW e \in AskedEntries \cap Files(Box)
        PROVE  (out[NamesTo(Box, e)].data = e) <=> ~ Blocked(NamesTo(Box, e), PlacesAsked)
    <3>1. PICK p : p = NamesTo(Box, e) /\ p = PlaceOf(e) /\ p \in Targets
      BY <2>1 DEF PlaceOf, Setting
    <3>2. FileOut(out, e, p) /\ e # NULL
      BY <2>1, <2>3, <3>1 DEF OutFacts, Setting, Files
    <3>3. out[p].data = e <=> Was[p].kind # "dir" /\ Reach(p)
      BY <3>2 DEF FileOut, ItemKept
    <3>4. Blocked(p, PlacesAsked) <=> ~ (Was[p].kind # "dir" /\ Reach(p))
      BY <2>1, <3>1, BlockedMeans
    <3> QED  BY <3>1, <3>3, <3>4
  <2>4. ASSUME NEW p \in Targets \ PlacesAsked
        PROVE  out[p].kind = before.out[p].kind /\ out[p].data = before.out[p].data
    <3>1. ItemKept(out, p)
      BY <2>1, <2>4 DEF OutFacts, PlacesAsked
    <3> QED  BY <2>1, <3>1 DEF ItemKept, Was, Setting
  <2> QED  BY <2>2, <2>3, <2>4 DEF ExtractedUnlessBlocked
<1> QED  BY <1>1, BaseKept, ExtractKept, PTL

\* An extracted file has its times from the archive; a directory has them exactly if
\* nothing was made in it, which is after ba_mkdir() has set them (filesystem.c:42).
THEOREM TimesAsSaved == Spec => []TimesKept
<1>1. ASSUME OptionsInv, BaseInv, ExtractInv PROVE TimesKept
  <2> SUFFICES ASSUME ExtractEnded, NEW e \in AskedEntries, NEW p, p = NamesTo(Box, e)
               PROVE  LET New == {q \in Targets : before.out[q].kind = "none" /\ out[q].kind # "none"}
                          InNew(d) == \E q \in New \ {<<>>} : Front(q) = d
                      IN  /\ e \in Files(Box) /\ out[p].data = e => out[p].time = "saved"
                          /\ e \in Dirs(Box) /\ out[p].kind = "dir" => (out[p].time = "saved" <=> ~ InNew(p))
    BY DEF TimesKept
  <2>1. Setting /\ OutFacts(out, AskedEntries)
    BY <1>1, SettingGiven DEF ExtractInv
  <2>2. p = PlaceOf(e)
    BY DEF PlaceOf
  <2>3. ASSUME e \in Files(Box), out[p].data = e PROVE out[p].time = "saved"
    <3>1. FileOut(out, e, p) /\ e # NULL
      BY <2>1, <2>2, <2>3 DEF OutFacts, Setting
    <3> QED  BY <2>3, <3>1 DEF FileOut, ItemKept
  <2>4. ASSUME e \in Dirs(Box), out[p].kind = "dir" PROVE out[p].time = "saved" <=> ~ NewIn(out, p)
    <3>1. DirTime(out, p)
      BY <2>1, <2>2, <2>4 DEF OutFacts
    <3> QED  BY <2>4, <3>1 DEF DirTime
  <2> QED  BY <2>3, <2>4 DEF NewIn, Was
<1> QED  BY <1>1, BaseKept, ExtractKept, PTL

\* What main() works on is what the program means it to be: the options are those of the
\* command line, the tree, the entry to start from and those to come are entries, the
\* archives can be read, and what is there is in a directory.
THEOREM ProgramTypes == Spec => []TypeOK
<1>1. ASSUME OptionsInv, BaseInv, ExtractInv PROVE TypeOK
  <2>1. ToSet(args) \subseteq ToSet(cmd) /\ job \in Jobs /\ code \in {0, 1}
    BY <1>1 DEF OptionsInv
  <2>2. archive # NULL => Content(archive) \subseteq Entries
    <3> SUFFICES ASSUME archive # NULL PROVE Content(archive) \subseteq Entries
      OBVIOUS
    <3>1. Lists(archive.kids) /\ Founded(archive.kids) /\ NULL \in Places
      BY <1>1 DEF BaseInv, Listed, Places
    <3> QED  BY <3>1, DescendantsDef DEF Content
  <2>3. ToSet(start) \cup ToSet(todo) \subseteq Entries
    <3>1. start \in Seq(Entries) /\ todo \in Seq(Entries)
      BY <1>1 DEF BaseInv, ExtractInv
    <3> QED  BY <3>1, SetOfSeq
  <2>4. \A b \in Boxes : files[b] # NULL => ~ Unreadable(files[b])
    BY <1>1 DEF BaseInv
  <2>5. ASSUME NEW p \in Targets
        PROVE  /\ out[p].kind \in {"none", "file", "dir"} /\ out[p].time \in {"old", "now", "saved"}
               /\ p # <<>> /\ out[p].kind # "none" => out[Front(p)].kind = "dir"
    <3>1. /\ out \in [Targets -> Nodes]
          /\ \A q \in Targets \ {<<>>} : out[q].kind # "none" => out[Front(q)].kind = "dir"
      BY <1>1 DEF ExtractInv, OutShape
    <3> QED  BY <3>1, NodeParts
  <2>6. pc \in {"args", "getopt", "open", "entry", "job", "save", "list", "extract", "exit", "crash"}
    BY <1>1 DEF OptionsInv, Working
  <2> QED  BY <2>1, <2>2, <2>3, <2>4, <2>5, <2>6 DEF TypeOK
<1> QED  BY <1>1, BaseKept, ExtractKept, PTL
=============================================================================
